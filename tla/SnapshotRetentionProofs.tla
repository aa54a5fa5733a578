------------------------ MODULE SnapshotRetentionProofs ------------------------
(***************************************************************************)
(* SnapshotRetention, for every set of snapshots and workers, every        *)
(* retention and any number of losses: no snapshot is deleted before its   *)
(* time, no record says that one is deleted when it is not, and where no   *)
(* process was lost, record and job agree in the end.  Last, its deletion  *)
(* jobs implement JobPromise.                                              *)
(***************************************************************************)
EXTENDS SnapshotRetention, JobRowProofs

(* The deletion of a snapshot has been released.                           *)
Started(s) == job[s].status \notin {"absent", "scheduled"}

(* A job exists only once the execution is over and the hour is set, and   *)
(* it leaves the state "scheduled" only when that hour has come.           *)
HourIsSet ==
  \A s \in Snapshots :
    /\ job[s].status # "absent" => exec[s] = "ended" /\ snap[s].after # Never
    /\ exec[s] = "schedule" => snap[s].after # Never
    /\ Started(s) => Due(s)

(* What a worker holds agrees with that: its copy of the row never takes   *)
(* the job back, and its copy of the record has the same hour.             *)
WorkersAreLate ==
  \A w \in Workers :
    ~At(w, "idle") =>
      /\ Started(work[w].of)
      /\ work[w].row.status \notin {"absent", "scheduled"}
      /\ work[w].held.after = snap[work[w].of].after
      /\ At(w, "done") => stored[work[w].of] = "gone"

(* The platform is asked to make a snapshot before any record of it can    *)
(* say that it is deleted.                                                 *)
CreatedFirst ==
  \A s \in Snapshots : exec[s] = "creating" => snap[s].state # "deleted"

IInv == TypeOK /\ HourIsSet /\ WorkersAreLate /\ CreatedFirst /\ DeletedIsTrue

-----------------------------------------------------------------------------
(* Type correctness.                                                       *)

LEMMA IdleIsTask == Idle \in Tasks /\ Idle.at = "idle"
<1>1. (CHOOSE s \in Snapshots : TRUE) \in Snapshots
  BY RetentionAssumption
<1>2. NoRecord \in Records
  BY DEF NoRecord, Records, SnapshotStates
<1> QED
  BY <1>1, <1>2, NewRowIsRow DEF Idle, Tasks, Points

LEMMA RecordsKeepTheirType ==
  ASSUME NEW r \in Records, NEW state \in SnapshotStates
  PROVE  /\ [r EXCEPT !.state = state] \in Records
         /\ [r EXCEPT !.state = state].after = r.after
         /\ [r EXCEPT !.state = state].state = state
BY DEF Records

LEMMA SetStateRules ==
  ASSUME TypeOK, NEW s \in Snapshots, NEW state \in SnapshotStates, SetState(s, state)
  PROVE  /\ snap' \in [Snapshots -> Records]
         /\ snap'[s].state = state
         /\ \A u \in Snapshots : snap'[u].after = snap[u].after
         /\ \A u \in Snapshots : u # s => snap'[u] = snap[u]
<1>1. snap[s] \in Records /\ DOMAIN snap = Snapshots
  BY DEF TypeOK
<1>2. snap' = [snap EXCEPT ![s] = [snap[s] EXCEPT !.state = state]]
  BY DEF SetState
<1> QED
  BY <1>1, <1>2, RecordsKeepTheirType DEF TypeOK

(* A worker that lets go of its task changes only work and sent.           *)
LEMMA FinishType ==
  ASSUME TypeOK, NEW w \in Workers, Finish(w)
  PROVE  work' \in [Workers -> Tasks]
BY IdleIsTask DEF TypeOK, Finish

LEMMA LeaseLostType ==
  ASSUME TypeOK, NEW w \in Workers, LeaseLost(w)
  PROVE  work' \in [Workers -> Tasks] /\ sent' \subseteq Snapshots /\ job' = job
<1>1. work' \in [Workers -> Tasks]
  BY FinishType DEF LeaseLost
<1>2. work[w].of \in Snapshots
  BY DEF TypeOK, Tasks
<1> QED
  BY <1>1, <1>2 DEF LeaseLost, RetryAfter, TypeOK

LEMMA InterruptedType ==
  ASSUME TypeOK, NEW w \in Workers, Interrupted(w)
  PROVE  stored' \in [Snapshots -> {"never", "held", "gone"}]
BY DEF TypeOK, Interrupted

LEMMA ExecType ==
  ASSUME TypeOK, NEW s \in Snapshots, ExecStep(s) \/ AbandonExec(s)
  PROVE  TypeOK'
<1>1. snap[s] \in Records
  BY DEF TypeOK
<1>2. CASE BeginSnapshot(s)
  <2>1. snap' \in [Snapshots -> Records]
    BY <1>2, SetStateRules DEF BeginSnapshot, SnapshotStates
  <2> QED
    BY <1>2, <2>1 DEF BeginSnapshot, Goto, OutsideExec, hist, TypeOK, ExecPoints
<1>3. CASE CreateSnapshot(s)
  <2>1. snap' \in [Snapshots -> Records]
    BY <1>3, SetStateRules DEF CreateSnapshot, SnapshotStates, TypeOK
  <2>2. stored' \in [Snapshots -> {"never", "held", "gone"}]
    BY <1>3 DEF CreateSnapshot, TypeOK
  <2>3. exec' \in [Snapshots -> ExecPoints]
    BY <1>3 DEF CreateSnapshot, Goto, TypeOK, ExecPoints
  <2> QED
    BY <1>3, <2>1, <2>2, <2>3 DEF CreateSnapshot, OutsideExec, hist, TypeOK
<1>4. CASE PassHealth(s)
  <2>1. [state |-> "delete_scheduled", after |-> now + Retention] \in Records
    BY RetentionAssumption DEF Records, SnapshotStates, TypeOK
  <2> QED
    BY <1>4, <2>1 DEF PassHealth, Goto, OutsideExec, hist, TypeOK, ExecPoints
<1>5. CASE FailHealth(s)
  <2>1. snap' \in [Snapshots -> Records]
    BY <1>5, SetStateRules DEF FailHealth, SnapshotStates
  <2> QED
    BY <1>5, <2>1 DEF FailHealth, Goto, OutsideExec, hist, TypeOK, ExecPoints
<1>6. CASE RollBack(s)
  <2>1. PICK state \in {"rolled_back", "rollback_failed"} : SetState(s, state)
    BY <1>6 DEF RollBack
  <2>2. snap' \in [Snapshots -> Records]
    BY <2>1, SetStateRules DEF SnapshotStates
  <2> QED
    BY <1>6, <2>2 DEF RollBack, Goto, OutsideExec, hist, TypeOK, ExecPoints
<1>7. CASE ScheduleDelete(s)
  <2>1. [NewRow("scheduled") EXCEPT !.phase = "waiting_for_retention"] \in Row
    BY NewRowsAreRows, RetentionAssumption DEF Row, Statuses
  <2> QED
    BY <1>7, <2>1 DEF ScheduleDelete, Goto, hist, TypeOK, ExecPoints
<1>8. CASE AbandonExec(s)
  BY <1>8 DEF AbandonExec, Goto, TypeOK, ExecPoints
<1> QED
  BY <1>2, <1>3, <1>4, <1>5, <1>6, <1>7, <1>8 DEF ExecStep

LEMMA WorkerType ==
  ASSUME TypeOK, NEW w \in Workers, WorkerStep(w) \/ RaiseError(w) \/ CancelTask(w) \/ Crash(w)
  PROVE  TypeOK'
<1> DEFINE s == work[w].of
<1>1. /\ work[w] \in Tasks /\ s \in Snapshots /\ work[w].row \in Row
      /\ work[w].held \in Records /\ job[s] \in Row
  BY DEF TypeOK, Tasks
<1>2. ASSUME NEW u \in Snapshots, ClaimDelete(w, u) PROVE TypeOK'
  <2>1. job[u] \in Row /\ snap[u] \in Records
    BY DEF TypeOK
  <2>2. Exhausted(job[u]) \in Row /\ Claimed(job[u], w, 0) \in Row
    BY <2>1, ExhaustedIsRow, ClaimedIsRow
  <2>3. [at |-> "claimed", of |-> u, row |-> Claimed(job[u], w, 0), held |-> snap[u]]
          \in Tasks
    BY <2>1, <2>2 DEF Tasks, Points
  <2>4. job' \in [Snapshots -> Row] /\ work' \in [Workers -> Tasks] /\ dropped' \subseteq Snapshots
    BY <1>2, <2>2, <2>3 DEF ClaimDelete, TypeOK
  <2> QED
    BY <1>2, <2>4 DEF ClaimDelete, TypeOK
<1>3. CASE StartDelete(w)
  <2> DEFINE copy == [work[w].row EXCEPT !.phase = "snapshot_delete"]
  <2>1. copy \in Row
    BY <1>1, RetentionAssumption DEF Row
  <2>2. SavedOver(job[s], copy) \in Row
    BY <1>1, <2>1, SavedOverIsRow
  <2>3. [work[w] EXCEPT !.at = "deleting", !.row = copy] \in Tasks
    BY <1>1, <2>1 DEF Tasks, Points
  <2> HIDE DEF copy
  <2>4. CASE Owns(w)
    <3>1. /\ job' = [job EXCEPT ![s] = SavedOver(job[s], copy)]
          /\ work' = [work EXCEPT ![w] = [work[w] EXCEPT !.at = "deleting", !.row = copy]]
          /\ sent' = sent
      BY <1>3, <2>4 DEF StartDelete, copy
    <3> QED
      BY <1>1, <1>3, <2>2, <2>3, <3>1 DEF StartDelete, OutsideWork, hist, TypeOK
  <2>5. CASE ~Owns(w)
    BY <1>3, <2>5, LeaseLostType DEF StartDelete, OutsideWork, hist, TypeOK
  <2> QED
    BY <2>4, <2>5
<1>4. CASE DeleteSnapshot(w)
  <2>1. \A p \in {"done", "refused", "raised"} : [work[w] EXCEPT !.at = p] \in Tasks
    BY <1>1 DEF Tasks, Points
  <2>2. work' \in [Workers -> Tasks]
    BY <1>4, <2>1 DEF DeleteSnapshot, Move, TypeOK
  <2>3. stored' \in [Snapshots -> {"never", "held", "gone"}]
    BY <1>1, <1>4 DEF DeleteSnapshot, TypeOK
  <2> QED
    BY <1>4, <2>2, <2>3 DEF DeleteSnapshot, OutsideWork, hist, TypeOK
<1>5. CASE RecordDelete(w)
  <2>1. \A p \in {"completing", "raised"} : [work[w] EXCEPT !.at = p] \in Tasks
    BY <1>1 DEF Tasks, Points
  <2>2. work' \in [Workers -> Tasks]
    BY <1>5, <2>1 DEF RecordDelete, Move, TypeOK
  <2>3. snap' \in [Snapshots -> Records]
    BY <1>1, <1>5, RecordsKeepTheirType DEF RecordDelete, TypeOK, SnapshotStates
  <2> QED
    BY <1>5, <2>2, <2>3 DEF RecordDelete, OutsideWork, hist, TypeOK
<1>6. CASE CompleteDelete(w)
  <2>1. CompletedCopy(work[w].row) \in Row
    BY <1>1, FinalCopiesAreRows
  <2> DEFINE copy == CompletedCopy(work[w].row)
  <2>2. [work[w] EXCEPT !.at = "auditing", !.row = copy] \in Tasks
    BY <1>1, <2>1 DEF Tasks, Points
  <2> HIDE DEF copy
  <2>3. CASE Owns(w)
    <3>1. /\ job' = [job EXCEPT ![s] = copy] /\ sent' = sent
          /\ work' = [work EXCEPT ![w] = [work[w] EXCEPT !.at = "auditing", !.row = copy]]
      BY <1>6, <2>3 DEF CompleteDelete, copy
    <3>2. job' \in [Snapshots -> Row]
      BY <1>1, <2>1, <3>1 DEF TypeOK, copy
    <3> QED
      BY <1>6, <2>2, <3>1, <3>2 DEF CompleteDelete, OutsideWork, hist, TypeOK
  <2>4. CASE ~Owns(w)
    BY <1>6, <2>4, LeaseLostType DEF CompleteDelete, OutsideWork, hist, TypeOK
  <2> QED
    BY <2>3, <2>4
<1>7. CASE FailDelete(w)
  <2>1. FailedCopy(work[w].row, FALSE) \in Row
    BY <1>1, FinalCopiesAreRows
  <2>2. job' \in [Snapshots -> Row]
    BY <1>1, <1>7, <2>1 DEF FailDelete, TypeOK
  <2>3. [work[w] EXCEPT !.at = "failed", !.row = job'[s]] \in Tasks
    BY <1>1, <2>2 DEF Tasks, Points
  <2>4. work' = [work EXCEPT ![w] = [work[w] EXCEPT !.at = "failed", !.row = job'[s]]]
    BY <1>7 DEF FailDelete
  <2>5. work' \in [Workers -> Tasks]
    BY <2>3, <2>4 DEF TypeOK
  <2> QED
    BY <1>7, <2>2, <2>5 DEF FailDelete, OutsideWork, hist, TypeOK
<1>8. CASE RecordFailure(w)
  <2>1. snap' \in [Snapshots -> Records]
    BY <1>1, <1>8, RecordsKeepTheirType DEF RecordFailure, TypeOK, SnapshotStates
  <2>2. work' \in [Workers -> Tasks] /\ sent' \subseteq Snapshots
    BY <1>1, <1>8, FinishType DEF RecordFailure, RetryAfter, TypeOK
  <2> QED
    BY <1>8, <2>1, <2>2 DEF RecordFailure, OutsideWork, hist, TypeOK
<1>9. CASE CancelTask(w)
  BY <1>9, LeaseLostType, InterruptedType DEF CancelTask, OutsideWork, hist, TypeOK
<1>10. CASE Crash(w)
  <2>1. work' \in [Workers -> Tasks] /\ stored' \in [Snapshots -> {"never", "held", "gone"}]
    BY <1>10, FinishType, InterruptedType DEF Crash
  <2>2. losses' \in 0 .. MaxLosses
    BY <1>10, RetentionAssumption DEF Crash, TypeOK
  <2> QED
    BY <1>1, <1>10, <2>1, <2>2 DEF Crash, TypeOK
<1>11. CASE AuditDelete(w)
  BY <1>11, FinishType DEF AuditDelete, OutsideWork, hist, TypeOK
<1>12. CASE RaiseError(w)
  <2>1. [work[w] EXCEPT !.at = "raised"] \in Tasks
    BY <1>1 DEF Tasks, Points
  <2>2. work' \in [Workers -> Tasks]
    BY <1>12, <2>1 DEF RaiseError, Move, TypeOK
  <2> QED
    BY <1>1, <1>12, <2>2 DEF RaiseError, TypeOK
<1> QED
  BY <1>2, <1>3, <1>4, <1>5, <1>6, <1>7, <1>8, <1>9, <1>10, <1>11, <1>12 DEF WorkerStep

LEMMA SweepType ==
  ASSUME TypeOK, Sweep
  PROVE  TypeOK'
<1>1. \A s \in Snapshots : job[s] \in Row /\ Recovered(job[s]) \in Row
  BY RecoveredIsRow DEF TypeOK
<1>2. job' \in [Snapshots -> Row]
  BY <1>1 DEF Sweep
<1>3. beat' \in [released : SUBSET Snapshots, recovered : SUBSET Snapshots,
                 exhausted : SUBSET Snapshots, ready : SUBSET Snapshots]
  BY DEF Sweep, TypeOK
<1> QED
  BY <1>2, <1>3 DEF Sweep, hist, TypeOK

LEMMA BeatType ==
  ASSUME TypeOK, NEW s \in Snapshots,
         \/ ReleaseDelete(s) \/ SendReleased(s) \/ RecordSweep(s) \/ SendRecovered(s)
         \/ Lapse(s)
  PROVE  TypeOK'
<1>1. job[s] \in Row /\ snap[s] \in Records
  BY DEF TypeOK
<1>2. CASE ReleaseDelete(s)
  <2>1. [job[s] EXCEPT !.status = "queued", !.phase = "none"] \in Row
    BY <1>1 DEF Row, Statuses, MarkerPhases
  <2>2. job' = [job EXCEPT ![s] = [job[s] EXCEPT !.status = "queued", !.phase = "none"]]
    BY <1>2 DEF ReleaseDelete
  <2> QED
    BY <1>2, <2>1, <2>2 DEF ReleaseDelete, hist, TypeOK
<1>3. CASE SendReleased(s)
  BY <1>3 DEF SendReleased, hist, TypeOK
<1>4. CASE RecordSweep(s)
  <2>1. snap' \in [Snapshots -> Records]
    <3>1. "delete_failed" \in SnapshotStates /\ "delete_scheduled" \in SnapshotStates
      BY DEF SnapshotStates
    <3>2. SetState(s, "delete_failed") \/ SetState(s, "delete_scheduled") \/ UNCHANGED snap
      BY <1>4 DEF RecordSweep
    <3> QED
      BY <3>1, <3>2, SetStateRules DEF TypeOK
  <2>2. \/ beat' = [beat EXCEPT !.exhausted = @ \ {s}]
        \/ beat' = [beat EXCEPT !.recovered = @ \ {s}, !.ready = @ \cup {s}]
    BY <1>4 DEF RecordSweep
  <2>3. beat' \in [released : SUBSET Snapshots, recovered : SUBSET Snapshots,
                   exhausted : SUBSET Snapshots, ready : SUBSET Snapshots]
    <3> DEFINE B == [released : SUBSET Snapshots, recovered : SUBSET Snapshots,
                     exhausted : SUBSET Snapshots, ready : SUBSET Snapshots]
    <3>1. beat \in B
      BY DEF TypeOK
    <3>2. [beat EXCEPT !.exhausted = beat.exhausted \ {s}] \in B
      BY <3>1
    <3>3. [beat EXCEPT !.recovered = beat.recovered \ {s}, !.ready = beat.ready \cup {s}] \in B
      BY <3>1
    <3> QED
      BY <2>2, <3>2, <3>3
  <2> QED
    BY <1>4, <2>1, <2>3 DEF RecordSweep, hist, TypeOK
<1>5. CASE SendRecovered(s)
  BY <1>5 DEF SendRecovered, hist, TypeOK
<1>6. CASE Lapse(s)
  <2>1. [job[s] EXCEPT !.expires = 0] \in Row
    BY <1>1 DEF Row
  <2>2. job' = [job EXCEPT ![s] = [job[s] EXCEPT !.expires = 0]]
    BY <1>6 DEF Lapse
  <2>3. losses' \in 0 .. MaxLosses
    BY <1>6, RetentionAssumption DEF Lapse, TypeOK
  <2> QED
    BY <1>6, <2>1, <2>2, <2>3 DEF Lapse, TypeOK
<1> QED
  BY <1>2, <1>3, <1>4, <1>5, <1>6

LEMMA BeatDiesType ==
  ASSUME TypeOK, BeatDies
  PROVE  TypeOK'
<1>1. losses' \in 0 .. MaxLosses
  BY RetentionAssumption DEF BeatDies, TypeOK
<1>2. UNION {beat.released, beat.recovered, beat.exhausted, beat.ready} \subseteq Snapshots
  BY DEF TypeOK
<1> QED
  BY <1>1, <1>2 DEF BeatDies, TypeOK

LEMMA TypePreserved == TypeOK /\ [Next]_vars => TypeOK'
<1> SUFFICES ASSUME TypeOK, [Next]_vars PROVE TypeOK'
  OBVIOUS
<1>1. ASSUME NEW s \in Snapshots, ExecStep(s) \/ AbandonExec(s) PROVE TypeOK'
  BY <1>1, ExecType
<1>2. ASSUME NEW s \in Snapshots, Lapse(s) PROVE TypeOK'
  BY <1>2, BeatType
<1>3. ASSUME NEW w \in Workers, WorkerStep(w) \/ RaiseError(w) \/ CancelTask(w) \/ Crash(w) PROVE TypeOK'
  BY <1>3, WorkerType
<1>4. CASE BeatStep
  BY <1>4, SweepType, BeatType DEF BeatStep
<1>5. CASE BeatDies
  BY <1>5, BeatDiesType
<1>6. CASE Tick
  BY <1>6, RetentionAssumption DEF Tick, hist, TypeOK
<1>7. CASE UNCHANGED vars
  BY <1>7 DEF vars, hist, TypeOK
<1> QED
  BY <1>1, <1>2, <1>3, <1>4, <1>5, <1>6, <1>7 DEF Next

-----------------------------------------------------------------------------
(* The invariant.                                                          *)

LEMMA InitInv == Init => IInv
<1> SUFFICES ASSUME Init PROVE IInv
  OBVIOUS
<1>1. NoRecord \in Records /\ NoRecord.state = "absent"
  BY DEF NoRecord, Records, SnapshotStates
<1>2. NoRow.status = "absent"
  BY DEF NoRow
<1>3. TypeOK
  BY <1>1, NewRowIsRow, IdleIsTask, RetentionAssumption DEF Init, TypeOK, ExecPoints
<1>4. \A w \in Workers : At(w, "idle")
  BY IdleIsTask DEF Init, At
<1> QED
  BY <1>1, <1>2, <1>3, <1>4
     DEF Init, IInv, HourIsSet, WorkersAreLate, CreatedFirst, DeletedIsTrue, Started

(* A step of the execution of s, while no worker can be at its deletion.   *)
LEMMA ExecutionFrame ==
  ASSUME IInv, TypeOK', NEW s \in Snapshots, exec[s] # "ended",
         UNCHANGED <<work, now>>,
         \A u \in Snapshots : u # s => /\ exec'[u] = exec[u] /\ snap'[u] = snap[u]
                                       /\ stored'[u] = stored[u] /\ job'[u] = job[u],
         job'[s].status \in {"absent", "scheduled"},
         job'[s].status = "scheduled" => exec'[s] = "ended" /\ snap'[s].after # Never,
         exec'[s] = "schedule" => snap'[s].after # Never,
         exec'[s] = "creating" => snap'[s].state # "deleted",
         snap'[s].state = "deleted" => stored'[s] = "gone"
  PROVE  IInv'
<1>1. job[s].status = "absent"
  BY DEF IInv, HourIsSet
<1>2. HourIsSet'
  BY DEF IInv, HourIsSet, Started, Due
<1>3. WorkersAreLate'
  <2> SUFFICES ASSUME NEW w \in Workers, ~At(w, "idle")'
               PROVE  /\ Started(work[w].of)'
                      /\ work'[w].row.status \notin {"absent", "scheduled"}
                      /\ work'[w].held.after = snap'[work'[w].of].after
                      /\ At(w, "done")' => stored'[work'[w].of] = "gone"
    BY DEF WorkersAreLate
  <2>1. ~At(w, "idle") /\ work[w].of \in Snapshots
    BY DEF At, IInv, TypeOK, Tasks
  <2>2. work[w].of # s
    BY <1>1, <2>1 DEF IInv, WorkersAreLate, Started
  <2> QED
    BY <2>1, <2>2 DEF IInv, WorkersAreLate, Started, At
<1>4. CreatedFirst' /\ DeletedIsTrue'
  BY DEF IInv, CreatedFirst, DeletedIsTrue
<1> QED
  BY <1>2, <1>3, <1>4 DEF IInv

(* A step of a worker at the deletion of s.                                *)
LEMMA WorkerFrame ==
  ASSUME IInv, TypeOK', NEW w \in Workers, NEW s \in Snapshots, Started(s),
         UNCHANGED <<exec, now>>,
         \A v \in Workers : v # w => work'[v] = work[v],
         \A u \in Snapshots : u # s => /\ snap'[u] = snap[u] /\ job'[u] = job[u]
                                       /\ stored'[u] = stored[u],
         job'[s].status \notin {"absent", "scheduled"},
         snap'[s].after = snap[s].after,
         stored'[s] \in {stored[s], "gone"},
         snap'[s].state = "deleted" => stored'[s] = "gone",
         work'[w].at # "idle" =>
           /\ work'[w].of = s
           /\ work'[w].row.status \notin {"absent", "scheduled"}
           /\ work'[w].held.after = snap[s].after
           /\ work'[w].at = "done" => stored'[s] = "gone"
  PROVE  IInv'
<1>1. exec[s] = "ended"
  BY DEF IInv, HourIsSet, Started
<1>2. HourIsSet'
  BY DEF IInv, HourIsSet, Started, Due
<1>3. WorkersAreLate'
  <2> SUFFICES ASSUME NEW v \in Workers, ~At(v, "idle")'
               PROVE  /\ Started(work[v].of)'
                      /\ work'[v].row.status \notin {"absent", "scheduled"}
                      /\ work'[v].held.after = snap'[work'[v].of].after
                      /\ At(v, "done")' => stored'[work'[v].of] = "gone"
    BY DEF WorkersAreLate
  <2>1. CASE v = w
    BY <2>1 DEF Started, At
  <2>2. CASE v # w
    <3>1. ~At(v, "idle") /\ work[v].of \in Snapshots
      BY <2>2 DEF At, IInv, TypeOK, Tasks
    <3> QED
      BY <2>2, <3>1 DEF IInv, WorkersAreLate, Started, At
  <2> QED
    BY <2>1, <2>2
<1>4. CreatedFirst' /\ DeletedIsTrue'
  BY <1>1 DEF IInv, CreatedFirst, DeletedIsTrue
<1> QED
  BY <1>2, <1>3, <1>4 DEF IInv

(* A step of a beat task or of the broker: it releases only what is due.   *)
LEMMA BeatFrame ==
  ASSUME IInv, TypeOK', UNCHANGED <<stored, exec, work, now>>,
         \A u \in Snapshots :
           /\ job'[u].status # job[u].status =>
                job'[u].status # "absent" /\ job[u].status # "absent"
           /\ job'[u].status = "scheduled" <=> job[u].status = "scheduled" /\ ~Started(u)'
           /\ Started(u)' => Started(u) \/ Due(u)
           /\ snap'[u].after = snap[u].after
           /\ snap'[u].state = "deleted" => snap[u].state = "deleted"
  PROVE  IInv'
<1>1. \A u \in Snapshots : Started(u) => Started(u)'
  BY DEF Started
<1>2. HourIsSet'
  BY DEF IInv, HourIsSet, Due
<1>3. WorkersAreLate'
  <2> SUFFICES ASSUME NEW w \in Workers, ~At(w, "idle")'
               PROVE  /\ Started(work[w].of)'
                      /\ work'[w].row.status \notin {"absent", "scheduled"}
                      /\ work'[w].held.after = snap'[work'[w].of].after
                      /\ At(w, "done")' => stored'[work'[w].of] = "gone"
    BY DEF WorkersAreLate
  <2>1. ~At(w, "idle") /\ work[w].of \in Snapshots
    BY DEF At, IInv, TypeOK, Tasks
  <2>2. Started(work[w].of)'
    BY <1>1, <2>1 DEF IInv, WorkersAreLate, Started
  <2> QED
    BY <2>1, <2>2 DEF IInv, WorkersAreLate, At
<1>4. CreatedFirst' /\ DeletedIsTrue'
  BY DEF IInv, CreatedFirst, DeletedIsTrue
<1> QED
  BY <1>2, <1>3, <1>4 DEF IInv

LEMMA ExecInv ==
  ASSUME IInv, NEW s \in Snapshots, ExecStep(s) \/ AbandonExec(s)
  PROVE  IInv'
<1>1. TypeOK'
  BY ExecType DEF IInv
<1>2. /\ DOMAIN exec = Snapshots /\ DOMAIN snap = Snapshots /\ DOMAIN stored = Snapshots
      /\ DOMAIN job = Snapshots /\ TypeOK
  BY DEF IInv, TypeOK
<1>3. exec[s] # "ended" /\ UNCHANGED <<work, now>>
  BY DEF ExecStep, BeginSnapshot, CreateSnapshot, PassHealth, FailHealth, RollBack,
         ScheduleDelete, AbandonExec, OutsideExec
<1>4. job[s].status = "absent"
  BY <1>3 DEF IInv, HourIsSet
<1>5. CASE BeginSnapshot(s)
  <2>1. /\ snap'[s].state = "creating" /\ exec'[s] = "creating"
        /\ \A u \in Snapshots : u # s => snap'[u] = snap[u] /\ exec'[u] = exec[u]
        /\ stored' = stored /\ job' = job
    BY <1>2, <1>5, SetStateRules DEF BeginSnapshot, Goto, OutsideExec, SnapshotStates
  <2> QED
    BY <1>1, <1>3, <1>4, <2>1, ExecutionFrame
<1>6. CASE CreateSnapshot(s)
  <2>1. /\ exec'[s] \in {"created", "ended"} /\ snap'[s].state # "deleted"
        /\ \A u \in Snapshots : u # s => /\ snap'[u] = snap[u] /\ exec'[u] = exec[u]
                                         /\ stored'[u] = stored[u]
        /\ job' = job
    BY <1>2, <1>6, SetStateRules
       DEF CreateSnapshot, Goto, OutsideExec, SnapshotStates, IInv, CreatedFirst
  <2> QED
    BY <1>1, <1>3, <1>4, <2>1, ExecutionFrame
<1>7. CASE PassHealth(s)
  <2>1. snap'[s] = [state |-> "delete_scheduled", after |-> now + Retention]
    BY <1>2, <1>7 DEF PassHealth
  <2>2. now + Retention # Never
    BY <1>2, RetentionAssumption DEF TypeOK
  <2>3. /\ exec'[s] = "schedule" /\ stored' = stored /\ job' = job
        /\ \A u \in Snapshots : u # s => snap'[u] = snap[u] /\ exec'[u] = exec[u]
    BY <1>2, <1>7 DEF PassHealth, Goto, OutsideExec
  <2> QED
    BY <1>1, <1>3, <1>4, <2>1, <2>2, <2>3, ExecutionFrame
<1>8. CASE FailHealth(s)
  <2>1. /\ snap'[s].state = "rollback_started" /\ exec'[s] = "rollback"
        /\ \A u \in Snapshots : u # s => snap'[u] = snap[u] /\ exec'[u] = exec[u]
        /\ stored' = stored /\ job' = job
    BY <1>2, <1>8, SetStateRules DEF FailHealth, Goto, OutsideExec, SnapshotStates
  <2> QED
    BY <1>1, <1>3, <1>4, <2>1, ExecutionFrame
<1>9. CASE RollBack(s)
  <2>1. PICK state \in {"rolled_back", "rollback_failed"} : SetState(s, state)
    BY <1>9 DEF RollBack
  <2>2. /\ snap'[s].state # "deleted"
        /\ \A u \in Snapshots : u # s => snap'[u] = snap[u]
    BY <1>2, <2>1, SetStateRules DEF SnapshotStates
  <2>3. /\ exec'[s] = "ended" /\ stored' = stored /\ job' = job
        /\ \A u \in Snapshots : u # s => exec'[u] = exec[u]
    BY <1>2, <1>9 DEF RollBack, Goto, OutsideExec
  <2> QED
    BY <1>1, <1>3, <1>4, <2>2, <2>3, ExecutionFrame
<1>10. CASE ScheduleDelete(s)
  <2>1. NewRow("scheduled") \in Row /\ NewRow("scheduled").status = "scheduled"
    BY NewRowsAreRows DEF Statuses
  <2>2. [NewRow("scheduled") EXCEPT !.phase = "waiting_for_retention"].status = "scheduled"
    BY <2>1 DEF Row
  <2>3. /\ job'[s].status = "scheduled" /\ exec'[s] = "ended"
        /\ snap' = snap /\ stored' = stored
        /\ \A u \in Snapshots : u # s => job'[u] = job[u] /\ exec'[u] = exec[u]
    BY <1>2, <1>10, <2>2 DEF ScheduleDelete, Goto
  <2>4. snap[s].after # Never
    BY <1>10 DEF ScheduleDelete, IInv, HourIsSet
  <2>5. snap[s].state = "deleted" => stored[s] = "gone"
    BY DEF IInv, DeletedIsTrue
  <2> QED
    BY <1>1, <1>3, <2>3, <2>4, <2>5, ExecutionFrame
<1>11. CASE AbandonExec(s)
  <2>1. /\ exec'[s] = "ended" /\ snap' = snap /\ stored' = stored /\ job' = job
        /\ \A u \in Snapshots : u # s => exec'[u] = exec[u]
    BY <1>2, <1>11 DEF AbandonExec, Goto
  <2>2. snap[s].state = "deleted" => stored[s] = "gone"
    BY DEF IInv, DeletedIsTrue
  <2> QED
    BY <1>1, <1>3, <1>4, <2>1, <2>2, ExecutionFrame
<1> QED
  BY <1>5, <1>6, <1>7, <1>8, <1>9, <1>10, <1>11 DEF ExecStep

(* A worker that lets go of its task leaves the row and the record alone.  *)
LEMMA LettingGoInv ==
  ASSUME IInv, TypeOK', NEW w \in Workers, ~At(w, "idle"), Finish(w),
         UNCHANGED <<snap, job, exec, now>>,
         \A u \in Snapshots : u # work[w].of => stored'[u] = stored[u],
         stored'[work[w].of] \in {stored[work[w].of], "gone"}
  PROVE  IInv'
<1> DEFINE s == work[w].of
<1>1. s \in Snapshots /\ DOMAIN work = Workers
  BY DEF IInv, TypeOK, Tasks
<1>2. work'[w].at = "idle" /\ \A v \in Workers : v # w => work'[v] = work[v]
  BY <1>1, IdleIsTask DEF Finish
<1>3. Started(s) /\ (snap[s].state = "deleted" => stored'[s] = "gone")
  BY <1>1 DEF IInv, WorkersAreLate, DeletedIsTrue
<1>4. job[s].status \notin {"absent", "scheduled"}
  BY <1>3 DEF Started
<1> HIDE DEF s
<1> QED
  BY <1>1, <1>2, <1>3, <1>4, WorkerFrame DEF s

LEMMA ClaimInv ==
  ASSUME IInv, NEW w \in Workers, NEW s \in Snapshots, ClaimDelete(w, s)
  PROVE  IInv'
<1>1. TypeOK'
  BY WorkerType DEF IInv, WorkerStep
<1>2. /\ job[s] \in Row /\ DOMAIN job = Snapshots /\ DOMAIN work = Workers
      /\ UNCHANGED <<snap, stored, exec, now>>
  BY DEF IInv, TypeOK, ClaimDelete
<1>3. CASE ~Claimable(job[s], 0)
  <2>1. UNCHANGED <<job, work>>
    BY <1>3 DEF ClaimDelete
  <2> QED
    BY <1>1, <1>2, <2>1, BeatFrame DEF Started
<1>4. CASE Claimable(job[s], 0)
  <2>1. Started(s)
    BY <1>4 DEF Claimable, Lapsed, Started
  <2>2. snap[s].state = "deleted" => stored[s] = "gone"
    BY DEF IInv, DeletedIsTrue
  <2>3. CASE ~HasAttemptLeft(job[s])
    <3>1. Exhausted(job[s]).status = "failed"
      BY <1>2 DEF Exhausted, Row
    <3>2. /\ job'[s].status = "failed" /\ work' = work
          /\ \A u \in Snapshots : u # s => job'[u] = job[u]
      BY <1>2, <1>4, <2>3, <3>1 DEF ClaimDelete
    <3> QED
      BY <1>1, <1>2, <2>1, <3>2, BeatFrame DEF Started
  <2>4. CASE HasAttemptLeft(job[s])
    <3>1. Claimed(job[s], w, 0).status = "running"
      BY <1>2 DEF Claimed, Row
    <3>2. /\ job'[s].status = "running"
          /\ \A u \in Snapshots : u # s => job'[u] = job[u]
          /\ work'[w] = [at |-> "claimed", of |-> s, row |-> Claimed(job[s], w, 0),
                         held |-> snap[s]]
          /\ \A v \in Workers : v # w => work'[v] = work[v]
      BY <1>2, <1>4, <2>4, <3>1 DEF ClaimDelete
    <3>3. /\ work'[w].of = s /\ work'[w].row.status = "running"
          /\ work'[w].held.after = snap[s].after /\ work'[w].at # "done"
      BY <3>1, <3>2
    <3> QED
      BY <1>1, <1>2, <2>1, <2>2, <3>2, <3>3, WorkerFrame
  <2> QED
    BY <2>3, <2>4
<1> QED
  BY <1>3, <1>4

LEMMA WorkerInv ==
  ASSUME IInv, NEW w \in Workers, ~At(w, "idle"),
         WorkerStep(w) \/ RaiseError(w) \/ CancelTask(w) \/ Crash(w)
  PROVE  IInv'
<1> DEFINE s == work[w].of
<1>1. TypeOK'
  BY WorkerType DEF IInv
<1>2. /\ s \in Snapshots /\ work[w].row \in Row /\ work[w].held \in Records
      /\ work[w] \in Tasks /\ job[s] \in Row
      /\ DOMAIN job = Snapshots /\ DOMAIN work = Workers
      /\ DOMAIN snap = Snapshots /\ DOMAIN stored = Snapshots
  BY DEF IInv, TypeOK, Tasks
<1>3. /\ Started(s) /\ job[s].status \notin {"absent", "scheduled"}
      /\ work[w].row.status \notin {"absent", "scheduled"}
      /\ work[w].held.after = snap[s].after
      /\ At(w, "done") => stored[s] = "gone"
      /\ snap[s].state = "deleted" => stored[s] = "gone"
  BY <1>2 DEF IInv, WorkersAreLate, DeletedIsTrue, Started
<1>4. ASSUME NEW u \in Snapshots, ClaimDelete(w, u) PROVE FALSE
  BY <1>4 DEF ClaimDelete
<1>5. CASE StartDelete(w)
  <2> DEFINE copy == [work[w].row EXCEPT !.phase = "snapshot_delete"]
  <2>1. copy.status = work[w].row.status
    BY <1>2 DEF Row
  <2>2. SavedOver(job[s], copy).status = copy.status
    BY <1>2 DEF SavedOver, Row
  <2>3. CASE Owns(w)
    <3>1. /\ work'[w] = [work[w] EXCEPT !.at = "deleting", !.row = copy]
          /\ \A v \in Workers : v # w => work'[v] = work[v]
          /\ job'[s] = SavedOver(job[s], copy)
          /\ \A u \in Snapshots : u # s => job'[u] = job[u]
          /\ UNCHANGED <<snap, stored, exec, now>>
      BY <1>2, <1>5, <2>3 DEF StartDelete, OutsideWork
    <3> HIDE DEF copy
    <3>2. /\ work'[w].of = s /\ work'[w].row = copy
          /\ work'[w].held = work[w].held /\ work'[w].at = "deleting"
      BY <1>2, <3>1 DEF Tasks
    <3>3. /\ job'[s].status \notin {"absent", "scheduled"}
          /\ work'[w].of = s
          /\ work'[w].row.status \notin {"absent", "scheduled"}
          /\ work'[w].held.after = snap[s].after
          /\ work'[w].at # "done"
      BY <1>3, <2>1, <2>2, <3>1, <3>2
    <3>4. /\ UNCHANGED <<exec, now>> /\ snap' = snap /\ stored' = stored
          /\ \A v \in Workers : v # w => work'[v] = work[v]
          /\ \A u \in Snapshots : u # s => job'[u] = job[u]
      BY <3>1
    <3> HIDE DEF s
    <3> QED
      BY <1>1, <1>2, <1>3, <3>3, <3>4, WorkerFrame
  <2>4. CASE ~Owns(w)
    BY <1>1, <1>5, <2>4, LettingGoInv DEF StartDelete, LeaseLost, OutsideWork
  <2> QED
    BY <2>3, <2>4
<1>6. CASE DeleteSnapshot(w)
  <2>1. PICK p \in {"done", "refused", "raised"} :
          /\ Move(w, p)
          /\ stored' = [stored EXCEPT ![s] = "gone"] \/ (p # "done" /\ stored' = stored)
    BY <1>6 DEF DeleteSnapshot
  <2>2. /\ work'[w].at = p /\ work'[w].of = s
        /\ work'[w].row = work[w].row /\ work'[w].held = work[w].held
        /\ \A v \in Workers : v # w => work'[v] = work[v]
    BY <1>2, <2>1 DEF Move, Tasks
  <2>3. /\ stored'[s] \in {stored[s], "gone"} /\ (p = "done" => stored'[s] = "gone")
        /\ \A u \in Snapshots : u # s => stored'[u] = stored[u]
    BY <1>2, <2>1
  <2>4. UNCHANGED <<snap, job, exec, now>>
    BY <1>6 DEF DeleteSnapshot, OutsideWork
  <2> QED
    BY <1>1, <1>2, <1>3, <2>2, <2>3, <2>4, WorkerFrame
<1>7. CASE RecordDelete(w)
  <2> DEFINE state == IF At(w, "done") THEN "deleted" ELSE "delete_failed"
             next == IF At(w, "done") THEN "completing" ELSE "raised"
  <2>1. /\ snap'[s] = [work[w].held EXCEPT !.state = state]
        /\ \A u \in Snapshots : u # s => snap'[u] = snap[u]
        /\ UNCHANGED <<stored, job, exec, now>> /\ Move(w, next)
    BY <1>2, <1>7 DEF RecordDelete, OutsideWork
  <2>2. snap'[s].after = snap[s].after /\ snap'[s].state = state
    BY <1>2, <1>3, <2>1, RecordsKeepTheirType DEF SnapshotStates
  <2>3. /\ work'[w].at = next /\ work'[w].of = s
        /\ work'[w].row = work[w].row /\ work'[w].held = work[w].held
        /\ \A v \in Workers : v # w => work'[v] = work[v]
    BY <1>2, <2>1 DEF Move, Tasks
  <2>4. next # "done" /\ (state = "deleted" => stored[s] = "gone")
    BY <1>3
  <2>5. \A v \in Workers : v # w => work'[v] = work[v]
    BY <2>3
  <2>6. /\ work'[w].of = s
        /\ work'[w].row.status \notin {"absent", "scheduled"}
        /\ work'[w].held.after = snap[s].after
        /\ work'[w].at # "done"
    BY <1>3, <2>3, <2>4
  <2>7. /\ job'[s].status \notin {"absent", "scheduled"}
        /\ snap'[s].state = "deleted" => stored'[s] = "gone"
    BY <1>3, <2>1, <2>2, <2>4
  <2>8. /\ \A u \in Snapshots : u # s => snap'[u] = snap[u]
        /\ UNCHANGED <<stored, job, exec, now>>
    BY <2>1
  <2> HIDE DEF s, state, next
  <2> QED
    BY <1>1, <1>2, <1>3, <2>2, <2>5, <2>6, <2>7, <2>8, WorkerFrame
<1>8. CASE CompleteDelete(w)
  <2>1. CASE Owns(w)
    <3>1. CompletedCopy(work[w].row).status = "completed"
      BY <1>2 DEF CompletedCopy, Row
    <3> DEFINE copy == CompletedCopy(work[w].row)
    <3> HIDE DEF copy
    <3>2. /\ job'[s] = copy
          /\ \A u \in Snapshots : u # s => job'[u] = job[u]
          /\ UNCHANGED <<snap, stored, exec, now>>
          /\ work'[w] = [work[w] EXCEPT !.at = "auditing", !.row = copy]
          /\ \A v \in Workers : v # w => work'[v] = work[v]
      BY <1>2, <1>8, <2>1 DEF CompleteDelete, OutsideWork, copy
    <3>3. /\ work'[w].of = s /\ work'[w].row = copy
          /\ work'[w].held = work[w].held /\ work'[w].at = "auditing"
      BY <1>2, <3>2 DEF Tasks
    <3>4. /\ job'[s].status \notin {"absent", "scheduled"}
          /\ work'[w].of = s
          /\ work'[w].row.status \notin {"absent", "scheduled"}
          /\ work'[w].held.after = snap[s].after
          /\ work'[w].at # "done"
      BY <1>3, <3>1, <3>2, <3>3 DEF copy
    <3>5. /\ UNCHANGED <<exec, now>> /\ snap' = snap /\ stored' = stored
          /\ \A v \in Workers : v # w => work'[v] = work[v]
          /\ \A u \in Snapshots : u # s => job'[u] = job[u]
      BY <3>2
    <3> HIDE DEF s
    <3> QED
      BY <1>1, <1>2, <1>3, <3>4, <3>5, WorkerFrame
  <2>2. CASE ~Owns(w)
    BY <1>1, <1>8, <2>2, LettingGoInv DEF CompleteDelete, LeaseLost, OutsideWork
  <2> QED
    BY <2>1, <2>2
<1>9. CASE FailDelete(w)
  <2>1. FailedCopy(work[w].row, FALSE).status = "failed"
    BY <1>2 DEF FailedCopy, Row
  <2>2. /\ job'[s].status \in {"failed", job[s].status}
        /\ \A u \in Snapshots : u # s => job'[u] = job[u]
        /\ UNCHANGED <<snap, stored, exec, now>>
    BY <1>2, <1>9, <2>1 DEF FailDelete, OutsideWork
  <2>3. work'[w] = [work[w] EXCEPT !.at = "failed", !.row = job'[s]]
        /\ \A v \in Workers : v # w => work'[v] = work[v]
    BY <1>2, <1>9 DEF FailDelete
  <2>4. /\ work'[w].at = "failed" /\ work'[w].of = s
        /\ work'[w].row = job'[s] /\ work'[w].held = work[w].held
    BY <1>2, <2>3 DEF Tasks
  <2>5. /\ job'[s].status \notin {"absent", "scheduled"}
        /\ work'[w].of = s
        /\ work'[w].row.status \notin {"absent", "scheduled"}
        /\ work'[w].held.after = snap[s].after
        /\ work'[w].at # "done"
    BY <1>3, <2>2, <2>4
  <2>6. \A v \in Workers : v # w => work'[v] = work[v]
    BY <2>3
  <2> HIDE DEF s
  <2> QED
    BY <1>1, <1>2, <1>3, <2>2, <2>5, <2>6, WorkerFrame
<1>10. CASE RecordFailure(w)
  <2>1. /\ snap'[s] = [work[w].held EXCEPT !.state = "delete_failed"]
        /\ \A u \in Snapshots : u # s => snap'[u] = snap[u]
        /\ UNCHANGED <<stored, job, exec, now>>
        /\ work'[w].at = "idle" /\ \A v \in Workers : v # w => work'[v] = work[v]
    BY <1>2, <1>10, IdleIsTask DEF RecordFailure, Finish, OutsideWork
  <2>2. snap'[s].after = snap[s].after /\ snap'[s].state = "delete_failed"
    BY <1>2, <1>3, <2>1, RecordsKeepTheirType DEF SnapshotStates
  <2> QED
    BY <1>1, <1>2, <1>3, <2>1, <2>2, WorkerFrame
<1>11. CASE CancelTask(w) \/ Crash(w)
  <2>1. Finish(w) /\ Interrupted(w) /\ UNCHANGED <<snap, job, exec, now>>
    BY <1>11 DEF CancelTask, LeaseLost, Crash, OutsideWork
  <2>2. /\ stored'[s] \in {stored[s], "gone"}
        /\ \A u \in Snapshots : u # s => stored'[u] = stored[u]
    BY <1>2, <2>1 DEF Interrupted
  <2> QED
    BY <1>1, <2>1, <2>2, LettingGoInv
<1>12. CASE AuditDelete(w)
  BY <1>1, <1>12, LettingGoInv DEF AuditDelete, OutsideWork
<1>13. CASE RaiseError(w)
  <2>1. UNCHANGED <<snap, stored, job, exec, now>> /\ Move(w, "raised")
    BY <1>13 DEF RaiseError
  <2>2. /\ work'[w].at = "raised" /\ work'[w].of = s
        /\ work'[w].row = work[w].row /\ work'[w].held = work[w].held
        /\ \A v \in Workers : v # w => work'[v] = work[v]
    BY <1>2, <2>1 DEF Move, Tasks
  <2> HIDE DEF s
  <2> QED
    BY <1>1, <1>2, <1>3, <2>1, <2>2, WorkerFrame
<1> QED
  BY <1>4, <1>5, <1>6, <1>7, <1>8, <1>9, <1>10, <1>11, <1>12, <1>13 DEF WorkerStep

LEMMA BeatInv ==
  ASSUME IInv, NEW s \in Snapshots,
         \/ ReleaseDelete(s) \/ SendReleased(s) \/ RecordSweep(s) \/ SendRecovered(s)
         \/ Lapse(s)
  PROVE  IInv'
<1>1. TypeOK'
  BY BeatType DEF IInv
<1>2. /\ job[s] \in Row /\ DOMAIN job = Snapshots /\ DOMAIN snap = Snapshots /\ TypeOK
      /\ UNCHANGED <<stored, exec, work, now>>
  BY DEF IInv, TypeOK, ReleaseDelete, SendReleased, RecordSweep, SendRecovered, Lapse, hist
<1>3. CASE ReleaseDelete(s)
  <2>1. /\ job[s].status = "scheduled" /\ Due(s) /\ snap' = snap
        /\ job'[s] = [job[s] EXCEPT !.status = "queued", !.phase = "none"]
        /\ \A u \in Snapshots : u # s => job'[u] = job[u]
    BY <1>2, <1>3 DEF ReleaseDelete
  <2>2. job'[s].status = "queued"
    BY <1>2, <2>1 DEF Row
  <2> QED
    BY <1>1, <1>2, <2>1, <2>2, BeatFrame DEF Started
<1>4. CASE SendReleased(s) \/ SendRecovered(s)
  <2>1. snap' = snap /\ job' = job
    BY <1>4 DEF SendReleased, SendRecovered
  <2> QED
    BY <1>1, <1>2, <2>1, BeatFrame DEF Started
<1>5. CASE RecordSweep(s)
  <2>1. /\ SetState(s, "delete_failed") \/ SetState(s, "delete_scheduled") \/ UNCHANGED snap
        /\ job' = job
    BY <1>5 DEF RecordSweep
  <2>2. \A u \in Snapshots : /\ snap'[u].after = snap[u].after
                             /\ snap'[u].state = "deleted" => snap[u].state = "deleted"
    BY <1>2, <2>1, SetStateRules DEF SnapshotStates
  <2> QED
    BY <1>1, <1>2, <2>1, <2>2, BeatFrame DEF Started
<1>6. CASE Lapse(s)
  <2>1. /\ snap' = snap /\ job'[s] = [job[s] EXCEPT !.expires = 0]
        /\ \A u \in Snapshots : u # s => job'[u] = job[u]
    BY <1>2, <1>6 DEF Lapse
  <2>2. job'[s].status = job[s].status
    BY <1>2, <2>1 DEF Row
  <2> QED
    BY <1>1, <1>2, <2>1, <2>2, BeatFrame DEF Started
<1> QED
  BY <1>3, <1>4, <1>5, <1>6

LEMMA SweepInv == ASSUME IInv, Sweep PROVE IInv'
<1>1. TypeOK'
  BY SweepType DEF IInv
<1>2. \A s \in Snapshots : job[s] \in Row
  BY DEF IInv, TypeOK
<1>3. \A s \in Snapshots :
        job'[s] = IF Lapsed(job[s], 0) THEN Recovered(job[s]) ELSE job[s]
  BY DEF Sweep
<1>4. \A s \in Snapshots : Recovered(job[s]).status \in {"queued", "failed"}
  BY <1>2 DEF Recovered, Exhausted, Row
<1>5. \A s \in Snapshots :
        job'[s].status # job[s].status =>
          job[s].status = "running" /\ job'[s].status \in {"queued", "failed"}
  BY <1>3, <1>4 DEF Lapsed
<1>6. UNCHANGED <<snap, stored, exec, work, now>>
  BY DEF Sweep
<1> QED
  BY <1>1, <1>5, <1>6, BeatFrame DEF Started

LEMMA TickInv == ASSUME IInv, Tick PROVE IInv'
<1>1. TypeOK'
  BY TypePreserved DEF IInv, Next
<1>2. /\ now \in Nat /\ now' = now + 1
      /\ UNCHANGED <<snap, stored, exec, job, work>>
  BY DEF Tick, IInv, TypeOK
<1>3. \A s \in Snapshots : snap[s].after \in Nat \cup {Never}
  BY DEF IInv, TypeOK, Records
<1>4. \A s \in Snapshots : Due(s) => Due(s)'
  BY <1>2, <1>3 DEF Due
<1>5. HourIsSet'
  BY <1>2, <1>4 DEF IInv, HourIsSet, Started
<1> QED
  BY <1>1, <1>2, <1>5
     DEF IInv, WorkersAreLate, CreatedFirst, DeletedIsTrue, Started, At

LEMMA NextInv == IInv /\ [Next]_vars => IInv'
<1> SUFFICES ASSUME IInv, [Next]_vars PROVE IInv'
  OBVIOUS
<1>1. ASSUME NEW s \in Snapshots, ExecStep(s) \/ AbandonExec(s) PROVE IInv'
  BY <1>1, ExecInv
<1>2. ASSUME NEW s \in Snapshots, Lapse(s) PROVE IInv'
  BY <1>2, BeatInv
<1>3. ASSUME NEW w \in Workers, WorkerStep(w) \/ RaiseError(w) \/ CancelTask(w) \/ Crash(w) PROVE IInv'
  <2>1. CASE At(w, "idle")
    <3>1. \E s \in Snapshots : ClaimDelete(w, s)
      BY <1>3, <2>1 DEF WorkerStep, StartDelete, DeleteSnapshot, RecordDelete,
         CompleteDelete, AuditDelete, FailDelete, RecordFailure, RaiseError, CancelTask,
         Crash, At
    <3> QED
      BY <3>1, ClaimInv
  <2>2. CASE ~At(w, "idle")
    BY <1>3, <2>2, WorkerInv
  <2> QED
    BY <2>1, <2>2
<1>4. CASE BeatStep
  BY <1>4, SweepInv, BeatInv DEF BeatStep
<1>5. CASE BeatDies
  <2>1. UNCHANGED <<snap, stored, exec, job, work, now>> /\ TypeOK'
    BY <1>5, BeatDiesType DEF BeatDies, IInv
  <2> QED
    BY <2>1, BeatFrame DEF Started
<1>6. CASE Tick
  BY <1>6, TickInv
<1>7. CASE UNCHANGED vars
  <2>1. UNCHANGED <<snap, stored, exec, job, work, now>> /\ TypeOK'
    BY <1>7, TypePreserved DEF vars, IInv
  <2> QED
    BY <2>1, BeatFrame DEF Started
<1> QED
  BY <1>1, <1>2, <1>3, <1>4, <1>5, <1>6, <1>7 DEF Next

(* The invariant of retention, whatever dies, stalls or comes twice.       *)
THEOREM InductiveInvariant == Spec => []IInv
<1> QED
  BY InitInv, NextInv, PTL DEF Spec

(* Records, rows, workers and beat tasks keep their types.                 *)
THEOREM TypeCorrect == Spec => []TypeOK
<1> QED
  BY InductiveInvariant, PTL DEF IInv

(* No record says "deleted" of a snapshot that the platform still holds.   *)
THEOREM RecordsAreTrue == Spec => []DeletedIsTrue
<1> QED
  BY InductiveInvariant, PTL DEF IInv

(* Only a worker at the deletion of a snapshot, or one that dies or is     *)
(* canceled there, has the platform delete it.                             *)
LEMMA StepKeepsRetention ==
  ASSUME IInv, [Next]_vars, NEW s \in Snapshots, stored[s] # "gone", stored'[s] = "gone"
  PROVE  snap[s].after # Never /\ snap[s].after <= now
<1>1. DOMAIN stored = Snapshots
  BY DEF IInv, TypeOK
<1>2. ASSUME NEW w \in Workers, work[w].of = s, ~At(w, "idle")
      PROVE  snap[s].after # Never /\ snap[s].after <= now
  <2>1. Started(s)
    BY <1>2 DEF IInv, WorkersAreLate
  <2> QED
    BY <2>1 DEF IInv, HourIsSet, Due
<1>3. ASSUME NEW u \in Snapshots, ExecStep(u) \/ AbandonExec(u) PROVE FALSE
  BY <1>1, <1>3 DEF ExecStep, BeginSnapshot, CreateSnapshot, PassHealth, FailHealth,
     RollBack, ScheduleDelete, AbandonExec
<1>4. ASSUME NEW u \in Snapshots, Lapse(u) PROVE FALSE
  BY <1>4 DEF Lapse
<1>5. ASSUME NEW w \in Workers, WorkerStep(w) \/ RaiseError(w) \/ CancelTask(w) \/ Crash(w)
      PROVE  work[w].of = s /\ ~At(w, "idle")
  BY <1>1, <1>5 DEF WorkerStep, ClaimDelete, StartDelete, DeleteSnapshot, RecordDelete,
     CompleteDelete, AuditDelete, FailDelete, RecordFailure, RaiseError, CancelTask, Crash,
     Interrupted, At
<1>6. ~(BeatStep \/ BeatDies \/ Tick \/ UNCHANGED vars)
  BY DEF BeatStep, Sweep, ReleaseDelete, SendReleased, RecordSweep, SendRecovered,
     BeatDies, Tick, vars
<1> QED
  BY <1>2, <1>3, <1>4, <1>5, <1>6 DEF Next

(* Whatever was retried, recovered or delivered twice, a snapshot is       *)
(* deleted only when its retention has gone by.                            *)
THEOREM RetentionHolds == Spec => RetentionIsKept
<1>1. IInv /\ [Next]_vars =>
        [\A s \in Snapshots :
           stored[s] # "gone" /\ stored'[s] = "gone" =>
             snap[s].after # Never /\ snap[s].after <= now]_vars
  BY StepKeepsRetention
<1> QED
  BY <1>1, InductiveInvariant, PTL DEF Spec, RetentionIsKept

-----------------------------------------------------------------------------
(* The deletion that met no loss: the sweep never sees its job, one worker *)
(* has it from the claim to the last save, and the record follows the job. *)

HandOf(w, s) == ~At(w, "idle") /\ work[w].of = s
Swept(s) == s \in beat.recovered \cup beat.exhausted \cup beat.ready

(* The record of s has to say that its deletion failed.                    *)
IsOwed(s) ==
  job[s].status = "failed" \/ (job[s].status = "completed" /\ s \in soured)

(* A worker that has the job holds its lease, or has just ended it.        *)
Rightly(w, s) ==
  \/ /\ work[w].at \notin {"auditing", "failed"} /\ HoldsLease(job[s], w, 0)
     /\ work[w].row.status = "running" /\ work[w].row.owner = w
     /\ At(w, "completing") => snap[s].state = "deleted"
  \/ /\ job[s].status = "completed" /\ snap[s].state = "deleted"
     /\ \/ At(w, "auditing") /\ s \notin soured
        \/ At(w, "raised") /\ s \in soured
  \/ At(w, "failed") /\ IsOwed(s)

Orderly(s) ==
  /\ ~Swept(s)
  /\ job[s].status \in {"absent", "scheduled", "queued"} => job[s].attempts = 0
  /\ job[s].status = "running" => ~LeaseIsExpired(job[s].expires, 0)
  /\ \A w \in Workers : HandOf(w, s) => Rightly(w, s)
  /\ \A v, w \in Workers : HandOf(v, s) /\ HandOf(w, s) => v = w
  /\ s \in soured => job[s].status = "completed"
  /\ job[s].status = "completed" /\ s \notin soured => snap[s].state = "deleted"
  /\ IsOwed(s) => snap[s].state = "delete_failed" \/ ~Deserted(s)

AllOrderly == \A s \in Snapshots \ disturbed : Orderly(s)

LEMMA DesertedHas ==
  ASSUME NEW s \in Snapshots
  PROVE  Deserted(s) <=> \A w \in Workers : ~HandOf(w, s)
BY DEF Deserted, HandOf

(* Nothing of s moves.                                                     *)
SameFor(s) ==
  /\ job'[s] = job[s] /\ snap'[s] = snap[s] /\ (s \in soured' <=> s \in soured)
  /\ Swept(s)' => Swept(s)
  /\ \A w \in Workers : /\ HandOf(w, s)' <=> HandOf(w, s)
                        /\ HandOf(w, s) => work'[w] = work[w]

LEMMA SameStaysOrderly ==
  ASSUME NEW s \in Snapshots, Orderly(s), SameFor(s)
  PROVE  Orderly(s)'
<1>1. \A w \in Workers : HandOf(w, s)' => Rightly(w, s)'
  BY DEF SameFor, Orderly, Rightly, At, IsOwed
<1>2. ~Deserted(s) => ~Deserted(s)'
  BY DEF SameFor, Deserted, HandOf
<1>3. \A v, w \in Workers : HandOf(v, s)' /\ HandOf(w, s)' => v = w
  BY DEF SameFor, Orderly
<1> QED
  BY <1>1, <1>2, <1>3 DEF SameFor, Orderly, IsOwed

(* The job of s is nobody's, and stays so.                                 *)
LEMMA NobodysJob ==
  ASSUME NEW s \in Snapshots, Orderly(s), job[s].status \in {"absent", "scheduled", "queued"},
         work' = work, Swept(s)' => Swept(s), s \in soured' => s \in soured,
         job'[s].status \in {"absent", "scheduled", "queued"}, job'[s].attempts = 0
  PROVE  Orderly(s)'
<1>1. \A w \in Workers : ~HandOf(w, s)
  BY DEF Orderly, Rightly, HoldsLease, IsOwed
<1>2. \A w \in Workers : ~HandOf(w, s)'
  BY <1>1 DEF HandOf, At
<1>3. s \notin soured'
  BY DEF Orderly
<1> QED
  BY <1>2, <1>3 DEF Orderly, IsOwed

LEMMA ExecOrderly ==
  ASSUME IInv, NEW s \in Snapshots, Orderly(s),
         NEW u \in Snapshots, ExecStep(u) \/ AbandonExec(u)
  PROVE  Orderly(s)'
<1>0. /\ DOMAIN job = Snapshots /\ DOMAIN snap = Snapshots
      /\ UNCHANGED <<work, beat, soured>>
  BY DEF IInv, TypeOK, ExecStep, BeginSnapshot, CreateSnapshot, PassHealth, FailHealth,
     RollBack, ScheduleDelete, AbandonExec, OutsideExec, hist
<1>1. Swept(s)' = Swept(s) /\ \A w \in Workers : HandOf(w, s)' = HandOf(w, s)
  BY <1>0 DEF Swept, HandOf, At
<1>2. CASE u # s
  <2>1. job'[s] = job[s] /\ snap'[s] = snap[s]
    BY <1>0, <1>2 DEF ExecStep, BeginSnapshot, CreateSnapshot, PassHealth, FailHealth,
       RollBack, ScheduleDelete, AbandonExec, OutsideExec, SetState
  <2> QED
    BY <1>0, <1>1, <2>1, SameStaysOrderly DEF SameFor
<1>3. CASE u = s
  <2>1. exec[s] # "ended"
    BY <1>3 DEF ExecStep, BeginSnapshot, CreateSnapshot, PassHealth, FailHealth,
       RollBack, ScheduleDelete, AbandonExec
  <2>2. job[s].status = "absent"
    BY <2>1 DEF IInv, HourIsSet
  <2>3. CASE ScheduleDelete(s)
    <3>1. job'[s] = [NewRow("scheduled") EXCEPT !.phase = "waiting_for_retention"]
      BY <1>0, <2>3 DEF ScheduleDelete
    <3>2. job'[s].status = "scheduled" /\ job'[s].attempts = 0
      BY <3>1 DEF NewRow, NoRow
    <3> QED
      BY <1>0, <1>1, <2>2, <3>2, NobodysJob
  <2>4. CASE ~ScheduleDelete(s)
    <3>1. job' = job
      BY <1>3, <2>4 DEF ExecStep, BeginSnapshot, CreateSnapshot, PassHealth, FailHealth,
         RollBack, AbandonExec, OutsideExec
    <3>2. job'[s].status = "absent" /\ job'[s].attempts = 0
      BY <2>2, <3>1 DEF Orderly
    <3> QED
      BY <1>0, <1>1, <2>2, <3>2, NobodysJob
  <2> QED
    BY <2>3, <2>4
<1> QED
  BY <1>2, <1>3

LEMMA ClaimOrderly ==
  ASSUME IInv, NEW s \in Snapshots, Orderly(s),
         NEW w \in Workers, NEW u \in Snapshots, ClaimDelete(w, u)
  PROVE  Orderly(s)'
<1>0. /\ DOMAIN job = Snapshots /\ DOMAIN work = Workers /\ job[s] \in Row
      /\ UNCHANGED <<snap, beat, soured>> /\ At(w, "idle")
  BY DEF IInv, TypeOK, ClaimDelete
<1>1. Swept(s)' = Swept(s)
  BY <1>0 DEF Swept
<1>2. CASE UNCHANGED <<job, work>>
  BY <1>0, <1>1, <1>2, SameStaysOrderly DEF SameFor, HandOf, At
<1>3. CASE u # s
  <2>1. job'[s] = job[s] /\ \A v \in Workers : v # w => work'[v] = work[v]
    BY <1>0, <1>3 DEF ClaimDelete
  <2>2. work'[w] = work[w] \/ work'[w].of = u
    BY <1>0 DEF ClaimDelete
  <2>3. \A v \in Workers : /\ HandOf(v, s)' <=> HandOf(v, s)
                           /\ HandOf(v, s) => work'[v] = work[v]
    BY <1>0, <1>3, <2>1, <2>2 DEF HandOf, At
  <2> QED
    BY <1>0, <1>1, <2>1, <2>3, SameStaysOrderly DEF SameFor
<1>4. CASE u = s /\ Claimable(job[s], 0)
  <2>1. job[s].status = "queued" /\ job[s].attempts = 0
    BY <1>4 DEF Orderly, Claimable, Lapsed
  <2>2. HasAttemptLeft(job[s])
    BY <2>1, AttemptsAssumption DEF HasAttemptLeft
  <2>3. \A v \in Workers : ~HandOf(v, s)
    BY <2>1 DEF Orderly, Rightly, HoldsLease, IsOwed
  <2>4. /\ job'[s] = Claimed(job[s], w, 0)
        /\ \A v \in Workers : v # w => work'[v] = work[v]
        /\ work'[w] = [at |-> "claimed", of |-> s, row |-> Claimed(job[s], w, 0),
                       held |-> snap[s]]
    BY <1>0, <1>4, <2>2 DEF ClaimDelete
  <2>5. /\ Claimed(job[s], w, 0).status = "running" /\ Claimed(job[s], w, 0).owner = w
        /\ Claimed(job[s], w, 0).expires = 0 + LeaseTicks
    BY <1>0 DEF Claimed, Row
  <2>6. ~LeaseIsExpired(job'[s].expires, 0)
    BY <2>4, <2>5, LeaseAssumption DEF LeaseIsExpired
  <2>7. Rightly(w, s)'
    BY <2>4, <2>5, <2>6 DEF Rightly, At, HoldsLease
  <2>8. \A v \in Workers : HandOf(v, s)' => v = w
    BY <2>3, <2>4 DEF HandOf, At
  <2>9. s \notin soured'
    BY <1>0, <2>1 DEF Orderly
  <2> QED
    BY <1>1, <2>4, <2>5, <2>6, <2>7, <2>8, <2>9 DEF Orderly, IsOwed
<1>5. CASE ~Claimable(job[u], 0)
  BY <1>2, <1>5 DEF ClaimDelete
<1> QED
  BY <1>3, <1>4, <1>5

(* What a step of a worker at a deletion leaves alone.                     *)
LEMMA WorkerLeaves ==
  ASSUME IInv, NEW w \in Workers, ~At(w, "idle"),
         WorkerStep(w) \/ RaiseError(w) \/ CancelTask(w) \/ Crash(w)
  PROVE  /\ beat' = beat
         /\ \A v \in Workers : v # w => work'[v] = work[v]
         /\ work'[w] = Idle \/ work'[w].of = work[w].of
         /\ \A u \in Snapshots : u # work[w].of =>
              job'[u] = job[u] /\ snap'[u] = snap[u] /\ (u \in soured' <=> u \in soured)
<1>0. /\ DOMAIN job = Snapshots /\ DOMAIN work = Workers /\ DOMAIN snap = Snapshots
      /\ work[w] \in Tasks
  BY DEF IInv, TypeOK
<1>1. ASSUME NEW u \in Snapshots, ClaimDelete(w, u) PROVE FALSE
  BY <1>1 DEF ClaimDelete
<1>2. ASSUME NEW point, Move(w, point)
      PROVE  /\ \A v \in Workers : v # w => work'[v] = work[v]
             /\ work'[w].of = work[w].of
  BY <1>0, <1>2 DEF Move, Tasks
<1>3. ASSUME Finish(w)
      PROVE  /\ \A v \in Workers : v # w => work'[v] = work[v]
             /\ work'[w] = Idle
  BY <1>0, <1>3 DEF Finish
<1>4. CASE StartDelete(w)
  BY <1>0, <1>3, <1>4 DEF StartDelete, LeaseLost, OutsideWork, hist, Tasks
<1>5. CASE DeleteSnapshot(w)
  BY <1>2, <1>5 DEF DeleteSnapshot, OutsideWork, hist
<1>6. CASE RecordDelete(w)
  <2>1. PICK point \in Points : Move(w, point)
    BY <1>6 DEF RecordDelete, Points
  <2> QED
    BY <1>2, <1>6, <2>1 DEF RecordDelete, OutsideWork, hist
<1>7. CASE CompleteDelete(w)
  BY <1>0, <1>3, <1>7 DEF CompleteDelete, LeaseLost, OutsideWork, hist, Tasks
<1>8. CASE FailDelete(w)
  <2>1. work'[w].of = work[w].of /\ \A v \in Workers : v # w => work'[v] = work[v]
    BY <1>0, <1>8 DEF FailDelete, Tasks
  <2> QED
    BY <1>0, <1>8, <2>1 DEF FailDelete, OutsideWork, hist
<1>9. CASE RecordFailure(w)
  BY <1>3, <1>9 DEF RecordFailure, OutsideWork, hist
<1>10. CASE CancelTask(w) \/ Crash(w)
  BY <1>3, <1>10 DEF CancelTask, Crash, LeaseLost, OutsideWork, hist
<1>11. CASE AuditDelete(w)
  BY <1>3, <1>11 DEF AuditDelete, OutsideWork, hist
<1>12. CASE RaiseError(w)
  BY <1>2, <1>12 DEF RaiseError
<1> QED
  BY <1>1, <1>4, <1>5, <1>6, <1>7, <1>8, <1>9, <1>10, <1>11, <1>12 DEF WorkerStep

(* A worker at the deletion of another snapshot leaves s alone.            *)
LEMMA OtherWorkOrderly ==
  ASSUME IInv, NEW s \in Snapshots, Orderly(s), NEW w \in Workers, work[w].of # s,
         ~At(w, "idle"), WorkerStep(w) \/ RaiseError(w) \/ CancelTask(w) \/ Crash(w)
  PROVE  Orderly(s)'
<1>1. ~HandOf(w, s)' /\ ~HandOf(w, s)
  BY WorkerLeaves, IdleIsTask DEF HandOf, At
<1>2. /\ job'[s] = job[s] /\ snap'[s] = snap[s] /\ beat' = beat
      /\ s \in soured' <=> s \in soured
      /\ \A v \in Workers : v # w => work'[v] = work[v]
  BY WorkerLeaves
<1>3. SameFor(s)
  BY <1>1, <1>2 DEF SameFor, HandOf, At, Swept
<1> QED
  BY <1>3, SameStaysOrderly

(* The one worker that has the job goes on with it, or ends it.            *)
LEMMA HandStaysOrderly ==
  ASSUME NEW s \in Snapshots, Orderly(s), NEW w \in Workers, HandOf(w, s),
         beat' = beat,
         \A v \in Workers : v # w => work'[v] = work[v],
         HandOf(w, s)' => Rightly(w, s)',
         job'[s].status \in {"running", "completed", "failed"},
         job'[s].status = "running" => ~LeaseIsExpired(job'[s].expires, 0),
         s \in soured' => job'[s].status = "completed",
         job'[s].status = "completed" /\ s \notin soured' => snap'[s].state = "deleted",
         IsOwed(s)' => snap'[s].state = "delete_failed" \/ HandOf(w, s)'
  PROVE  Orderly(s)'
<1>1. \A v \in Workers : HandOf(v, s) => v = w
  BY DEF Orderly
<1>2. \A v \in Workers : HandOf(v, s)' => v = w
  BY <1>1 DEF HandOf, At
<1> QED
  BY <1>2 DEF Orderly, Swept, Deserted, HandOf

LEMMA OwnWorkOrderly ==
  ASSUME IInv, NEW s \in Snapshots, Orderly(s), NEW w \in Workers, HandOf(w, s),
         WorkerStep(w) \/ RaiseError(w) \/ CancelTask(w) \/ Crash(w), s \notin disturbed'
  PROVE  Orderly(s)'
<1>0. /\ DOMAIN job = Snapshots /\ DOMAIN work = Workers /\ DOMAIN snap = Snapshots
      /\ work[w] \in Tasks /\ work[w].row \in Row /\ work[w].held \in Records
      /\ job[s] \in Row /\ work[w].of = s /\ ~At(w, "idle")
  BY DEF IInv, TypeOK, HandOf, Tasks
<1>1. beat' = beat /\ \A v \in Workers : v # w => work'[v] = work[v]
  BY <1>0, WorkerLeaves
<1>2. ~HandOf(w, s)' \/ work'[w].at # "idle"
  BY DEF HandOf, At
<1>3. ASSUME work[w].at \notin {"auditing", "raised", "failed"} \/ job[s].status = "running"
      PROVE  /\ job[s].status = "running" /\ job[s].owner = w
             /\ ~LeaseIsExpired(job[s].expires, 0) /\ HoldsLease(job[s], w, 0) /\ Owns(w)
             /\ work[w].row.status = "running" /\ work[w].row.owner = w
             /\ At(w, "completing") => snap[s].state = "deleted"
             /\ work[w].at \notin {"auditing", "failed"} /\ s \notin soured
  BY <1>0, <1>3 DEF Orderly, Rightly, HoldsLease, Owns, At, IsOwed
<1>4. ASSUME NEW u \in Snapshots, ClaimDelete(w, u) PROVE FALSE
  BY <1>0, <1>4 DEF ClaimDelete
<1>5. CASE StartDelete(w)
  <2> DEFINE copy == [work[w].row EXCEPT !.phase = "snapshot_delete"]
             lease == LaterOf(work[w].row.expires, job[s].expires)
  <2>1. work[w].at = "claimed" /\ soured' = soured
    BY <1>5 DEF StartDelete, At, OutsideWork, hist
  <2>2. /\ job'[s] = SavedOver(job[s], copy)
        /\ work'[w] = [work[w] EXCEPT !.at = "deleting", !.row = copy]
    BY <1>0, <1>3, <1>5, <2>1 DEF StartDelete
  <2>3. copy \in [status : {"running"}, attempts : Nat, owner : {w},
                  expires : {work[w].row.expires}, phase : {"snapshot_delete"},
                  failure : Failures, recoveredFrom : Phases \cup MarkerPhases]
    BY <1>0, <1>3, <2>1 DEF Row
  <2>4. lease \in Int /\ lease > 0
    BY <1>0, <1>3, <2>1 DEF LaterOf, Row, LeaseIsExpired, NoLease
  <2>5. job'[s] = [copy EXCEPT !.expires = lease]
    BY <2>2, <2>3 DEF SavedOver
  <2> HIDE DEF copy, lease
  <2>6. /\ job'[s].status = "running" /\ job'[s].owner = w /\ job'[s].expires = lease
        /\ work'[w].at = "deleting" /\ work'[w].row = copy
        /\ copy.status = "running" /\ copy.owner = w
    BY <1>0, <2>2, <2>3, <2>5 DEF Tasks
  <2>7. ~LeaseIsExpired(job'[s].expires, 0)
    BY <2>4, <2>6 DEF LeaseIsExpired
  <2>8. Rightly(w, s)'
    BY <2>6, <2>7 DEF Rightly, At, HoldsLease
  <2> QED
    BY <1>1, <1>3, <2>1, <2>6, <2>7, <2>8, HandStaysOrderly DEF IsOwed
<1>6. CASE DeleteSnapshot(w)
  <2>1. work[w].at = "deleting" /\ UNCHANGED <<snap, job, soured>>
    BY <1>6 DEF DeleteSnapshot, At, OutsideWork, hist
  <2>2. PICK point \in {"done", "refused", "raised"} : Move(w, point)
    BY <1>6 DEF DeleteSnapshot
  <2>3. work'[w].at = point /\ work'[w].row = work[w].row
    BY <1>0, <2>2 DEF Move, Tasks
  <2>4. Rightly(w, s)'
    BY <1>3, <2>1, <2>3 DEF Rightly, At
  <2> QED
    BY <1>1, <1>3, <2>1, <2>4, HandStaysOrderly DEF IsOwed
<1>7. CASE RecordDelete(w)
  <2>1. work[w].at \in {"done", "refused"} /\ UNCHANGED <<job, soured>>
    BY <1>7 DEF RecordDelete, At, OutsideWork, hist
  <2>2. PICK point \in {"completing", "raised"} :
          /\ Move(w, point)
          /\ point = "completing" => snap'[s].state = "deleted"
    <3>1. CASE At(w, "done")
      <4>1. snap'[s] = [work[w].held EXCEPT !.state = "deleted"]
        BY <1>0, <1>7, <3>1 DEF RecordDelete
      <4>2. snap'[s].state = "deleted"
        BY <1>0, <4>1, RecordsKeepTheirType DEF SnapshotStates
      <4> QED
        BY <1>7, <3>1, <4>2 DEF RecordDelete
    <3>2. CASE ~At(w, "done")
      BY <1>7, <3>2 DEF RecordDelete
    <3> QED
      BY <3>1, <3>2
  <2>3. work'[w].at = point /\ work'[w].row = work[w].row
    BY <1>0, <2>2 DEF Move, Tasks
  <2>4. Rightly(w, s)'
    BY <1>3, <2>1, <2>2, <2>3 DEF Rightly, At
  <2> QED
    BY <1>1, <1>3, <2>1, <2>4, HandStaysOrderly DEF IsOwed
<1>8. CASE CompleteDelete(w)
  <2>1. work[w].at = "completing" /\ UNCHANGED <<snap, soured>>
    BY <1>8 DEF CompleteDelete, At, OutsideWork, hist
  <2>2. /\ job'[s] = CompletedCopy(work[w].row)
        /\ work'[w] = [work[w] EXCEPT !.at = "auditing", !.row = CompletedCopy(work[w].row)]
    BY <1>0, <1>3, <1>8, <2>1 DEF CompleteDelete
  <2>3. job'[s].status = "completed"
    BY <1>0, <2>2 DEF CompletedCopy, Row
  <2>4. work'[w].at = "auditing"
    BY <1>0, <2>2 DEF Tasks
  <2>5. snap'[s].state = "deleted" /\ s \notin soured'
    BY <1>3, <2>1 DEF At
  <2>6. Rightly(w, s)'
    BY <2>3, <2>4, <2>5 DEF Rightly, At
  <2> QED
    BY <1>1, <2>3, <2>5, <2>6, HandStaysOrderly DEF IsOwed
<1>9. CASE FailDelete(w)
  <2>1. /\ At(w, "raised") /\ UNCHANGED <<snap, soured>>
        /\ work'[w].at = "failed" /\ work'[w].of = s
    BY <1>0, <1>9 DEF FailDelete, OutsideWork, hist, Tasks
  <2>2. HandOf(w, s)'
    BY <2>1 DEF HandOf, At
  <2>3. CASE job[s].status = "running"
    <3>1. job'[s] = FailedCopy(work[w].row, FALSE)
      BY <1>0, <1>3, <1>9, <2>3 DEF FailDelete
    <3>2. job'[s].status = "failed"
      BY <1>0, <3>1 DEF FailedCopy, Row
    <3>3. Rightly(w, s)' /\ s \notin soured'
      BY <1>3, <2>1, <2>3, <3>2 DEF Rightly, At, IsOwed
    <3> QED
      BY <1>1, <2>2, <3>2, <3>3, HandStaysOrderly
  <2>4. CASE job[s].status # "running"
    <3>1. job[s].status = "completed" /\ s \in soured
      BY <2>1, <2>4 DEF Orderly, Rightly, HoldsLease, At
    <3>2. job' = job
      BY <1>0, <1>9, <2>4 DEF FailDelete, Owns, HoldsLease
    <3>3. Rightly(w, s)'
      BY <2>1, <3>1, <3>2 DEF Rightly, At, IsOwed
    <3> QED
      BY <1>1, <2>1, <2>2, <3>1, <3>2, <3>3, HandStaysOrderly
  <2> QED
    BY <2>3, <2>4
<1>10. CASE RecordFailure(w)
  <2>1. At(w, "failed") /\ UNCHANGED <<job, soured>> /\ work'[w] = Idle
    BY <1>0, <1>10 DEF RecordFailure, Finish, OutsideWork, hist
  <2>2. IsOwed(s)
    BY <2>1 DEF Orderly, Rightly, At
  <2>3. snap'[s] = [work[w].held EXCEPT !.state = "delete_failed"]
    BY <1>0, <1>10 DEF RecordFailure
  <2>4. snap'[s].state = "delete_failed"
    BY <1>0, <2>3, RecordsKeepTheirType DEF SnapshotStates
  <2>5. ~HandOf(w, s)'
    BY <2>1, IdleIsTask DEF HandOf, At
  <2>6. /\ job'[s].status \in {"completed", "failed"}
        /\ s \in soured' => job'[s].status = "completed"
        /\ ~(job'[s].status = "completed" /\ s \notin soured')
    BY <2>1, <2>2 DEF IsOwed, Orderly
  <2> QED
    BY <1>1, <2>4, <2>5, <2>6, HandStaysOrderly
<1>13. CASE AuditDelete(w)
  <2>1. At(w, "auditing") /\ UNCHANGED <<snap, job, soured>> /\ work'[w] = Idle
    BY <1>0, <1>13 DEF AuditDelete, Finish, OutsideWork, hist
  <2>2. job[s].status = "completed" /\ snap[s].state = "deleted" /\ s \notin soured
    BY <2>1 DEF Orderly, Rightly, At
  <2>3. ~HandOf(w, s)'
    BY <2>1, IdleIsTask DEF HandOf, At
  <2> QED
    BY <1>1, <2>1, <2>2, <2>3, HandStaysOrderly DEF IsOwed
<1>14. CASE RaiseError(w)
  <2>1. /\ UNCHANGED <<snap, job>> /\ work'[w].at = "raised" /\ work'[w].row = work[w].row
        /\ work'[w].of = s
        /\ work[w].at \in {"claimed", "done", "refused", "completing", "auditing"}
        /\ soured' = IF At(w, "auditing") THEN soured \cup {s} ELSE soured
    BY <1>0, <1>14 DEF RaiseError, Move, Tasks
  <2>2. HandOf(w, s)'
    BY <2>1 DEF HandOf, At
  <2>3. CASE At(w, "auditing")
    <3>1. job[s].status = "completed" /\ snap[s].state = "deleted"
      BY <2>3 DEF Orderly, Rightly, At
    <3>2. Rightly(w, s)' /\ s \in soured'
      BY <2>1, <2>3, <3>1 DEF Rightly, At
    <3> QED
      BY <1>1, <2>1, <2>2, <3>1, <3>2, HandStaysOrderly
  <2>4. CASE ~At(w, "auditing")
    <3>1. work[w].at \notin {"auditing", "raised", "failed"} /\ soured' = soured
      BY <2>1, <2>4 DEF At
    <3>2. Rightly(w, s)'
      BY <1>3, <2>1, <3>1 DEF Rightly, At
    <3> QED
      BY <1>1, <1>3, <2>1, <2>2, <3>1, <3>2, HandStaysOrderly
  <2> QED
    BY <2>3, <2>4
<1>11. ~CancelTask(w)
  <2>1. At(w, "deleting") => Owns(w)
    BY <1>3 DEF At
  <2> QED
    BY <2>1 DEF CancelTask
<1>12. ~Crash(w)
  BY <1>0 DEF Crash
<1> QED
  BY <1>4, <1>5, <1>6, <1>7, <1>8, <1>9, <1>10, <1>11, <1>12, <1>13, <1>14
     DEF WorkerStep

LEMMA WorkOrderly ==
  ASSUME IInv, NEW s \in Snapshots, Orderly(s), NEW w \in Workers,
         WorkerStep(w) \/ RaiseError(w) \/ CancelTask(w) \/ Crash(w), s \notin disturbed'
  PROVE  Orderly(s)'
<1>1. CASE At(w, "idle")
  <2>1. PICK u \in Snapshots : ClaimDelete(w, u)
    BY <1>1 DEF WorkerStep, StartDelete, DeleteSnapshot, RecordDelete, CompleteDelete,
       AuditDelete, FailDelete, RecordFailure, RaiseError, CancelTask, Crash, At
  <2> QED
    BY <2>1, ClaimOrderly
<1>2. CASE ~At(w, "idle") /\ work[w].of # s
  BY <1>2, OtherWorkOrderly
<1>3. CASE ~At(w, "idle") /\ work[w].of = s
  BY <1>3, OwnWorkOrderly DEF HandOf
<1> QED
  BY <1>1, <1>2, <1>3

(* Nothing of s is in the sweep's hands, so neither the recovery nor a     *)
(* beat task that dies says anything about s.                              *)
LEMMA BeatOrderly ==
  ASSUME IInv, NEW s \in Snapshots, Orderly(s), s \notin disturbed',
         BeatStep \/ BeatDies
  PROVE  Orderly(s)'
<1>0. DOMAIN job = Snapshots /\ DOMAIN snap = Snapshots /\ job[s] \in Row
  BY DEF IInv, TypeOK
<1>9. soured' = soured
  BY DEF BeatStep, Sweep, ReleaseDelete, SendReleased, RecordSweep, SendRecovered, BeatDies,
     hist
<1>1. CASE Sweep
  <2>1. ~Lapsed(job[s], 0)
    BY DEF Orderly, Lapsed
  <2>2. job'[s] = job[s] /\ snap' = snap /\ work' = work
    BY <1>1, <2>1 DEF Sweep
  <2>3. Swept(s)' => Swept(s)
    <3>1. \A t : beat'.ready = beat.ready /\ t \in Snapshots /\ t \in beat'.recovered \cup beat'.exhausted
                   => t \in beat.recovered \cup beat.exhausted \/ Lapsed(job[t], 0)
      BY <1>1 DEF Sweep, IInv, TypeOK
    <3>2. beat'.ready = beat.ready
      BY <1>1 DEF Sweep, IInv, TypeOK
    <3> QED
      BY <2>1, <3>1, <3>2 DEF Swept
  <2> QED
    BY <2>2, <2>3, <1>9, SameStaysOrderly DEF SameFor, HandOf, At
<1>2. ASSUME NEW u \in Snapshots, ReleaseDelete(u)
      PROVE  Orderly(s)'
  <2>1. work' = work /\ snap' = snap /\ Swept(s)' = Swept(s)
    BY <1>2 DEF ReleaseDelete, Swept, IInv, TypeOK
  <2>2. CASE u = s
    <3>1. job[s].status = "scheduled" /\ job[s].attempts = 0
      BY <1>2, <2>2 DEF ReleaseDelete, Orderly
    <3>2. job'[s].status = "queued" /\ job'[s].attempts = 0
      BY <1>0, <1>2, <2>2, <3>1 DEF ReleaseDelete, Row
    <3> QED
      BY <2>1, <3>1, <3>2, <1>9, NobodysJob
  <2>3. CASE u # s
    <3>1. job'[s] = job[s]
      BY <1>0, <1>2, <2>3 DEF ReleaseDelete
    <3> QED
      BY <2>1, <3>1, <1>9, SameStaysOrderly DEF SameFor, HandOf, At
  <2> QED
    BY <2>2, <2>3
<1>3. ASSUME NEW u \in Snapshots, SendReleased(u) \/ SendRecovered(u)
      PROVE  Orderly(s)'
  <2>1. UNCHANGED <<job, snap, work>> /\ (Swept(s)' => Swept(s))
    BY <1>3 DEF SendReleased, SendRecovered, Swept, IInv, TypeOK
  <2> QED
    BY <2>1, <1>9, SameStaysOrderly DEF SameFor, HandOf, At
<1>4. ASSUME NEW u \in Snapshots, RecordSweep(u)
      PROVE  Orderly(s)'
  <2>1. u # s
    BY <1>4 DEF RecordSweep, Orderly, Swept
  <2>2. UNCHANGED <<job, work>> /\ snap'[s] = snap[s]
    BY <1>0, <1>4, <2>1 DEF RecordSweep, SetState
  <2>3. Swept(s)' => Swept(s)
    BY <1>4, <2>1 DEF RecordSweep, Swept, IInv, TypeOK
  <2> QED
    BY <2>2, <2>3, <1>9, SameStaysOrderly DEF SameFor, HandOf, At
<1>5. CASE BeatDies
  <2>1. UNCHANGED <<job, snap, work>> /\ ~Swept(s)'
    BY <1>5 DEF BeatDies, Swept
  <2> QED
    BY <2>1, <1>9, SameStaysOrderly DEF SameFor, HandOf, At
<1> QED
  BY <1>1, <1>2, <1>3, <1>4, <1>5 DEF BeatStep

LEMMA OrderInit == Init => AllOrderly
<1>1. ASSUME Init, NEW s \in Snapshots PROVE Orderly(s)
  <2>1. \A w \in Workers : ~HandOf(w, s)
    BY <1>1, IdleIsTask DEF Init, HandOf, At
  <2>2. job[s].status = "absent" /\ job[s].attempts = 0 /\ ~Swept(s) /\ s \notin soured
    BY <1>1 DEF Init, NoRow, Swept
  <2> QED
    BY <2>1, <2>2 DEF Orderly, IsOwed
<1> QED
  BY <1>1 DEF AllOrderly

LEMMA OrderNext == IInv /\ AllOrderly /\ [Next]_vars => AllOrderly'
<1> SUFFICES ASSUME IInv, AllOrderly, [Next]_vars, NEW s \in Snapshots, s \notin disturbed'
             PROVE  Orderly(s)'
  BY DEF AllOrderly
<1>1. disturbed \subseteq disturbed'
  BY DEF Next, ExecStep, BeginSnapshot, CreateSnapshot, PassHealth, FailHealth, RollBack,
     ScheduleDelete, AbandonExec, OutsideExec, Lapse, WorkerStep, ClaimDelete, StartDelete,
     DeleteSnapshot, RecordDelete, CompleteDelete, AuditDelete, FailDelete, RecordFailure,
     RaiseError, CancelTask, Crash, OutsideWork, BeatStep, Sweep, ReleaseDelete, SendReleased, RecordSweep,
     SendRecovered, BeatDies, Tick, hist, vars
<1>2. Orderly(s)
  BY <1>1 DEF AllOrderly
<1>3. ASSUME NEW u \in Snapshots, ExecStep(u) \/ AbandonExec(u)
      PROVE  Orderly(s)'
  BY <1>2, <1>3, ExecOrderly
<1>4. ASSUME NEW u \in Snapshots, Lapse(u)
      PROVE  Orderly(s)'
  <2>1. u # s /\ DOMAIN job = Snapshots
    BY <1>4 DEF Lapse, IInv, TypeOK
  <2>2. job'[s] = job[s] /\ UNCHANGED <<snap, work, beat, soured>>
    BY <1>4, <2>1 DEF Lapse
  <2> QED
    BY <1>2, <2>2, SameStaysOrderly DEF SameFor, HandOf, At, Swept
<1>5. ASSUME NEW w \in Workers, WorkerStep(w) \/ RaiseError(w) \/ CancelTask(w) \/ Crash(w)
      PROVE  Orderly(s)'
  BY <1>2, <1>5, WorkOrderly
<1>6. CASE BeatStep \/ BeatDies
  BY <1>2, <1>6, BeatOrderly
<1>7. CASE Tick \/ UNCHANGED vars
  BY <1>2, <1>7, SameStaysOrderly DEF Tick, vars, hist, SameFor, HandOf, At, Swept
<1> QED
  BY <1>3, <1>4, <1>5, <1>6, <1>7 DEF Next

(* A deletion that met no loss ends with a record that says what its job   *)
(* says, however deliveries and beat tasks interleave.  One that raised    *)
(* after its job was completed ends with a record that says it failed.     *)
THEOREM RecordsSayWhatJobsSay == Spec => []RecordAgrees
<1>1. AllOrderly => RecordAgrees
  BY DEF AllOrderly, Orderly, IsOwed, RecordAgrees
<1> QED
  BY <1>1, OrderInit, OrderNext, InductiveInvariant, PTL DEF Spec

-----------------------------------------------------------------------------
(* The refinement: every step is a step of JobPromise.                     *)

(* What the job layer's own steps leave of a row.                          *)
JobIsSound(s) ==
  /\ job[s].attempts <= MaxAttempts
  /\ job[s].status \in {"absent", "scheduled"} => job[s].attempts = 0
  /\ job[s].status = "queued" => HasAttemptLeft(job[s])

(* The row a worker saves over the stored one counts the same attempts.    *)
CopyIsCurrent(w) ==
  ~At(w, "idle") /\ ~At(w, "failed") /\ Owns(w) =>
    /\ work[w].row.status = "running" /\ work[w].row.owner = w
    /\ work[w].row.attempts = job[work[w].of].attempts

JobsAreSound == (\A s \in Snapshots : JobIsSound(s)) /\ \A w \in Workers : CopyIsCurrent(w)

(* The kinds of steps there are for the jobs.                              *)
Others(w) == \A v \in Workers : v # w => work'[v] = work[v]

Goes(w) ==
  /\ ~At(w, "idle") /\ ~At(w, "failed")
  /\ work'[w].of = work[w].of /\ work'[w].at # "idle"
  /\ work'[w].at = "failed" \/ work'[w].row = work[w].row

Aside == job' = job /\ \A w \in Workers : \/ work'[w] = work[w] \/ Goes(w)
                                          \/ work'[w].at = "idle"

RowMoves(s, r) == job' = [job EXCEPT ![s] = r]

Taken(w, s) ==
  /\ At(w, "idle") /\ Claimable(job[s], 0) /\ HasAttemptLeft(job[s])
  /\ RowMoves(s, Claimed(job[s], w, 0)) /\ Others(w)
  /\ work'[w].at = "claimed" /\ work'[w].of = s /\ work'[w].row = Claimed(job[s], w, 0)

Saved(w, r) ==
  /\ ~At(w, "idle") /\ Owns(w) /\ RowMoves(work[w].of, r) /\ Others(w)
  /\ r \in Row /\ r.status = "running" /\ r.owner = w
  /\ r.attempts = job[work[w].of].attempts
  /\ work'[w].of = work[w].of /\ work'[w].at # "idle"
  /\ work'[w].row.status = "running" /\ work'[w].row.owner = w
  /\ work'[w].row.attempts = r.attempts

Ended(w, r) ==
  /\ ~At(w, "idle") /\ Owns(w) /\ RowMoves(work[w].of, r) /\ Others(w)
  /\ r \in Row /\ r.status \in {"completed", "failed"}
  /\ r.attempts = job[work[w].of].attempts
  /\ work'[w].at \in {"idle", "auditing", "failed"}
  /\ work'[w].at # "idle" => work'[w].of = work[w].of

Submitted(s, r) ==
  /\ job[s].status = "absent" /\ RowMoves(s, r) /\ work' = work
  /\ r \in Row /\ r.status = "scheduled" /\ r.attempts = 0

Released(s, r) ==
  /\ job[s].status = "scheduled" /\ RowMoves(s, r) /\ work' = work
  /\ r \in Row /\ r.status = "queued" /\ r.attempts = job[s].attempts

GivenUp(s) ==
  /\ Claimable(job[s], 0) /\ ~HasAttemptLeft(job[s])
  /\ RowMoves(s, Exhausted(job[s])) /\ work' = work

Aged(s) ==
  /\ job[s].status = "running"
  /\ RowMoves(s, [job[s] EXCEPT !.expires = 0]) /\ work' = work

Taking == \E w \in Workers, s \in Snapshots : Taken(w, s)
Ending == \E w \in Workers, r \in Row : Saved(w, r) \/ Ended(w, r)
Moving == \E s \in Snapshots : \/ \E r \in Row : Submitted(s, r) \/ Released(s, r)
                               \/ GivenUp(s) \/ Aged(s)
Kinds == Aside \/ Taking \/ Ending \/ Moving \/ Sweep

LEMMA LeavesAside ==
  ASSUME IInv, NEW w \in Workers, Finish(w), job' = job
  PROVE  Aside
<1>1. /\ \A v \in Workers : v # w => work'[v] = work[v]
      /\ work'[w].at = "idle"
  BY IdleIsTask DEF Finish, IInv, TypeOK
<1> QED
  BY <1>1 DEF Aside

LEMMA WorkerKinds ==
  ASSUME IInv, JobsAreSound, NEW w \in Workers, WorkerStep(w) \/ RaiseError(w) \/ CancelTask(w) \/ Crash(w)
  PROVE  Kinds
<1> DEFINE s == work[w].of
<1>1. /\ work[w] \in Tasks /\ s \in Snapshots /\ work[w].row \in Row /\ job[s] \in Row
      /\ DOMAIN work = Workers /\ DOMAIN job = Snapshots
  BY DEF IInv, TypeOK, Tasks
<1>2. CopyIsCurrent(w)
  BY DEF JobsAreSound
<1>3. ASSUME NEW u \in Snapshots, ClaimDelete(w, u)
      PROVE  Kinds
  <2>1. CASE ~Claimable(job[u], 0)
    BY <1>3, <2>1 DEF ClaimDelete, Aside, Kinds
  <2>2. CASE Claimable(job[u], 0) /\ ~HasAttemptLeft(job[u])
    BY <1>3, <2>2 DEF ClaimDelete, GivenUp, RowMoves, Moving, Kinds
  <2>3. CASE Claimable(job[u], 0) /\ HasAttemptLeft(job[u])
    <3>1. Taken(w, u)
      BY <1>1, <1>3, <2>3 DEF ClaimDelete, Taken, RowMoves, Others
    <3> QED
      BY <3>1 DEF Taking, Kinds
  <2> QED
    BY <2>1, <2>2, <2>3
<1>4. CASE StartDelete(w)
  <2> DEFINE copy == [work[w].row EXCEPT !.phase = "snapshot_delete"]
             r == SavedOver(job[s], copy)
  <2>1. CASE Owns(w)
    <3>1. /\ At(w, "claimed") /\ job' = [job EXCEPT ![s] = r]
          /\ work' = [work EXCEPT ![w] = [work[w] EXCEPT !.at = "deleting", !.row = copy]]
      BY <1>4, <2>1 DEF StartDelete
    <3>2. ~At(w, "idle") /\ ~At(w, "failed")
      BY <3>1 DEF At
    <3>3. /\ copy \in Row /\ copy.status = "running" /\ copy.owner = w
          /\ copy.attempts = job[s].attempts
      BY <1>1, <1>2, <2>1, <3>2, RetentionAssumption DEF CopyIsCurrent, Row
    <3> HIDE DEF copy
    <3>4. /\ r \in Row /\ r.status = "running" /\ r.owner = w /\ r.attempts = copy.attempts
      BY <1>1, <3>3, SavedOverIsRow, SavedOverKeeps
    <3> HIDE DEF r
    <3>5. /\ work'[w].of = s /\ work'[w].at = "deleting" /\ work'[w].row = copy
          /\ Others(w)
      BY <1>1, <3>1 DEF Others, Tasks
    <3>6. Saved(w, r)
      BY <2>1, <3>1, <3>2, <3>3, <3>4, <3>5 DEF Saved, RowMoves
    <3> QED
      BY <3>4, <3>6 DEF Ending, Kinds
  <2>2. CASE ~Owns(w)
    BY <1>4, <2>2, LeavesAside DEF StartDelete, LeaseLost, Kinds
  <2> QED
    BY <2>1, <2>2
<1>5. CASE DeleteSnapshot(w) \/ RecordDelete(w) \/ RaiseError(w)
  <2>1. /\ job' = job
        /\ work[w].at \in {"claimed", "deleting", "done", "refused", "completing", "auditing"}
        /\ \E p \in {"done", "refused", "raised", "completing"} : Move(w, p)
    BY <1>5 DEF DeleteSnapshot, RecordDelete, RaiseError, At
  <2>2. Goes(w) /\ \A v \in Workers : v # w => work'[v] = work[v]
    BY <1>1, <2>1 DEF Move, Goes, At, Tasks
  <2> QED
    BY <2>1, <2>2 DEF Aside, Kinds
<1>6. CASE CompleteDelete(w)
  <2>1. CASE Owns(w)
    <3> DEFINE r == CompletedCopy(work[w].row)
    <3>1. /\ At(w, "completing") /\ job' = [job EXCEPT ![s] = r]
          /\ work' = [work EXCEPT ![w] = [work[w] EXCEPT !.at = "auditing", !.row = r]]
      BY <1>6, <2>1 DEF CompleteDelete
    <3>2. ~At(w, "idle") /\ ~At(w, "failed")
      BY <3>1 DEF At
    <3>3. r \in Row /\ r.status = "completed" /\ r.attempts = work[w].row.attempts
      BY <1>1, LastRowsAre
    <3> HIDE DEF r
    <3>4. r.attempts = job[s].attempts
      BY <1>2, <2>1, <3>2, <3>3 DEF CopyIsCurrent
    <3>5. work'[w].at = "auditing" /\ work'[w].of = s /\ Others(w)
      BY <1>1, <3>1 DEF Tasks, Others
    <3>6. Ended(w, r)
      BY <2>1, <3>1, <3>2, <3>3, <3>4, <3>5 DEF Ended, RowMoves
    <3> QED
      BY <3>3, <3>6 DEF Ending, Kinds
  <2>2. CASE ~Owns(w)
    BY <1>6, <2>2, LeavesAside DEF CompleteDelete, LeaseLost, Kinds
  <2> QED
    BY <2>1, <2>2
<1>7. CASE FailDelete(w)
  <2>1. /\ At(w, "raised") /\ ~At(w, "idle") /\ ~At(w, "failed")
        /\ work'[w].at = "failed" /\ work'[w].of = s /\ Others(w)
    BY <1>1, <1>7 DEF FailDelete, At, Others, Tasks
  <2>2. CASE Owns(w)
    <3> DEFINE r == FailedCopy(work[w].row, FALSE)
    <3>1. job' = [job EXCEPT ![s] = r]
      BY <1>7, <2>2 DEF FailDelete
    <3>2. r \in Row /\ r.status = "failed" /\ r.attempts = work[w].row.attempts
      BY <1>1, LastRowsAre
    <3> HIDE DEF r
    <3>3. r.attempts = job[s].attempts
      BY <1>2, <2>1, <2>2, <3>2 DEF CopyIsCurrent
    <3>4. Ended(w, r)
      BY <2>1, <2>2, <3>1, <3>2, <3>3 DEF Ended, RowMoves
    <3> QED
      BY <3>2, <3>4 DEF Ending, Kinds
  <2>3. CASE ~Owns(w)
    BY <1>7, <2>1, <2>3 DEF FailDelete, Aside, Goes, Others, Kinds
  <2> QED
    BY <2>2, <2>3
<1>8. CASE AuditDelete(w) \/ RecordFailure(w) \/ CancelTask(w) \/ Crash(w)
  BY <1>8, LeavesAside DEF AuditDelete, RecordFailure, CancelTask, LeaseLost, Crash, Kinds
<1> QED
  BY <1>3, <1>4, <1>5, <1>6, <1>7, <1>8 DEF WorkerStep

LEMMA EveryStepIsAKind ==
  ASSUME IInv, JobsAreSound, [Next]_vars
  PROVE  Kinds
<1>1. CASE job' = job /\ work' = work
  BY <1>1 DEF Aside, Kinds
<1>2. ASSUME NEW s \in Snapshots, ScheduleDelete(s)
      PROVE  Kinds
  <2> DEFINE r == [NewRow("scheduled") EXCEPT !.phase = "waiting_for_retention"]
  <2>1. r \in Row /\ r.status = "scheduled" /\ r.attempts = 0
    BY RetentionAssumption DEF NewRow, NoRow, Row, Statuses, MarkerPhases, Failures
  <2>2. job[s].status = "absent"
    BY <1>2 DEF ScheduleDelete, IInv, HourIsSet
  <2>3. job' = [job EXCEPT ![s] = r] /\ work' = work
    BY <1>2 DEF ScheduleDelete
  <2> HIDE DEF r
  <2> QED
    BY <2>1, <2>2, <2>3 DEF Submitted, RowMoves, Moving, Kinds
<1>3. ASSUME NEW s \in Snapshots, ReleaseDelete(s)
      PROVE  Kinds
  <2> DEFINE r == [job[s] EXCEPT !.status = "queued", !.phase = "none"]
  <2>1. job[s] \in Row
    BY DEF IInv, TypeOK
  <2>2. r \in Row /\ r.status = "queued" /\ r.attempts = job[s].attempts
    BY <2>1 DEF Row, Statuses, MarkerPhases
  <2>3. job[s].status = "scheduled" /\ job' = [job EXCEPT ![s] = r] /\ work' = work
    BY <1>3 DEF ReleaseDelete
  <2> HIDE DEF r
  <2> QED
    BY <2>2, <2>3 DEF Released, RowMoves, Moving, Kinds
<1>4. ASSUME NEW s \in Snapshots, Lapse(s)
      PROVE  Kinds
  BY <1>4 DEF Lapse, Aged, RowMoves, Moving, Kinds
<1>5. ASSUME NEW w \in Workers, WorkerStep(w) \/ RaiseError(w) \/ CancelTask(w) \/ Crash(w)
      PROVE  Kinds
  BY <1>5, WorkerKinds
<1>6. CASE Sweep
  BY <1>6 DEF Kinds
<1>7. CASE BeatDies \/ Tick \/ UNCHANGED vars
  BY <1>1, <1>7 DEF BeatDies, Tick, vars
<1>8. ASSUME NEW s \in Snapshots, SendReleased(s) \/ RecordSweep(s) \/ SendRecovered(s)
      PROVE  Kinds
  BY <1>1, <1>8 DEF SendReleased, RecordSweep, SendRecovered
<1>9. ASSUME NEW s \in Snapshots, ExecStep(s) \/ AbandonExec(s)
      PROVE  Kinds
  BY <1>1, <1>2, <1>9 DEF ExecStep, BeginSnapshot, CreateSnapshot, PassHealth, FailHealth,
     RollBack, AbandonExec, OutsideExec
<1> QED
  BY <1>3, <1>4, <1>5, <1>6, <1>7, <1>8, <1>9 DEF Next, BeatStep

(* One job moves, and the workers with other jobs stay where they are.     *)
LEMMA OthersStaySound ==
  ASSUME IInv, IInv', JobsAreSound, NEW s \in Snapshots, NEW r \in Row, RowMoves(s, r),
         JobIsSound(s)',
         \A v \in Workers : \/ work'[v].at \in {"idle", "failed"}
                            \/ work'[v] = work[v] /\ work[v].of # s
                            \/ work'[v] = work[v] /\ r.owner # v
                            \/ CopyIsCurrent(v)'
  PROVE  JobsAreSound'
<1>1. DOMAIN job = Snapshots /\ job'[s] = r /\ \A u \in Snapshots : u # s => job'[u] = job[u]
  BY DEF IInv, TypeOK, RowMoves
<1>2. ASSUME NEW u \in Snapshots PROVE JobIsSound(u)'
  BY <1>1 DEF JobsAreSound, JobIsSound, HasAttemptLeft
<1>3. ASSUME NEW v \in Workers PROVE CopyIsCurrent(v)'
  <2>1. work[v].of \in Snapshots
    BY DEF IInv, TypeOK, Tasks
  <2>2. CASE work'[v].at \in {"idle", "failed"}
    BY <2>2 DEF CopyIsCurrent, At
  <2>3. CASE work'[v] = work[v] /\ work[v].of # s
    BY <1>1, <2>1, <2>3 DEF JobsAreSound, CopyIsCurrent, At, Owns
  <2>4. CASE work'[v] = work[v] /\ work[v].of = s /\ r.owner # v
    BY <1>1, <2>4 DEF CopyIsCurrent, At, Owns, HoldsLease
  <2> QED
    BY <2>2, <2>3, <2>4
<1> QED
  BY <1>2, <1>3 DEF JobsAreSound

LEMMA StaySound ==
  ASSUME IInv, IInv', JobsAreSound, Kinds
  PROVE  JobsAreSound'
<1>1. \A u \in Snapshots : /\ job[u] \in Row /\ JobIsSound(u)
                           /\ job[u].attempts \in Nat
  BY DEF IInv, TypeOK, Row, JobsAreSound
<1>2. \A v \in Workers : work[v].of \in Snapshots /\ CopyIsCurrent(v)
  BY DEF IInv, TypeOK, Tasks, JobsAreSound
<1>3. DOMAIN job = Snapshots
  BY DEF IInv, TypeOK
<1>4. CASE Aside
  <2>1. \A u \in Snapshots : JobIsSound(u)'
    BY <1>1, <1>4 DEF Aside, JobIsSound
  <2>2. \A v \in Workers : CopyIsCurrent(v)'
    BY <1>2, <1>4 DEF Aside, Goes, CopyIsCurrent, Owns, At
  <2> QED
    BY <2>1, <2>2 DEF JobsAreSound
<1>5. ASSUME NEW w \in Workers, NEW s \in Snapshots, Taken(w, s)
      PROVE  JobsAreSound'
  <2> DEFINE r == Claimed(job[s], w, 0)
  <2>1. r \in Row /\ r.status = "running" /\ r.owner = w /\ r.attempts = job[s].attempts + 1
    BY <1>1, ClaimedIsRow, ClaimedRowIs
  <2>2. job'[s] = r /\ RowMoves(s, r)
    BY <1>3, <1>5 DEF Taken, RowMoves
  <2>3. JobIsSound(s)'
    BY <1>1, <1>5, <2>1, <2>2, AttemptsAssumption DEF Taken, JobIsSound, HasAttemptLeft
  <2>4. work'[w].row = r /\ work'[w].of = s
    BY <1>5 DEF Taken
  <2> HIDE DEF r
  <2>5. CopyIsCurrent(w)'
    BY <2>1, <2>2, <2>4 DEF CopyIsCurrent
  <2>6. \A v \in Workers : v # w => work'[v] = work[v]
    BY <1>5 DEF Taken, Others
  <2> QED
    BY <2>1, <2>2, <2>3, <2>5, <2>6, OthersStaySound
<1>6. ASSUME NEW w \in Workers, NEW r \in Row, Saved(w, r)
      PROVE  JobsAreSound'
  <2>1. PICK s \in Snapshots : s = work[w].of
    BY <1>2
  <2>2. /\ RowMoves(s, r) /\ r.status = "running" /\ r.owner = w
        /\ r.attempts = job[s].attempts
    BY <1>6, <2>1 DEF Saved
  <2>3. job'[s] = r
    BY <1>3, <2>2 DEF RowMoves
  <2>4. JobIsSound(s)'
    BY <1>1, <2>2, <2>3 DEF JobIsSound
  <2>5. CopyIsCurrent(w)'
    BY <1>6, <2>1, <2>2, <2>3 DEF Saved, CopyIsCurrent
  <2>6. \A v \in Workers : v # w => work'[v] = work[v] /\ r.owner # v
    BY <1>6, <2>2 DEF Saved, Others
  <2>7. \A v \in Workers : \/ work'[v] = work[v] /\ r.owner # v
                           \/ CopyIsCurrent(v)'
    BY <2>5, <2>6
  <2> QED
    BY <2>2, <2>4, <2>7, OthersStaySound
<1>7. ASSUME NEW w \in Workers, NEW r \in Row, Ended(w, r)
      PROVE  JobsAreSound'
  <2>1. PICK s \in Snapshots : s = work[w].of
    BY <1>2
  <2>2. /\ RowMoves(s, r) /\ r.status \in {"completed", "failed"}
        /\ r.attempts = job[s].attempts
    BY <1>7, <2>1 DEF Ended
  <2>3. job'[s] = r
    BY <1>3, <2>2 DEF RowMoves
  <2>4. JobIsSound(s)'
    BY <1>1, <2>2, <2>3 DEF JobIsSound
  <2>5. /\ work'[w].at \in {"idle", "failed"} \/ work'[w].of = s
        /\ \A v \in Workers : v # w => work'[v] = work[v]
    BY <1>7, <2>1 DEF Ended, Others
  <2>6. ASSUME NEW v \in Workers, v # w, work[v].of = s
        PROVE  CopyIsCurrent(v)'
    BY <2>2, <2>3, <2>5, <2>6 DEF CopyIsCurrent, Owns, HoldsLease
  <2>7. ASSUME NEW v \in Workers
        PROVE  \/ work'[v].at \in {"idle", "failed"}
               \/ work'[v] = work[v] /\ work[v].of # s
               \/ work'[v] = work[v] /\ r.owner # v
               \/ CopyIsCurrent(v)'
    <3>1. CASE v = w
      BY <2>2, <2>3, <2>5, <3>1 DEF CopyIsCurrent, Owns, HoldsLease
    <3>2. CASE v # w /\ work[v].of = s
      BY <2>6, <3>2
    <3>3. CASE v # w /\ work[v].of # s
      BY <2>5, <3>3
    <3> QED
      BY <3>1, <3>2, <3>3
  <2> QED
    BY <2>2, <2>4, <2>7, OthersStaySound
<1>8. ASSUME NEW s \in Snapshots, NEW r \in Row, Submitted(s, r) \/ Released(s, r)
      PROVE  JobsAreSound'
  <2>1. job'[s] = r /\ RowMoves(s, r) /\ work' = work
    BY <1>3, <1>8 DEF Submitted, Released, RowMoves
  <2>2. JobIsSound(s)'
    BY <1>1, <1>8, <2>1, AttemptsAssumption DEF Submitted, Released, JobIsSound, HasAttemptLeft
  <2>3. \A v \in Workers : work[v].of = s => CopyIsCurrent(v)'
    BY <1>8, <2>1 DEF Submitted, Released, CopyIsCurrent, Owns, HoldsLease
  <2> QED
    BY <2>1, <2>2, <2>3, OthersStaySound
<1>9. ASSUME NEW s \in Snapshots, GivenUp(s)
      PROVE  JobsAreSound'
  <2> DEFINE r == Exhausted(job[s])
  <2>1. r \in Row /\ r.status = "failed" /\ r.attempts = job[s].attempts
    BY <1>1, ExhaustedIsRow, TakenBackRowsAre
  <2>2. job'[s] = r /\ RowMoves(s, r) /\ work' = work
    BY <1>3, <1>9 DEF GivenUp, RowMoves
  <2> HIDE DEF r
  <2>3. JobIsSound(s)'
    BY <1>1, <2>1, <2>2 DEF JobIsSound
  <2>4. \A v \in Workers : work[v].of = s => CopyIsCurrent(v)'
    BY <2>1, <2>2 DEF CopyIsCurrent, Owns, HoldsLease
  <2> QED
    BY <2>1, <2>2, <2>3, <2>4, OthersStaySound
<1>10. ASSUME NEW s \in Snapshots, Aged(s)
       PROVE  JobsAreSound'
  <2> DEFINE r == [job[s] EXCEPT !.expires = 0]
  <2>1. /\ r \in Row /\ r.status = "running" /\ r.attempts = job[s].attempts
        /\ LeaseIsExpired(r.expires, 0)
    BY <1>1, <1>10 DEF Aged, Row, LeaseIsExpired
  <2>2. job'[s] = r /\ RowMoves(s, r) /\ work' = work
    BY <1>3, <1>10 DEF Aged, RowMoves
  <2> HIDE DEF r
  <2>3. JobIsSound(s)'
    BY <1>1, <2>1, <2>2 DEF JobIsSound
  <2>4. \A v \in Workers : work[v].of = s => CopyIsCurrent(v)'
    BY <2>1, <2>2 DEF CopyIsCurrent, Owns, HoldsLease
  <2> QED
    BY <2>1, <2>2, <2>3, <2>4, OthersStaySound
<1>11. CASE Sweep
  <2>1. \A u \in Snapshots : job'[u] = IF Lapsed(job[u], 0) THEN Recovered(job[u]) ELSE job[u]
    BY <1>11 DEF Sweep
  <2>2. \A u \in Snapshots : JobIsSound(u)'
    BY <1>1, <2>1, TakenBackRowsAre DEF JobIsSound, HasAttemptLeft
  <2>3. \A v \in Workers : CopyIsCurrent(v)'
    <3>1. ASSUME NEW v \in Workers, Owns(v)'
          PROVE  job'[work[v].of] = job[work[v].of]
      <4>1. work' = work
        BY <1>11 DEF Sweep
      <4>2. job'[work[v].of].status = "running"
        BY <3>1, <4>1 DEF Owns, HoldsLease
      <4> QED
        BY <1>1, <1>2, <2>1, <4>2, TakenBackRowsAre
    <3> QED
      BY <1>2, <1>11, <3>1 DEF Sweep, CopyIsCurrent, Owns, At
  <2> QED
    BY <2>2, <2>3 DEF JobsAreSound
<1> QED
  BY <1>4, <1>5, <1>6, <1>7, <1>8, <1>9, <1>10, <1>11 DEF Kinds, Taking, Ending, Moving

-----------------------------------------------------------------------------

LEMMA MappedFunctions ==
  /\ PromisedState = [s \in Snapshots |-> PromisedState[s]]
  /\ PromisedTries = [s \in Snapshots |-> PromisedTries[s]]
  /\ PromisedLive = [s \in Snapshots |-> PromisedLive[s]]
  /\ PromisedState' = [s \in Snapshots |-> PromisedState'[s]]
  /\ PromisedTries' = [s \in Snapshots |-> PromisedTries'[s]]
  /\ PromisedLive' = [s \in Snapshots |-> PromisedLive'[s]]
BY DEF PromisedState, PromisedTries, PromisedLive

LEMMA EntitledOnly ==
  ASSUME NEW s \in Snapshots
  PROVE  /\ PromisedLive[s] = {w \in Workers : Entitled(w, s)}
         /\ PromisedLive'[s] = {w \in Workers : Entitled(w, s)'}
         /\ PromisedLive[s] \subseteq {job[s].owner}
         /\ job[s].status # "running" \/ LeaseIsExpired(job[s].expires, 0) => PromisedLive[s] = {}
         /\ PromisedLive'[s] \subseteq {job'[s].owner}
         /\ job'[s].status # "running" \/ LeaseIsExpired(job'[s].expires, 0) => PromisedLive'[s] = {}
BY DEF PromisedLive, Entitled, HoldsLease

(* Steps that move the job of s alone, and only a worker that had no other. *)
LEMMA MappedMove ==
  ASSUME IInv, NEW s \in Snapshots, NEW r, RowMoves(s, r),
         \A v \in Workers : work'[v] = work[v] \/ ((At(v, "idle") \/ work[v].of = s)
                                                   /\ (At(v, "idle")' \/ work'[v].of = s))
  PROVE  /\ PromisedState' = [PromisedState EXCEPT ![s] = PromisedOf(r)]
         /\ PromisedTries' = [PromisedTries EXCEPT ![s] = PromisedTriesOf(r)]
         /\ PromisedLive' = [PromisedLive EXCEPT ![s] = PromisedLive'[s]]
         /\ job'[s] = r
<1>1. job'[s] = r /\ \A u \in Snapshots : u # s => job'[u] = job[u]
  BY DEF RowMoves, IInv, TypeOK
<1>2. \A u \in Snapshots : u # s =>
        PromisedState'[u] = PromisedState[u] /\ PromisedTries'[u] = PromisedTries[u]
  BY <1>1 DEF PromisedState, PromisedTries
<1>3. PromisedState'[s] = PromisedOf(r) /\ PromisedTries'[s] = PromisedTriesOf(r)
  BY <1>1 DEF PromisedState, PromisedTries
<1>4. ASSUME NEW u \in Snapshots, u # s
      PROVE  PromisedLive'[u] = PromisedLive[u]
  <2>1. \A v \in Workers : Entitled(v, u)' <=> Entitled(v, u)
    BY <1>1, <1>4 DEF Entitled, At
  <2> QED
    BY <2>1, EntitledOnly
<1> QED
  BY <1>1, <1>2, <1>3, <1>4, MappedFunctions, OneValueChanges

LEMMA KindsKeepPromise ==
  ASSUME IInv, IInv', JobsAreSound, Kinds
  PROVE  [Promise!PNext]_Promise!pvars
<1>1. \A u \in Snapshots : /\ job[u] \in Row /\ JobIsSound(u)
                           /\ job[u].attempts \in Nat
                           /\ PromisedState[u] = PromisedOf(job[u])
                           /\ PromisedTries[u] = PromisedTriesOf(job[u])
                           /\ job[u].status \notin Terminal => PromisedTries[u] = job[u].attempts
  BY DEF IInv, TypeOK, Row, JobsAreSound, PromisedState, PromisedTries, PromisedTriesOf
<1>2. \A v \in Workers : work[v].of \in Snapshots
  BY DEF IInv, TypeOK, Tasks
<1>3. CASE Aside
  <2>1. UNCHANGED <<PromisedState, PromisedTries>>
    BY <1>3 DEF Aside, PromisedState, PromisedTries, PromisedOf
  <2>2. \A u \in Snapshots, v \in Workers : Entitled(v, u)' => Entitled(v, u)
    BY <1>3 DEF Aside, Goes, Entitled, At
  <2>3. \A u \in Snapshots : PromisedLive'[u] \subseteq PromisedLive[u]
                             /\ PromisedLive'[u] \in SUBSET Workers
    BY <2>2, EntitledOnly
  <2>4. Promise!Lapse
    BY <2>1, <2>3, MappedFunctions DEF Promise!Lapse
  <2> QED
    BY <2>4 DEF Promise!PNext
<1>4. ASSUME NEW w \in Workers, NEW s \in Snapshots, Taken(w, s)
      PROVE  Promise!Start(s, w)
  <2> DEFINE r == Claimed(job[s], w, 0)
  <2>1. r.status = "running" /\ r.owner = w /\ r.attempts = job[s].attempts + 1
    BY <1>1, ClaimedRowIs
  <2>2. RowMoves(s, r)
    BY <1>4 DEF Taken
  <2> HIDE DEF r
  <2>3. /\ PromisedState[s] \in {"waiting", "held"} /\ PromisedLive[s] = {}
        /\ PromisedTries[s] = job[s].attempts
    BY <1>1, <1>4, EntitledOnly DEF Taken, Claimable, Lapsed, PromisedOf, Terminal
  <2>4. PromisedTries[s] < MaxAttempts
    BY <1>4, <2>3 DEF Taken, HasAttemptLeft
  <2>5. /\ PromisedState' = [PromisedState EXCEPT ![s] = "held"]
        /\ PromisedTries' = [PromisedTries EXCEPT ![s] = @ + 1]
        /\ PromisedLive' = [PromisedLive EXCEPT ![s] = PromisedLive'[s]]
        /\ job'[s] = r
    <3>1. PromisedOf(r) = "held" /\ PromisedTriesOf(r) = PromisedTries[s] + 1
      BY <2>1, <2>3 DEF PromisedOf, PromisedTriesOf, Terminal
    <3> QED
      BY <1>4, <2>1, <2>2, <3>1, MappedMove DEF Taken, Others, At
  <2>6. PromisedLive'[s] \in SUBSET {w}
    BY <2>1, <2>5, EntitledOnly
  <2> QED
    BY <2>3, <2>4, <2>5, <2>6 DEF Promise!Start
<1>5. ASSUME NEW w \in Workers, NEW r \in Row, Saved(w, r)
      PROVE  Promise!Renew(work[w].of, w)
  <2> DEFINE s == work[w].of
  <2>1. /\ s \in Snapshots /\ job[s].status = "running" /\ job[s].owner = w
        /\ r.status = "running" /\ r.owner = w /\ r.attempts = job[s].attempts
        /\ RowMoves(s, r)
    BY <1>2, <1>5 DEF Saved, Owns, HoldsLease
  <2>2. /\ PromisedState[s] = "held" /\ PromisedOf(r) = "held"
        /\ PromisedTriesOf(r) = PromisedTries[s]
    BY <1>1, <2>1 DEF PromisedOf, PromisedTriesOf
  <2>3. /\ PromisedState' = [PromisedState EXCEPT ![s] = PromisedState[s]]
        /\ PromisedTries' = [PromisedTries EXCEPT ![s] = PromisedTries[s]]
        /\ PromisedLive' = [PromisedLive EXCEPT ![s] = PromisedLive'[s]]
        /\ job'[s] = r
    BY <1>1, <1>5, <2>1, <2>2, MappedMove DEF Saved, Others, At
  <2>4. UNCHANGED <<PromisedState, PromisedTries>>
    BY <2>1, <2>3, MappedFunctions
  <2>5. PromisedLive[s] \subseteq {w} /\ PromisedLive'[s] \in SUBSET {w}
    BY <2>1, <2>3, EntitledOnly
  <2> QED
    BY <2>2, <2>3, <2>4, <2>5 DEF Promise!Renew
<1>6. ASSUME NEW w \in Workers, NEW r \in Row, Ended(w, r)
      PROVE  Promise!Settle(work[w].of, w)
  <2> DEFINE s == work[w].of
  <2>1. /\ s \in Snapshots /\ job[s].status = "running" /\ job[s].owner = w
        /\ r.status \in {"completed", "failed"} /\ r.attempts = job[s].attempts
        /\ RowMoves(s, r)
    BY <1>2, <1>6 DEF Ended, Owns, HoldsLease
  <2>2. /\ PromisedState[s] = "held" /\ PromisedOf(r) \in {"done", "dead"}
        /\ PromisedTriesOf(r) = 0
    BY <1>1, <2>1 DEF PromisedOf, PromisedTriesOf, Terminal
  <2>3. /\ PromisedState' = [PromisedState EXCEPT ![s] = PromisedOf(r)]
        /\ PromisedTries' = [PromisedTries EXCEPT ![s] = 0]
        /\ PromisedLive' = [PromisedLive EXCEPT ![s] = PromisedLive'[s]]
        /\ job'[s] = r
    BY <1>1, <1>6, <2>1, <2>2, MappedMove DEF Ended, Others, At
  <2>4. PromisedTries' = [PromisedTries EXCEPT ![s] =
                            IF PromisedOf(r) = "waiting" THEN @ ELSE 0]
    BY <2>2, <2>3
  <2>5. PromisedLive[s] \subseteq {w} /\ PromisedLive'[s] = {}
    BY <2>1, <2>3, EntitledOnly
  <2>6. PromisedLive' = [PromisedLive EXCEPT ![s] = {}]
    BY <2>3, <2>5
  <2> QED
    BY <2>2, <2>3, <2>4, <2>5, <2>6 DEF Promise!Settle
<1>7. ASSUME NEW s \in Snapshots, NEW r \in Row, Submitted(s, r)
      PROVE  Promise!Accept(s)
  <2>1. /\ job[s].status = "absent" /\ r.status = "scheduled" /\ RowMoves(s, r)
        /\ work' = work /\ r.attempts = job[s].attempts
    BY <1>1, <1>7 DEF Submitted, JobIsSound
  <2>2. /\ PromisedState[s] = "absent" /\ PromisedOf(r) = "waiting"
        /\ PromisedTriesOf(r) = PromisedTries[s]
    BY <1>1, <2>1 DEF PromisedOf, PromisedTriesOf, Terminal
  <2>3. /\ PromisedState' = [PromisedState EXCEPT ![s] = "waiting"]
        /\ PromisedTries' = [PromisedTries EXCEPT ![s] = PromisedTries[s]]
        /\ PromisedLive' = [PromisedLive EXCEPT ![s] = PromisedLive'[s]]
        /\ job'[s] = r
    BY <1>1, <2>1, <2>2, MappedMove
  <2>4. PromisedLive[s] = {} /\ PromisedLive'[s] = {}
    BY <2>1, <2>3, EntitledOnly
  <2>5. UNCHANGED <<PromisedTries, PromisedLive>>
    BY <2>3, <2>4, MappedFunctions
  <2> QED
    BY <2>2, <2>3, <2>5 DEF Promise!Accept
<1>8. ASSUME NEW s \in Snapshots, NEW r \in Row, Released(s, r)
      PROVE  UNCHANGED Promise!pvars
  <2>1. /\ job[s].status = "scheduled" /\ r.status = "queued" /\ RowMoves(s, r)
        /\ work' = work /\ r.attempts = job[s].attempts
    BY <1>8 DEF Released
  <2>2. /\ PromisedState[s] = "waiting" /\ PromisedOf(r) = "waiting"
        /\ PromisedTriesOf(r) = PromisedTries[s]
    BY <1>1, <2>1 DEF PromisedOf, PromisedTriesOf, Terminal
  <2>3. /\ PromisedState' = [PromisedState EXCEPT ![s] = PromisedState[s]]
        /\ PromisedTries' = [PromisedTries EXCEPT ![s] = PromisedTries[s]]
        /\ PromisedLive' = [PromisedLive EXCEPT ![s] = PromisedLive'[s]]
        /\ job'[s] = r
    BY <1>1, <2>1, <2>2, MappedMove
  <2>4. PromisedLive[s] = {} /\ PromisedLive'[s] = {}
    BY <2>1, <2>3, EntitledOnly
  <2> QED
    BY <2>3, <2>4, MappedFunctions DEF Promise!pvars
<1>9. ASSUME NEW s \in Snapshots, GivenUp(s)
      PROVE  Promise!Reclaim
  <2> DEFINE r == Exhausted(job[s])
  <2>1. r.status = "failed" /\ r.attempts = job[s].attempts
    BY <1>1, TakenBackRowsAre
  <2>2. RowMoves(s, r) /\ work' = work
    BY <1>9 DEF GivenUp
  <2> HIDE DEF r
  <2>3. /\ job[s].status = "running" /\ LeaseIsExpired(job[s].expires, 0)
        /\ ~HasAttemptLeft(job[s])
    BY <1>1, <1>9 DEF GivenUp, JobIsSound, Claimable, Lapsed
  <2>4. /\ PromisedState[s] = "held" /\ PromisedOf(r) = "dead" /\ PromisedLive[s] = {}
        /\ PromisedTriesOf(r) = 0
        /\ PromisedTries[s] >= MaxAttempts /\ ~(PromisedTries[s] < MaxAttempts)
    BY <1>1, <2>1, <2>3, AttemptsAssumption, EntitledOnly
    DEF PromisedOf, PromisedTriesOf, Terminal, HasAttemptLeft
  <2>5. /\ PromisedState' = [PromisedState EXCEPT ![s] = "dead"]
        /\ PromisedTries' = [PromisedTries EXCEPT ![s] = 0]
        /\ PromisedLive' = [PromisedLive EXCEPT ![s] = PromisedLive'[s]]
        /\ job'[s] = r
    BY <1>1, <2>1, <2>2, <2>4, MappedMove
  <2>6. PromisedLive'[s] = {}
    BY <2>1, <2>5, EntitledOnly
  <2>7. /\ UNCHANGED PromisedLive
        /\ PromisedTries' = [u \in Snapshots |->
             IF u \in {s} /\ PromisedTries[u] >= MaxAttempts THEN 0 ELSE PromisedTries[u]]
    BY <2>4, <2>5, <2>6, MappedFunctions
  <2>8. PromisedState' = [u \in Snapshots |->
          IF u \notin {s} THEN PromisedState[u]
          ELSE IF PromisedTries[u] < MaxAttempts THEN "waiting" ELSE "dead"]
    BY <2>4, <2>5, MappedFunctions
  <2>9. {s} \in SUBSET {u \in Snapshots : PromisedState[u] = "held" /\ PromisedLive[u] = {}}
    BY <2>4
  <2> QED
    BY <2>7, <2>8, <2>9 DEF Promise!Reclaim
<1>10. ASSUME NEW s \in Snapshots, Aged(s)
       PROVE  Promise!Lapse
  <2> DEFINE r == [job[s] EXCEPT !.expires = 0]
  <2>1. /\ job[s].status = "running" /\ r.status = "running"
        /\ r.attempts = job[s].attempts /\ LeaseIsExpired(r.expires, 0)
    BY <1>1, <1>10 DEF Aged, Row, LeaseIsExpired
  <2>2. RowMoves(s, r) /\ work' = work
    BY <1>10 DEF Aged
  <2> HIDE DEF r
  <2>3. /\ PromisedState' = [PromisedState EXCEPT ![s] = PromisedState[s]]
        /\ PromisedTries' = [PromisedTries EXCEPT ![s] = PromisedTries[s]]
        /\ PromisedLive' = [PromisedLive EXCEPT ![s] = PromisedLive'[s]]
        /\ job'[s] = r
    <3>1. PromisedOf(r) = PromisedState[s] /\ PromisedTriesOf(r) = PromisedTries[s]
      BY <1>1, <2>1 DEF PromisedOf, PromisedTriesOf
    <3> QED
      BY <2>2, <3>1, MappedMove
  <2>4. PromisedLive'[s] = {}
    BY <2>1, <2>3, EntitledOnly
  <2>5. \A u \in Snapshots : PromisedLive'[u] \subseteq PromisedLive[u]
    BY <2>3, <2>4, MappedFunctions
  <2>6. \A u \in Snapshots : PromisedLive'[u] \in SUBSET Workers
    BY EntitledOnly
  <2>7. UNCHANGED <<PromisedState, PromisedTries>>
    BY <2>3, MappedFunctions
  <2> QED
    BY <2>5, <2>6, <2>7, MappedFunctions DEF Promise!Lapse
<1>11. CASE Sweep
  <2> DEFINE lapsed == {s \in Snapshots : Lapsed(job[s], 0)}
  <2>1. /\ \A u \in Snapshots : job'[u] = IF u \in lapsed THEN Recovered(job[u]) ELSE job[u]
        /\ work' = work
    BY <1>11 DEF Sweep
  <2>2. \A u \in lapsed : PromisedState[u] = "held" /\ PromisedLive[u] = {}
    BY <1>1, EntitledOnly DEF Lapsed, PromisedOf
  <2>3. \A u \in lapsed : /\ PromisedTries'[u] =
                               IF PromisedTries[u] >= MaxAttempts THEN 0 ELSE PromisedTries[u]
                          /\ PromisedState'[u] = IF PromisedTries[u] < MaxAttempts
                                                 THEN "waiting" ELSE "dead"
                          /\ PromisedLive'[u] = {}
    <3>1. ASSUME NEW u \in lapsed
          PROVE  /\ job'[u].attempts = job[u].attempts
                 /\ job'[u].status = IF HasAttemptLeft(job[u]) THEN "queued" ELSE "failed"
      BY <1>1, <2>1, TakenBackRowsAre
    <3>2. ASSUME NEW u \in lapsed
          PROVE  PromisedTries[u] = job[u].attempts
      BY <1>1 DEF Lapsed, Terminal
    <3> QED
      BY <1>1, <3>1, <3>2, AttemptsAssumption, EntitledOnly
      DEF PromisedState, PromisedTries, PromisedTriesOf, Terminal, PromisedOf, HasAttemptLeft
  <2>4. \A u \in Snapshots : u \notin lapsed =>
          /\ PromisedTries'[u] = PromisedTries[u] /\ PromisedState'[u] = PromisedState[u]
          /\ PromisedLive'[u] = PromisedLive[u]
    BY <2>1 DEF PromisedState, PromisedTries, PromisedOf, PromisedLive, Entitled, At
  <2>5. /\ UNCHANGED PromisedLive
        /\ PromisedTries' = [u \in Snapshots |->
             IF u \in lapsed /\ PromisedTries[u] >= MaxAttempts THEN 0 ELSE PromisedTries[u]]
    <3>1. \A u \in Snapshots : PromisedLive'[u] = PromisedLive[u]
      BY <2>2, <2>3, <2>4
    <3>2. \A u \in Snapshots :
            PromisedTries'[u] = IF u \in lapsed /\ PromisedTries[u] >= MaxAttempts THEN 0
                                ELSE PromisedTries[u]
      BY <2>3, <2>4
    <3> HIDE DEF lapsed
    <3> QED
      BY <3>1, <3>2, MappedFunctions
  <2>6. PromisedState' = [u \in Snapshots |->
          IF u \notin lapsed THEN PromisedState[u]
          ELSE IF PromisedTries[u] < MaxAttempts THEN "waiting" ELSE "dead"]
    BY <2>3, <2>4, MappedFunctions
  <2>7. lapsed \in SUBSET {u \in Snapshots : PromisedState[u] = "held" /\ PromisedLive[u] = {}}
    BY <2>2
  <2> QED
    BY <2>5, <2>6, <2>7 DEF Promise!Reclaim, Promise!PNext
<1>12. CASE Taking
  BY <1>4, <1>12 DEF Taking, Promise!PNext
<1>13. CASE Ending
  BY <1>2, <1>5, <1>6, <1>13 DEF Ending, Promise!PNext
<1>14. CASE Moving
  BY <1>7, <1>8, <1>9, <1>10, <1>14 DEF Moving, Promise!PNext
<1> QED
  BY <1>3, <1>11, <1>12, <1>13, <1>14 DEF Kinds

LEMMA InitKeepsPromise == Init => Promise!PInit /\ JobsAreSound
<1> SUFFICES ASSUME Init PROVE Promise!PInit /\ JobsAreSound
  OBVIOUS
<1>1. \A w \in Workers : At(w, "idle")
  BY IdleIsTask DEF Init, At
<1>2. \A s \in Snapshots : job[s].status = "absent" /\ job[s].attempts = 0
  BY DEF Init, NoRow
<1>3. JobsAreSound
  BY <1>1, <1>2, AttemptsAssumption DEF JobsAreSound, JobIsSound, CopyIsCurrent
<1>4. Promise!PInit
  BY <1>1, <1>2 DEF Promise!PInit, PromisedState, PromisedTries, PromisedTriesOf, PromisedLive, Entitled,
     PromisedOf
<1> QED
  BY <1>3, <1>4

(* release_scheduled_snapshot_delete_jobs, process_snapshot_delete and the *)
(* sweep keep the promise of the job layer, through any number of losses,  *)
(* lapses and duplicate deliveries.                                        *)
THEOREM DeletionsKeepThePromise == Spec => KeepsPromise
<1>1. Spec => []JobsAreSound
  BY InitKeepsPromise, EveryStepIsAKind, StaySound, InductiveInvariant, PTL DEF Spec
<1>2. IInv /\ IInv' /\ JobsAreSound /\ [Next]_vars => [Promise!PNext]_Promise!pvars
  BY EveryStepIsAKind, KindsKeepPromise
<1> QED
  BY <1>1, <1>2, InitKeepsPromise, InductiveInvariant, PTL
     DEF Spec, KeepsPromise, Promise!PSpec

=============================================================================
