--------------------------- MODULE JobLeaseProofs ---------------------------
(***************************************************************************)
(* JobLease is correct for every number of workers, jobs and attempts and  *)
(* every lease length.  The inductive invariant adds one fact to the       *)
(* checked invariants: a deadline that has not passed is covered by the    *)
(* lease stored in the row (DeadlineCovered).  The second half shows that  *)
(* each action is an action of JobPromise, or a stutter.                   *)
(***************************************************************************)
EXTENDS JobLease, JobRowProofs

(* The strengthening of EntitledWorkerOwnsRow that is inductive: it also   *)
(* compares the remembered deadline with the stored lease, which is what a *)
(* claim or a sweep by somebody else tests.                                *)
DeadlineCovered ==
  \A w \in Workers, j \in Jobs :
    task[w] = j =>
      \/ until[w] <= now
      \/ /\ row[j].status = "running"
         /\ row[j].owner = w
         /\ until[w] <= row[j].expires

IInv ==
  /\ JobTypeOK
  /\ DeadlineCovered
  /\ OwnersCopyIsCurrent
  /\ QueuedJobHasAttemptLeft

-----------------------------------------------------------------------------

LEMMA InitEstablishesIInv == JobInit => IInv
<1> SUFFICES ASSUME JobInit PROVE IInv
  OBVIOUS
<1>1. JobTypeOK
  BY NewRowIsRow, TimeAssumption DEF JobInit, JobTypeOK, NoLease
<1>2. DeadlineCovered
  BY JobsAssumption DEF JobInit, DeadlineCovered
<1>3. OwnersCopyIsCurrent
  BY JobsAssumption DEF JobInit, OwnersCopyIsCurrent
<1>4. QueuedJobHasAttemptLeft
  BY AttemptsAssumption DEF JobInit, QueuedJobHasAttemptLeft, NoRow
<1> QED
  BY <1>1, <1>2, <1>3, <1>4 DEF IInv

LEMMA SubmitPreserves ==
  ASSUME IInv, NEW j \in Jobs, Submit(j)
  PROVE  IInv'
<1>1. JobTypeOK'
  BY NewRowIsRow DEF IInv, JobTypeOK, Submit
<1>2. row[j].status = "absent" /\ row'[j] = NewRow("queued")
  BY DEF IInv, JobTypeOK, Submit
<1>3. \A k \in Jobs : k # j => row'[k] = row[k]
  BY DEF IInv, JobTypeOK, Submit
<1>4. UNCHANGED <<now, task, copy, until>>
  BY DEF Submit
<1>5. NewRow("queued").status = "queued" /\ NewRow("queued").attempts = 0
  BY DEF NewRow, NoRow
<1>6. DeadlineCovered'
  BY <1>2, <1>3, <1>4 DEF IInv, DeadlineCovered
<1>7. OwnersCopyIsCurrent'
  BY <1>2, <1>3, <1>4, <1>5 DEF IInv, OwnersCopyIsCurrent
<1>8. QueuedJobHasAttemptLeft'
  BY <1>2, <1>3, <1>5, AttemptsAssumption
     DEF IInv, QueuedJobHasAttemptLeft, HasAttemptLeft
<1> QED
  BY <1>1, <1>6, <1>7, <1>8 DEF IInv

(* A step that only takes row j out of the hands of anybody: the row was   *)
(* not running under a deadline that is still open.                        *)
LEMMA TakingARowPreserves ==
  ASSUME IInv, NEW j \in Jobs, NEW r \in Row, NEW t \in 0..now,
         row[j].status = "running" => Lapsed(row[j], t),
         r.status # "running",
         r.attempts = row[j].attempts,
         r.status = "queued" => HasAttemptLeft(r),
         row' = [row EXCEPT ![j] = r],
         UNCHANGED <<now, task, copy, stamp, until>>
  PROVE  IInv'
<1>1. JobTypeOK'
  BY DEF IInv, JobTypeOK
<1>2. row'[j] = r /\ \A k \in Jobs : k # j => row'[k] = row[k]
  BY DEF IInv, JobTypeOK
<1>3. DeadlineCovered'
  <2> SUFFICES ASSUME NEW w \in Workers, task[w] = j
               PROVE  until[w] <= now
    BY <1>2 DEF IInv, DeadlineCovered
  <2>1. CASE row[j].status # "running"
    BY <2>1 DEF IInv, DeadlineCovered
  <2>2. CASE row[j].status = "running"
    <3>1. row[j].expires <= t /\ row[j].expires \in Int /\ until[w] \in Int
      BY <2>2, LeaseAssumption DEF Lapsed, LeaseIsExpired, IInv, JobTypeOK, Row, NoLease
    <3>2. t <= now /\ t \in Int /\ now \in Int
      BY DEF IInv, JobTypeOK
    <3> QED
      BY <3>1, <3>2 DEF IInv, DeadlineCovered
  <2> QED
    BY <2>1, <2>2
<1>4. OwnersCopyIsCurrent'
  BY <1>2 DEF IInv, OwnersCopyIsCurrent
<1>5. QueuedJobHasAttemptLeft'
  BY <1>2 DEF IInv, QueuedJobHasAttemptLeft
<1> QED
  BY <1>1, <1>3, <1>4, <1>5 DEF IInv

LEMMA CancelPreserves ==
  ASSUME IInv, NEW j \in Jobs, Cancel(j)
  PROVE  IInv'
<1> DEFINE r == Canceled(row[j])
<1>1. row[j] \in Row /\ r \in Row /\ 0 \in 0..now
  BY CanceledIsRow DEF IInv, JobTypeOK
<1>2. row[j].status # "running"
  BY DEF Cancel, Cancelable
<1>3. r.status = "canceled" /\ r.attempts = row[j].attempts
  BY <1>1 DEF Canceled, Row
<1>4. row' = [row EXCEPT ![j] = r] /\ UNCHANGED <<now, task, copy, stamp, until>>
  BY DEF Cancel, IInv, JobTypeOK
<1> HIDE DEF r
<1> QED
  BY <1>1, <1>2, <1>3, <1>4, TakingARowPreserves

LEMMA ClaimExhaustedPreserves ==
  ASSUME IInv, NEW w \in Workers, NEW j \in Jobs, NEW t \in 0..MaxTime,
         ClaimExhausted(w, j, t)
  PROVE  IInv'
<1> DEFINE r == Exhausted(row[j])
<1>1. row[j] \in Row /\ r \in Row
  BY ExhaustedIsRow DEF IInv, JobTypeOK
<1>2. t \in 0..now /\ (row[j].status = "running" => Lapsed(row[j], t))
  BY DEF ClaimExhausted, Claimable
<1>3. r.status = "failed" /\ r.attempts = row[j].attempts
  BY <1>1 DEF Exhausted, Row
<1>4. row' = [row EXCEPT ![j] = r] /\ UNCHANGED <<now, task, copy, stamp, until>>
  BY DEF ClaimExhausted, IInv, JobTypeOK
<1> HIDE DEF r
<1> QED
  BY <1>1, <1>2, <1>3, <1>4, TakingARowPreserves

(* The same for a set of rows: the sweep.                                  *)
LEMMA SweepPreserves ==
  ASSUME IInv, NEW t \in 0..MaxTime, Sweep(t)
  PROVE  IInv'
<1> PICK S \in SUBSET {j \in Jobs : Lapsed(row[j], t)} :
           row' = [j \in Jobs |-> IF j \in S THEN Recovered(row[j]) ELSE row[j]]
  BY DEF Sweep
<1>1. t \in 0..now /\ UNCHANGED <<now, task, copy, stamp, until>>
  BY DEF Sweep
<1>2. \A j \in Jobs : /\ row[j] \in Row
                      /\ Recovered(row[j]) \in Row
                      /\ row'[j] = IF j \in S THEN Recovered(row[j]) ELSE row[j]
  BY RecoveredIsRow DEF IInv, JobTypeOK
<1>3. ASSUME NEW j \in Jobs
      PROVE  /\ Recovered(row[j]).status \in {"queued", "failed"}
             /\ Recovered(row[j]).attempts = row[j].attempts
             /\ Recovered(row[j]).status = "queued" => HasAttemptLeft(row[j])
  BY <1>2 DEF Recovered, Exhausted, Row
<1>4. JobTypeOK'
  BY <1>1, <1>2 DEF IInv, JobTypeOK
<1>5. DeadlineCovered'
  <2> SUFFICES ASSUME NEW w \in Workers, NEW j \in S, task[w] = j
               PROVE  until[w] <= now
    BY <1>1, <1>2 DEF IInv, DeadlineCovered
  <2>1. row[j].expires <= t /\ row[j].expires \in Int /\ until[w] \in Int
    BY DEF Lapsed, LeaseIsExpired, IInv, JobTypeOK, Row, NoLease
  <2>2. t <= now /\ t \in Int /\ now \in Int
    BY <1>1 DEF IInv, JobTypeOK
  <2> QED
    BY <2>1, <2>2 DEF IInv, DeadlineCovered
<1>6. OwnersCopyIsCurrent'
  BY <1>1, <1>2, <1>3 DEF IInv, OwnersCopyIsCurrent
<1>7. QueuedJobHasAttemptLeft'
  BY <1>2, <1>3 DEF IInv, QueuedJobHasAttemptLeft, HasAttemptLeft
<1> QED
  BY <1>4, <1>5, <1>6, <1>7 DEF IInv

LEMMA ClaimPreserves ==
  ASSUME IInv, NEW w \in Workers, NEW j \in Jobs, NEW t \in 0..MaxTime,
         Claim(w, j, t)
  PROVE  IInv'
<1> DEFINE r == Claimed(row[j], w, t)
<1>1. row[j] \in Row /\ r \in Row /\ t \in Nat
  BY ClaimedIsRow DEF IInv, JobTypeOK
<1>2. /\ r.status = "running"
      /\ r.owner = w
      /\ r.attempts = row[j].attempts + 1
      /\ r.expires = t + LeaseTicks
  BY <1>1 DEF Claimed, Row
<1>3. /\ task[w] = NoTask
      /\ t \in 0..now
      /\ row[j].status = "queued" \/ Lapsed(row[j], t)
      /\ HasAttemptLeft(row[j])
      /\ row' = [row EXCEPT ![j] = r]
      /\ copy' = [copy EXCEPT ![w] = r]
      /\ until' = [until EXCEPT ![w] = r.expires]
      /\ task' = [task EXCEPT ![w] = j]
      /\ stamp' = [stamp EXCEPT ![w] = t]
      /\ now' = now
  BY DEF Claim, Claimable
<1> HIDE DEF r
<1>4. JobTypeOK'
  BY <1>1, <1>3, NoLeaseIsInt DEF IInv, JobTypeOK, Row
<1>5. /\ row'[j] = r
      /\ \A k \in Jobs : k # j => row'[k] = row[k]
      /\ task'[w] = j /\ copy'[w] = r /\ until'[w] = r.expires
      /\ \A v \in Workers : v # w => /\ task'[v] = task[v]
                                     /\ copy'[v] = copy[v]
                                     /\ until'[v] = until[v]
  BY <1>3 DEF IInv, JobTypeOK
<1>6. DeadlineCovered'
  <2>1. ASSUME NEW v \in Workers, NEW k \in Jobs, task'[v] = k, v # w, k = j
        PROVE  until[v] <= now
    <3>1. task[v] = j
      BY <1>5, <2>1
    <3>2. CASE row[j].status = "queued"
      BY <3>1, <3>2 DEF IInv, DeadlineCovered
    <3>3. CASE Lapsed(row[j], t)
      <4>1. row[j].expires <= t /\ row[j].expires \in Int /\ until[v] \in Int
        BY <3>3, <1>1, NoLeaseIsInt DEF Lapsed, LeaseIsExpired, IInv, JobTypeOK, Row
      <4>2. t <= now /\ t \in Int /\ now \in Int
        BY <1>3 DEF IInv, JobTypeOK
      <4> QED
        BY <3>1, <4>1, <4>2 DEF IInv, DeadlineCovered
    <3> QED
      BY <1>3, <3>2, <3>3
  <2>2. ASSUME NEW v \in Workers, NEW k \in Jobs, task'[v] = k, v # w, k # j
        PROVE  \/ until'[v] <= now'
               \/ /\ row'[k].status = "running"
                  /\ row'[k].owner = v
                  /\ until'[v] <= row'[k].expires
    BY <1>3, <1>5, <2>2 DEF IInv, DeadlineCovered
  <2>3. r.expires <= r.expires
    BY <1>1, NoLeaseIsInt DEF Row
  <2>4. ASSUME NEW k \in Jobs, task'[w] = k
        PROVE  /\ row'[k].status = "running"
               /\ row'[k].owner = w
               /\ until'[w] <= row'[k].expires
    BY <1>2, <1>5, <2>3, <2>4
  <2> SUFFICES ASSUME NEW v \in Workers, NEW k \in Jobs, task'[v] = k
               PROVE  \/ until'[v] <= now'
                      \/ /\ row'[k].status = "running"
                         /\ row'[k].owner = v
                         /\ until'[v] <= row'[k].expires
    BY DEF DeadlineCovered
  <2>5. CASE v = w
    BY <2>4, <2>5
  <2>6. CASE v # w /\ k = j
    BY <1>3, <1>5, <2>1, <2>6
  <2> QED
    BY <2>2, <2>5, <2>6
<1>7. OwnersCopyIsCurrent'
  <2>1. [r EXCEPT !.expires = r.expires] = r
    BY <1>1 DEF Row
  <2> QED
    BY <1>2, <1>5, <2>1 DEF IInv, OwnersCopyIsCurrent
<1>8. QueuedJobHasAttemptLeft'
  <2>1. r.attempts <= MaxAttempts
    BY <1>1, <1>2, <1>3, AttemptsAssumption DEF HasAttemptLeft, Row
  <2> QED
    BY <1>2, <1>5, <2>1 DEF IInv, QueuedJobHasAttemptLeft
<1> QED
  BY <1>4, <1>6, <1>7, <1>8 DEF IInv

LEMMA HeartbeatPreserves ==
  ASSUME IInv, NEW w \in Workers, NEW t \in 0..MaxTime, Heartbeat(w, t)
  PROVE  IInv'
<1> DEFINE j == task[w]
           r == HeartbeatRow(row[j], t)
<1>1. /\ j \in Jobs /\ row[j] \in Row /\ r \in Row /\ t \in Nat
      /\ copy[w] \in Row
  BY HeartbeatIsRow DEF Heartbeat, IInv, JobTypeOK
<1>2. /\ r = [row[j] EXCEPT !.expires = t + LeaseTicks]
      /\ r.status = row[j].status /\ r.owner = row[j].owner
      /\ r.attempts = row[j].attempts /\ r.expires = t + LeaseTicks
  BY <1>1 DEF HeartbeatRow, Row
<1>3. /\ row[j].status = "running" /\ row[j].owner = w
      /\ ~(row[j].expires <= t)
      /\ row' = [row EXCEPT ![j] = r]
      /\ until' = [until EXCEPT ![w] = t + LeaseTicks]
      /\ stamp' = [stamp EXCEPT ![w] = t]
      /\ UNCHANGED <<now, task, copy>>
  BY DEF Heartbeat, HoldsLease, LeaseIsExpired
<1>4. t + LeaseTicks \in Nat
  BY <1>1, LeaseAssumption
<1> HIDE DEF r, j
<1>5. JobTypeOK'
  BY <1>1, <1>3, <1>4 DEF IInv, JobTypeOK
<1>6. /\ row'[j] = r
      /\ \A k \in Jobs : k # j => row'[k] = row[k]
      /\ until'[w] = t + LeaseTicks
      /\ \A v \in Workers : v # w => until'[v] = until[v]
  BY <1>1, <1>3 DEF IInv, JobTypeOK
<1>7. task[w] = j
  BY DEF j
<1>8. DeadlineCovered'
  <2>1. t + LeaseTicks <= r.expires
    BY <1>2, <1>4
  <2>2. ASSUME NEW v \in Workers, NEW k \in Jobs, task[v] = k, v # w
        PROVE  \/ until[v] <= now
               \/ /\ row'[k].status = "running"
                  /\ row'[k].owner = v
                  /\ until[v] <= row'[k].expires
    <3>1. CASE k = j
      BY <1>3, <2>2, <3>1 DEF IInv, DeadlineCovered
    <3>2. CASE k # j
      BY <1>6, <2>2, <3>2 DEF IInv, DeadlineCovered
    <3> QED
      BY <3>1, <3>2
  <2> SUFFICES ASSUME NEW v \in Workers, NEW k \in Jobs, task'[v] = k
               PROVE  \/ until'[v] <= now'
                      \/ /\ row'[k].status = "running"
                         /\ row'[k].owner = v
                         /\ until'[v] <= row'[k].expires
    BY DEF DeadlineCovered
  <2>3. CASE v = w
    BY <1>2, <1>3, <1>6, <1>7, <2>1, <2>3
  <2>4. CASE v # w
    BY <1>3, <1>6, <2>2, <2>4
  <2> QED
    BY <2>3, <2>4
<1>9. OwnersCopyIsCurrent'
  <2>1. [copy[w] EXCEPT !.expires = row[j].expires] = row[j]
    BY <1>1, <1>3, <1>7 DEF IInv, OwnersCopyIsCurrent
  <2>2. [copy[w] EXCEPT !.expires = r.expires] = r
    BY <1>1, <1>2, <2>1 DEF Row
  <2> QED
    BY <1>1, <1>2, <1>3, <1>6, <1>7, <2>2 DEF IInv, OwnersCopyIsCurrent
<1>10. QueuedJobHasAttemptLeft'
  BY <1>2, <1>6 DEF IInv, QueuedJobHasAttemptLeft, HasAttemptLeft
<1> QED
  BY <1>5, <1>8, <1>9, <1>10 DEF IInv

LEMMA SavePhasePreserves ==
  ASSUME IInv, NEW w \in Workers, NEW t \in 0..MaxTime, NEW p \in Phases,
         SavePhase(w, t, p)
  PROVE  IInv'
<1> DEFINE j == task[w]
           c == [copy[w] EXCEPT !.phase = p]
           r == SavedOver(row[j], c)
<1>1. /\ j \in Jobs /\ row[j] \in Row /\ copy[w] \in Row /\ t \in Nat
      /\ row[j].status = "running" /\ row[j].owner = w
  BY DEF SavePhase, HoldsLease, IInv, JobTypeOK
<1>2. [copy[w] EXCEPT !.expires = row[j].expires] = row[j]
  BY <1>1 DEF IInv, OwnersCopyIsCurrent
<1>3. /\ copy[w].status = "running" /\ copy[w].owner = w
      /\ copy[w].attempts = row[j].attempts
  BY <1>1, <1>2 DEF Row
<1>4. c \in Row /\ r \in Row
  BY <1>1, SavedOverIsRow DEF Row
<1>5. /\ r.status = "running" /\ r.owner = w
      /\ r.attempts = row[j].attempts
      /\ r.expires = LaterOf(copy[w].expires, row[j].expires)
  BY <1>1, <1>3 DEF SavedOver, Row
<1>6. row[j].expires <= r.expires
  BY <1>1, <1>5, NoLeaseIsInt DEF LaterOf, Row
<1>7. /\ row' = [row EXCEPT ![j] = r]
      /\ copy' = [copy EXCEPT ![w] = r]
      /\ stamp' = [stamp EXCEPT ![w] = t]
      /\ UNCHANGED <<now, task, until>>
      /\ task[w] = j
  BY DEF SavePhase
<1> HIDE DEF r, c, j
<1>8. /\ row'[j] = r
      /\ \A k \in Jobs : k # j => row'[k] = row[k]
      /\ copy'[w] = r
      /\ \A v \in Workers : v # w => copy'[v] = copy[v]
  BY <1>1, <1>7 DEF IInv, JobTypeOK
<1>9. JobTypeOK'
  BY <1>1, <1>4, <1>7 DEF IInv, JobTypeOK
<1>10. DeadlineCovered'
  <2>1. row[j].expires \in Int /\ r.expires \in Int /\ until[w] \in Int
    BY <1>1, <1>4, NoLeaseIsInt DEF IInv, JobTypeOK, Row
  <2> QED
    BY <1>1, <1>5, <1>6, <1>7, <1>8, <2>1 DEF IInv, DeadlineCovered
<1>11. OwnersCopyIsCurrent'
  <2>1. [r EXCEPT !.expires = r.expires] = r
    BY <1>4 DEF Row
  <2> QED
    BY <1>1, <1>5, <1>7, <1>8, <2>1 DEF IInv, OwnersCopyIsCurrent
<1>12. QueuedJobHasAttemptLeft'
  BY <1>5, <1>8 DEF IInv, QueuedJobHasAttemptLeft, HasAttemptLeft
<1> QED
  BY <1>9, <1>10, <1>11, <1>12 DEF IInv

(* A worker that forgets its job while the row stays as it is.             *)
LEMMA ForgettingPreserves ==
  ASSUME IInv, NEW w \in Workers, Forget(w), UNCHANGED <<now, row>>
  PROVE  IInv'
<1>1. /\ task'[w] = NoTask
      /\ \A v \in Workers : v # w => /\ task'[v] = task[v]
                                     /\ copy'[v] = copy[v]
                                     /\ until'[v] = until[v]
  BY DEF Forget, IInv, JobTypeOK
<1>2. JobTypeOK'
  BY NewRowIsRow, NoLeaseIsInt DEF Forget, IInv, JobTypeOK
<1>3. DeadlineCovered'
  BY <1>1, JobsAssumption DEF IInv, DeadlineCovered
<1>4. OwnersCopyIsCurrent'
  BY <1>1, JobsAssumption DEF IInv, OwnersCopyIsCurrent
<1>5. QueuedJobHasAttemptLeft'
  BY DEF IInv, QueuedJobHasAttemptLeft
<1> QED
  BY <1>2, <1>3, <1>4, <1>5 DEF IInv

(* A worker's last save: it needs a final copy that stops running and that *)
(* is queued again only with an attempt left.                              *)
LEMMA SaveLastPreserves ==
  ASSUME IInv, NEW w \in Workers, NEW t \in 0..MaxTime, NEW last \in Row,
         last.status # "running",
         last.attempts = copy[w].attempts,
         last.status = "queued" => HasAttemptLeft(last),
         SaveLast(w, t, last)
  PROVE  IInv'
<1> DEFINE j == task[w]
<1>1. /\ j \in Jobs /\ row[j] \in Row /\ copy[w] \in Row
      /\ row[j].status = "running" /\ row[j].owner = w
  BY DEF SaveLast, HoldsLease, IInv, JobTypeOK
<1>2. [copy[w] EXCEPT !.expires = row[j].expires] = row[j]
  BY <1>1 DEF IInv, OwnersCopyIsCurrent
<1>3. last.attempts = row[j].attempts
  BY <1>1, <1>2 DEF Row
<1>4. row' = [row EXCEPT ![j] = last] /\ now' = now /\ task[w] = j
  BY DEF SaveLast, SavedOver
<1> HIDE DEF j
<1>5. /\ row'[j] = last
      /\ \A k \in Jobs : k # j => row'[k] = row[k]
      /\ task'[w] = NoTask
      /\ \A v \in Workers : v # w => /\ task'[v] = task[v]
                                     /\ copy'[v] = copy[v]
                                     /\ until'[v] = until[v]
  BY <1>1, <1>4 DEF SaveLast, Forget, IInv, JobTypeOK
<1>6. JobTypeOK'
  BY <1>1, <1>4, NewRowIsRow, NoLeaseIsInt DEF SaveLast, Forget, IInv, JobTypeOK
<1>7. DeadlineCovered'
  BY <1>1, <1>4, <1>5, JobsAssumption DEF IInv, DeadlineCovered
<1>8. OwnersCopyIsCurrent'
  BY <1>1, <1>5, JobsAssumption DEF IInv, OwnersCopyIsCurrent
<1>9. QueuedJobHasAttemptLeft'
  BY <1>3, <1>5 DEF IInv, QueuedJobHasAttemptLeft
<1> QED
  BY <1>6, <1>7, <1>8, <1>9 DEF IInv

LEMMA CompletePreserves ==
  ASSUME IInv, NEW w \in Workers, NEW t \in 0..MaxTime, Complete(w, t)
  PROVE  IInv'
<1> DEFINE last == CompletedCopy(copy[w])
<1>1. copy[w] \in Row /\ last \in Row
  BY FinalCopiesAreRows DEF IInv, JobTypeOK
<1>2. last.status = "completed" /\ last.attempts = copy[w].attempts
  BY <1>1 DEF CompletedCopy, Row
<1>3. SaveLast(w, t, last)
  BY DEF Complete
<1> HIDE DEF last
<1> QED
  BY <1>1, <1>2, <1>3, SaveLastPreserves

LEMMA FailPreserves ==
  ASSUME IInv, NEW w \in Workers, NEW t \in 0..MaxTime,
         NEW retryable \in BOOLEAN, Fail(w, t, retryable)
  PROVE  IInv'
<1> DEFINE last == FailedCopy(copy[w], retryable)
<1>1. copy[w] \in Row /\ last \in Row
  BY FinalCopiesAreRows DEF IInv, JobTypeOK
<1>2. /\ last.status \in {"queued", "failed"}
      /\ last.attempts = copy[w].attempts
      /\ last.status = "queued" => HasAttemptLeft(copy[w])
  BY <1>1 DEF FailedCopy, Row
<1>3. SaveLast(w, t, last)
  BY DEF Fail
<1> HIDE DEF last
<1> QED
  BY <1>1, <1>2, <1>3, SaveLastPreserves DEF HasAttemptLeft

LEMMA TickPreserves ==
  ASSUME IInv, Tick
  PROVE  IInv'
<1>1. /\ now' = now + 1 /\ now' \in 0..MaxTime /\ now \in Int
      /\ UNCHANGED <<row, task, copy, stamp, until>>
  BY TimeAssumption DEF Tick, IInv, JobTypeOK
<1>2. JobTypeOK'
  BY <1>1 DEF IInv, JobTypeOK
<1>3. DeadlineCovered'
  <2>1. \A w \in Workers : until[w] <= now => until[w] <= now'
    BY <1>1 DEF IInv, JobTypeOK
  <2> QED
    BY <1>1, <2>1 DEF IInv, DeadlineCovered
<1>4. OwnersCopyIsCurrent'
  BY <1>1 DEF IInv, OwnersCopyIsCurrent
<1>5. QueuedJobHasAttemptLeft'
  BY <1>1 DEF IInv, QueuedJobHasAttemptLeft
<1> QED
  BY <1>2, <1>3, <1>4, <1>5 DEF IInv

LEMMA NextPreservesIInv == IInv /\ [JobNext]_jobVars => IInv'
<1> SUFFICES ASSUME IInv, [JobNext]_jobVars PROVE IInv'
  OBVIOUS
<1>1. CASE Tick
  BY <1>1, TickPreserves
<1>2. ASSUME NEW j \in Jobs, Submit(j) \/ Cancel(j)
      PROVE  IInv'
  BY <1>2, SubmitPreserves, CancelPreserves
<1>3. ASSUME NEW w \in Workers, Crash(w)
      PROVE  IInv'
  BY <1>3, ForgettingPreserves DEF Crash
<1>4. ASSUME NEW t \in 0..MaxTime, Sweep(t)
      PROVE  IInv'
  BY <1>4, SweepPreserves
<1>5. ASSUME NEW t \in 0..MaxTime, NEW w \in Workers, Working(w, t)
      PROVE  IInv'
  <2>1. ASSUME NEW j \in Jobs, Claim(w, j, t) \/ ClaimExhausted(w, j, t)
        PROVE  IInv'
    BY <2>1, ClaimPreserves, ClaimExhaustedPreserves
  <2>2. CASE Heartbeat(w, t)
    BY <2>2, HeartbeatPreserves
  <2>3. ASSUME NEW p \in Phases, SavePhase(w, t, p)
        PROVE  IInv'
    BY <2>3, SavePhasePreserves
  <2>4. CASE Complete(w, t)
    BY <2>4, CompletePreserves
  <2>5. ASSUME NEW retryable \in BOOLEAN, Fail(w, t, retryable)
        PROVE  IInv'
    BY <2>5, FailPreserves
  <2>6. CASE LoseLease(w, t)
    BY <2>6, ForgettingPreserves DEF LoseLease
  <2> QED
    BY <1>5, <2>1, <2>2, <2>3, <2>4, <2>5, <2>6 DEF Working
<1>6. CASE UNCHANGED jobVars
  BY <1>6 DEF jobVars, IInv, JobTypeOK, DeadlineCovered, OwnersCopyIsCurrent,
              QueuedJobHasAttemptLeft, HasAttemptLeft
<1> QED
  BY <1>1, <1>2, <1>3, <1>4, <1>5, <1>6 DEF JobNext

-----------------------------------------------------------------------------

(* The conjunction that every step of the protocol preserves.              *)
THEOREM InductiveInvariant == JobSpec => []IInv
BY InitEstablishesIInv, NextPreservesIInv, PTL DEF JobSpec

(* Every variable keeps its type.                                          *)
THEOREM TypeCorrect == JobSpec => []JobTypeOK
<1>1. IInv => JobTypeOK
  BY DEF IInv
<1> QED
  BY <1>1, InductiveInvariant, PTL

(* As long as the deadline a worker was last given has not passed, the     *)
(* stored row names that worker as the running owner.                      *)
THEOREM LeaseSafety == JobSpec => []EntitledWorkerOwnsRow
<1>1. IInv => EntitledWorkerOwnsRow
  <2> SUFFICES ASSUME IInv, NEW w \in Workers, NEW j \in Jobs, Entitled(w, j)
               PROVE  row[j].status = "running" /\ row[j].owner = w
    BY DEF EntitledWorkerOwnsRow
  <2>1. task[w] = j /\ now < until[w] /\ now \in Int /\ until[w] \in Int
    BY DEF Entitled, IInv, JobTypeOK
  <2>2. ~(until[w] <= now)
    BY <2>1
  <2> QED
    BY <2>1, <2>2 DEF IInv, DeadlineCovered
<1> QED
  BY <1>1, InductiveInvariant, PTL

(* A worker that still owns a job writes back a copy that lost no update.  *)
THEOREM NoLostUpdate == JobSpec => []OwnersCopyIsCurrent
<1>1. IInv => OwnersCopyIsCurrent
  BY DEF IInv
<1> QED
  BY <1>1, InductiveInvariant, PTL

(* Attempts are bounded and every queued job can be claimed once more.     *)
THEOREM RetryBudget == JobSpec => []QueuedJobHasAttemptLeft
<1>1. IInv => QueuedJobHasAttemptLeft
  BY DEF IInv
<1> QED
  BY <1>1, InductiveInvariant, PTL

LEMMA StepKeepsOutcomes ==
  ASSUME JobTypeOK, [JobNext]_jobVars, NEW j \in Jobs, row[j].status \in Terminal
  PROVE  row'[j] = row[j]
<1>1. /\ row[j].status \notin {"absent", "queued", "scheduled", "running"}
      /\ \A k \in Jobs : row[k].status \in {"absent", "queued", "scheduled", "running"}
                         => k # j
  BY DEF Terminal
<1>2. ASSUME NEW k \in Jobs, Submit(k) \/ Cancel(k)
      PROVE  row'[j] = row[j]
  BY <1>1, <1>2 DEF Submit, Cancel, Cancelable, JobTypeOK
<1>3. ASSUME NEW t \in 0..MaxTime, Sweep(t)
      PROVE  row'[j] = row[j]
  BY <1>1, <1>3 DEF Sweep, Lapsed
<1>4. ASSUME NEW t \in 0..MaxTime, NEW w \in Workers, Working(w, t)
      PROVE  row'[j] = row[j]
  <2>1. ASSUME NEW k \in Jobs, Claim(w, k, t) \/ ClaimExhausted(w, k, t)
        PROVE  row'[j] = row[j]
    BY <1>1, <2>1 DEF Claim, ClaimExhausted, Claimable, Lapsed, JobTypeOK
  <2>2. CASE Heartbeat(w, t)
    BY <1>1, <2>2 DEF Heartbeat, HoldsLease, JobTypeOK
  <2>3. ASSUME NEW p \in Phases, SavePhase(w, t, p)
        PROVE  row'[j] = row[j]
    BY <1>1, <2>3 DEF SavePhase, HoldsLease, JobTypeOK
  <2>4. ASSUME NEW last, SaveLast(w, t, last)
        PROVE  row'[j] = row[j]
    BY <1>1, <2>4 DEF SaveLast, HoldsLease, JobTypeOK
  <2>5. CASE LoseLease(w, t)
    BY <2>5 DEF LoseLease
  <2> QED
    BY <1>4, <2>1, <2>2, <2>3, <2>4, <2>5 DEF Working, Complete, Fail
<1> QED
  BY <1>2, <1>3, <1>4 DEF JobNext, Tick, Crash, jobVars

(* A finished job's row never changes again.                               *)
THEOREM OutcomesAreFinal == JobSpec => OutcomeIsFinal
<1>1. JobTypeOK /\ [JobNext]_jobVars =>
        [\A j \in Jobs : row[j].status \in Terminal => row'[j] = row[j]]_jobVars
  BY StepKeepsOutcomes
<1> QED
  BY <1>1, TypeCorrect, PTL DEF JobSpec, OutcomeIsFinal

-----------------------------------------------------------------------------
(* The refinement: every step of the protocol is a step of JobPromise.     *)

(* A row that was never inserted has never been attempted.                 *)
AbsentIsUntried ==
  \A j \in Jobs : row[j].status = "absent" => row[j].attempts = 0

LEMMA StepKeepsAbsentUntried ==
  ASSUME IInv, AbsentIsUntried, [JobNext]_jobVars
  PROVE  AbsentIsUntried'
<1> SUFFICES ASSUME NEW j \in Jobs, row'[j].status = "absent"
             PROVE  row'[j] = row[j]
  BY DEF AbsentIsUntried
<1>1. ASSUME NEW k \in Jobs, Submit(k) \/ Cancel(k)
      PROVE  row'[j] = row[j]
  BY <1>1 DEF Submit, Cancel, NewRow, NoRow, Canceled, IInv, JobTypeOK, Row
<1>2. ASSUME NEW t \in 0..MaxTime, Sweep(t)
      PROVE  row'[j] = row[j]
  <2>1. PICK S \in SUBSET {k \in Jobs : Lapsed(row[k], t)} :
               row' = [k \in Jobs |-> IF k \in S THEN Recovered(row[k]) ELSE row[k]]
    BY <1>2 DEF Sweep
  <2>2. row[j] \in Row
    BY DEF IInv, JobTypeOK
  <2>3. Recovered(row[j]).status \in {"queued", "failed"}
    BY <2>2 DEF Recovered, Exhausted, Row
  <2> QED
    BY <2>1, <2>3
<1>3. ASSUME NEW t \in 0..MaxTime, NEW w \in Workers, Working(w, t)
      PROVE  row'[j] = row[j]
  <2>1. ASSUME NEW k \in Jobs, Claim(w, k, t) \/ ClaimExhausted(w, k, t)
        PROVE  row'[j] = row[j]
    <3>1. row[k] \in Row
      BY DEF IInv, JobTypeOK
    <3>2. /\ Claimed(row[k], w, t).status = "running"
          /\ Exhausted(row[k]).status = "failed"
      BY <3>1 DEF Claimed, Exhausted, Row
    <3>3. \/ row' = [row EXCEPT ![k] = Claimed(row[k], w, t)]
          \/ row' = [row EXCEPT ![k] = Exhausted(row[k])]
      BY <2>1 DEF Claim, ClaimExhausted
    <3> QED
      BY <3>2, <3>3 DEF IInv, JobTypeOK
  <2>2. CASE Heartbeat(w, t)
    BY <2>2 DEF Heartbeat, HoldsLease, HeartbeatRow, IInv, JobTypeOK, Row
  <2>3. ASSUME NEW p \in Phases, SavePhase(w, t, p)
        PROVE  row'[j] = row[j]
    <3>1. /\ task[w] \in Jobs /\ copy[w] \in Row /\ row[task[w]] \in Row
          /\ row[task[w]].status = "running" /\ row[task[w]].owner = w
      BY <2>3 DEF SavePhase, HoldsLease, IInv, JobTypeOK
    <3>2. [copy[w] EXCEPT !.expires = row[task[w]].expires] = row[task[w]]
      BY <3>1 DEF IInv, OwnersCopyIsCurrent
    <3>3. copy[w].status = "running"
      BY <3>1, <3>2 DEF Row
    <3>4. SavedOver(row[task[w]], [copy[w] EXCEPT !.phase = p]).status = "running"
      BY <3>1, <3>3 DEF SavedOver, Row
    <3> QED
      BY <2>3, <3>1, <3>4 DEF SavePhase, IInv, JobTypeOK
  <2>4. ASSUME NEW last \in Row, last.status # "absent", last.status # "running",
               SaveLast(w, t, last)
        PROVE  row'[j] = row[j]
    BY <2>4 DEF SaveLast, SavedOver, IInv, JobTypeOK
  <2>5. CASE LoseLease(w, t)
    BY <2>5 DEF LoseLease
  <2> copy[w] \in Row
    BY DEF IInv, JobTypeOK
  <2>6. /\ CompletedCopy(copy[w]) \in Row
        /\ CompletedCopy(copy[w]).status = "completed"
    <3>1. CompletedCopy(copy[w]) \in Row
      BY FinalCopiesAreRows
    <3> QED
      BY <3>1 DEF CompletedCopy, Row
  <2>7. ASSUME NEW retryable \in BOOLEAN
        PROVE  /\ FailedCopy(copy[w], retryable) \in Row
               /\ FailedCopy(copy[w], retryable).status \in {"queued", "failed"}
    <3>1. FailedCopy(copy[w], retryable) \in Row
      BY FinalCopiesAreRows
    <3> QED
      BY <3>1 DEF FailedCopy, Row
  <2>8. CASE Complete(w, t)
    BY <2>4, <2>6, <2>8 DEF Complete
  <2>9. ASSUME NEW retryable \in BOOLEAN, Fail(w, t, retryable)
        PROVE  row'[j] = row[j]
    BY <2>4, <2>7, <2>9 DEF Fail
  <2> QED
    BY <1>3, <2>1, <2>2, <2>3, <2>5, <2>8, <2>9 DEF Working
<1> QED
  BY <1>1, <1>2, <1>3 DEF JobNext, Tick, Crash, jobVars

(* What the refinement mapping says of a job, one fact per case.           *)
LEMMA MappedState ==
  ASSUME JobTypeOK, NEW j \in Jobs
  PROVE  /\ row[j].status = "absent" <=> PromisedState[j] = "absent"
         /\ row[j].status \in {"queued", "scheduled"} <=> PromisedState[j] = "waiting"
         /\ row[j].status = "running" <=> PromisedState[j] = "held"
         /\ row[j].status = "completed" <=> PromisedState[j] = "done"
         /\ row[j].status = "failed" <=> PromisedState[j] = "dead"
         /\ row[j].status = "canceled" <=> PromisedState[j] = "canceled"
<1>1. row[j].status \in Statuses
  BY DEF JobTypeOK, Row
<1> QED
  BY <1>1 DEF PromisedState, PromisedOf, Statuses

LEMMA MappedLive ==
  ASSUME IInv, NEW j \in Jobs
  PROVE  /\ PromisedLive[j] \subseteq {row[j].owner}
         /\ row[j].status # "running" => PromisedLive[j] = {}
         /\ \A t \in 0..now : Lapsed(row[j], t) => PromisedLive[j] = {}
<1>1. ASSUME NEW w \in PromisedLive[j]
      PROVE  /\ row[j].status = "running" /\ row[j].owner = w
             /\ now < row[j].expires
  <2>1. /\ w \in Workers /\ task[w] = j /\ now < until[w]
        /\ now \in Int /\ until[w] \in Int
    BY <1>1 DEF PromisedLive, Entitled, IInv, JobTypeOK
  <2>2. row[j].expires \in Int
    BY NoLeaseIsInt DEF IInv, JobTypeOK, Row
  <2>3. ~(until[w] <= now)
    BY <2>1
  <2> QED
    BY <2>1, <2>2, <2>3 DEF IInv, DeadlineCovered
<1>2. ASSUME NEW t \in 0..now, Lapsed(row[j], t)
      PROVE  ~(now < row[j].expires)
  BY <1>2, NoLeaseIsInt DEF Lapsed, LeaseIsExpired, IInv, JobTypeOK, Row
<1> QED
  BY <1>1, <1>2

(* The mapped variables are functions on Jobs, before and after a step.    *)
LEMMA MappedFunctions ==
  /\ PromisedState = [j \in Jobs |-> PromisedState[j]]
  /\ PromisedTries = [j \in Jobs |-> PromisedTries[j]]
  /\ PromisedLive = [j \in Jobs |-> PromisedLive[j]]
  /\ PromisedState' = [j \in Jobs |-> PromisedState'[j]]
  /\ PromisedTries' = [j \in Jobs |-> PromisedTries'[j]]
  /\ PromisedLive' = [j \in Jobs |-> PromisedLive'[j]]
BY DEF PromisedState, PromisedOf, PromisedTries, PromisedTriesOf, Terminal, PromisedLive

(* A row that does not change leaves the mapped state and tries alone, and *)
(* a step that changes no worker's job, deadline or clock leaves live.     *)
LEMMA MappedFrame ==
  /\ \A k \in Jobs : row'[k] = row[k] =>
       PromisedState'[k] = PromisedState[k] /\ PromisedTries'[k] = PromisedTries[k]
  /\ UNCHANGED <<now, task, until>> => PromisedLive' = PromisedLive
BY DEF PromisedState, PromisedOf, PromisedTries, PromisedTriesOf, Terminal, PromisedLive, Entitled

LEMMA SubmitAccepts ==
  ASSUME IInv, AbsentIsUntried, NEW j \in Jobs, Submit(j)
  PROVE  Promise!Accept(j)
<1>1. /\ row[j].status = "absent" /\ row'[j] = NewRow("queued")
      /\ \A k \in Jobs : k # j => row'[k] = row[k]
      /\ UNCHANGED <<now, task, until>>
  BY DEF Submit, IInv, JobTypeOK
<1>2. NewRow("queued").status = "queued" /\ NewRow("queued").attempts = 0
  BY DEF NewRow, NoRow
<1>3. PromisedState[j] = "absent" /\ PromisedState'[j] = "waiting"
  BY <1>1, <1>2 DEF PromisedState, PromisedOf
<1>4. PromisedTries'[j] = PromisedTries[j]
  BY <1>1, <1>2 DEF PromisedTries, PromisedTriesOf, Terminal, AbsentIsUntried
<1>5. PromisedState' = [PromisedState EXCEPT ![j] = "waiting"]
  BY <1>1, <1>3, MappedFrame, MappedFunctions, OneValueChanges
<1>6. PromisedTries' = PromisedTries
  BY <1>1, <1>4, MappedFrame, MappedFunctions, NoValueChanges
<1> QED
  BY <1>1, <1>3, <1>5, <1>6, MappedFrame DEF Promise!Accept

LEMMA CancelWithdraws ==
  ASSUME IInv, NEW j \in Jobs, Cancel(j)
  PROVE  Promise!Withdraw(j)
<1>1. /\ row[j].status \in {"queued", "scheduled"}
      /\ row'[j] = Canceled(row[j])
      /\ \A k \in Jobs : k # j => row'[k] = row[k]
      /\ UNCHANGED <<now, task, until>>
  BY DEF Cancel, Cancelable, IInv, JobTypeOK
<1>2. /\ Canceled(row[j]).status = "canceled"
      /\ Canceled(row[j]).attempts = row[j].attempts
  BY DEF Canceled, IInv, JobTypeOK, Row
<1>3. PromisedState[j] = "waiting" /\ PromisedState'[j] = "canceled"
  BY <1>1, <1>2 DEF PromisedState, PromisedOf
<1>4. PromisedTries'[j] = 0
  BY <1>1, <1>2 DEF PromisedTries, PromisedTriesOf, Terminal
<1>5. PromisedState' = [PromisedState EXCEPT ![j] = "canceled"]
  BY <1>1, <1>3, MappedFrame, MappedFunctions, OneValueChanges
<1>6. PromisedTries' = [PromisedTries EXCEPT ![j] = 0]
  BY <1>1, <1>4, MappedFrame, MappedFunctions, OneValueChanges
<1>7. PromisedLive[j] = {}
  BY <1>1, MappedLive
<1> QED
  BY <1>1, <1>3, <1>5, <1>6, <1>7, MappedFrame DEF Promise!Withdraw

LEMMA ClaimStarts ==
  ASSUME IInv, NEW w \in Workers, NEW j \in Jobs, NEW t \in 0..MaxTime,
         Claim(w, j, t)
  PROVE  Promise!Start(j, w)
<1>1. /\ row'[j] = Claimed(row[j], w, t)
      /\ \A k \in Jobs : k # j => row'[k] = row[k]
      /\ row[j].status = "queued" \/ Lapsed(row[j], t)
      /\ row[j].attempts < MaxAttempts /\ t \in 0..now
  BY DEF Claim, Claimable, HasAttemptLeft, IInv, JobTypeOK
<1>2. /\ Claimed(row[j], w, t).status = "running"
      /\ Claimed(row[j], w, t).attempts = row[j].attempts + 1
  BY DEF Claimed, IInv, JobTypeOK, Row
<1>3. PromisedState[j] \in {"waiting", "held"} /\ PromisedState'[j] = "held"
  BY <1>1, <1>2 DEF PromisedState, PromisedOf, Lapsed
<1>4. PromisedTries[j] = row[j].attempts /\ PromisedTries'[j] = PromisedTries[j] + 1
  <2>1. row[j].status \in {"queued", "running"}
    BY <1>1 DEF Lapsed
  <2> QED
    BY <1>1, <1>2, <2>1 DEF PromisedTries, PromisedTriesOf, Terminal
<1>5. PromisedState' = [PromisedState EXCEPT ![j] = "held"]
  BY <1>1, <1>3, MappedFrame, MappedFunctions, OneValueChanges
<1>6. PromisedTries' = [PromisedTries EXCEPT ![j] = @ + 1]
  BY <1>1, <1>4, MappedFrame, MappedFunctions, OneValueChanges
<1>7. PromisedLive[j] = {}
  BY <1>1, MappedLive
<1>8. /\ task[w] = NoTask /\ task'[w] = j /\ now' = now
      /\ \A v \in Workers : v # w => task'[v] = task[v] /\ until'[v] = until[v]
  BY DEF Claim, IInv, JobTypeOK
<1>9. PromisedLive'[j] \in SUBSET {w}
  BY <1>7, <1>8 DEF PromisedLive, Entitled
<1>10. \A k \in Jobs : k # j => PromisedLive'[k] = PromisedLive[k]
  BY <1>8, JobsAssumption DEF PromisedLive, Entitled
<1>11. PromisedLive' = [PromisedLive EXCEPT ![j] = PromisedLive'[j]]
  BY <1>10, MappedFunctions, OneValueChanges
<1> QED
  BY <1>1, <1>3, <1>4, <1>5, <1>6, <1>7, <1>9, <1>11 DEF Promise!Start

LEMMA ClaimExhaustedReclaims ==
  ASSUME IInv, NEW w \in Workers, NEW j \in Jobs, NEW t \in 0..MaxTime,
         ClaimExhausted(w, j, t)
  PROVE  Promise!Reclaim
<1>1. /\ row'[j] = Exhausted(row[j])
      /\ \A k \in Jobs : k # j => row'[k] = row[k]
      /\ row[j].status = "queued" \/ Lapsed(row[j], t)
      /\ ~(row[j].attempts < MaxAttempts) /\ t \in 0..now
      /\ UNCHANGED <<now, task, until>>
  BY DEF ClaimExhausted, Claimable, HasAttemptLeft, IInv, JobTypeOK
<1>2. Lapsed(row[j], t)
  BY <1>1 DEF IInv, QueuedJobHasAttemptLeft, HasAttemptLeft
<1>3. /\ Exhausted(row[j]).status = "failed"
      /\ Exhausted(row[j]).attempts = row[j].attempts
  BY DEF Exhausted, IInv, JobTypeOK, Row
<1>4. PromisedState[j] = "held" /\ PromisedState'[j] = "dead"
  BY <1>1, <1>2, <1>3 DEF PromisedState, PromisedOf, Lapsed
<1>5. PromisedTries'[j] = 0 /\ PromisedTries[j] >= MaxAttempts
  <2>1. row[j].status = "running" /\ row[j].attempts \in Nat
    BY <1>2 DEF Lapsed, IInv, JobTypeOK, Row
  <2> QED
    BY <1>1, <1>3, <2>1, AttemptsAssumption DEF PromisedTries, PromisedTriesOf, Terminal
<1>6. PromisedTries' =
        [k \in Jobs |-> IF k \in {j} /\ PromisedTries[k] >= MaxAttempts THEN 0
                        ELSE PromisedTries[k]]
  BY <1>1, <1>5, MappedFrame, MappedFunctions
<1>7. PromisedLive[j] = {} /\ ~(PromisedTries[j] < MaxAttempts)
  <2>1. PromisedTries[j] = row[j].attempts
    BY <1>2 DEF Lapsed, PromisedTries, PromisedTriesOf, Terminal
  <2> QED
    BY <1>1, <1>2, <2>1, MappedLive
<1>8. PromisedState' =
        [k \in Jobs |-> IF k \notin {j} THEN PromisedState[k]
                        ELSE IF PromisedTries[k] < MaxAttempts THEN "waiting" ELSE "dead"]
  BY <1>1, <1>4, <1>7, MappedFrame, MappedFunctions
<1>9. {j} \in SUBSET {k \in Jobs : PromisedState[k] = "held" /\ PromisedLive[k] = {}}
  BY <1>4, <1>7
<1> QED
  BY <1>1, <1>6, <1>8, <1>9, MappedFrame DEF Promise!Reclaim

LEMMA SweepReclaims ==
  ASSUME IInv, NEW t \in 0..MaxTime, Sweep(t)
  PROVE  Promise!Reclaim
<1> PICK S \in SUBSET {j \in Jobs : Lapsed(row[j], t)} :
           row' = [j \in Jobs |-> IF j \in S THEN Recovered(row[j]) ELSE row[j]]
  BY DEF Sweep
<1>1. t \in 0..now /\ UNCHANGED <<now, task, until>>
  BY DEF Sweep
<1>2. ASSUME NEW j \in S
      PROVE  /\ Recovered(row[j]).attempts = row[j].attempts
             /\ Recovered(row[j]).status =
                  IF row[j].attempts < MaxAttempts THEN "queued" ELSE "failed"
  <2> DEFINE r == row[j]
             marked == [r EXCEPT !.failure = "worker_lease_expired",
                                 !.recoveredFrom = r.phase,
                                 !.owner = NoWorker, !.expires = NoLease]
  <2>1. r \in Row
    BY DEF IInv, JobTypeOK
  <2>2. marked \in Row /\ marked.attempts = r.attempts
    BY <2>1 DEF Row, Failures
  <2>3. Recovered(r) =
          IF r.attempts < MaxAttempts
          THEN [marked EXCEPT !.status = "queued", !.phase = "retry_scheduled"]
          ELSE Exhausted(marked)
    BY Zenon DEF Recovered, HasAttemptLeft
  <2> HIDE DEF marked, r
  <2>4. ASSUME r.attempts < MaxAttempts
        PROVE  Recovered(r).attempts = r.attempts /\ Recovered(r).status = "queued"
    BY <2>2, <2>3, <2>4 DEF Row
  <2>5. ASSUME ~(r.attempts < MaxAttempts)
        PROVE  Recovered(r).attempts = r.attempts /\ Recovered(r).status = "failed"
    BY <2>2, <2>3, <2>5 DEF Exhausted, Row
  <2>6. /\ Recovered(r).attempts = r.attempts
        /\ Recovered(r).status = IF r.attempts < MaxAttempts THEN "queued" ELSE "failed"
    BY <2>4, <2>5
  <2> QED
    BY <2>6 DEF r
<1>3. \A j \in S : PromisedState[j] = "held" /\ PromisedLive[j] = {}
  <2> SUFFICES ASSUME NEW j \in S
               PROVE  PromisedState[j] = "held" /\ PromisedLive[j] = {}
    OBVIOUS
  <2>1. j \in Jobs /\ Lapsed(row[j], t) /\ row[j].status = "running"
    BY DEF Lapsed
  <2> QED
    BY <1>1, <2>1, MappedLive DEF PromisedState, PromisedOf
<1>4. ASSUME NEW j \in Jobs
      PROVE  /\ PromisedTries'[j] =
                  IF j \in S /\ PromisedTries[j] >= MaxAttempts THEN 0 ELSE PromisedTries[j]
             /\ PromisedState'[j] =
                  IF j \notin S THEN PromisedState[j]
                  ELSE IF PromisedTries[j] < MaxAttempts THEN "waiting" ELSE "dead"
  <2>1. CASE j \in S
    <3>1. /\ row[j].status = "running" /\ row[j].attempts \in Nat
          /\ row'[j] = Recovered(row[j])
      BY <2>1 DEF Lapsed, IInv, JobTypeOK, Row
    <3> QED
      BY <1>2, <2>1, <3>1, AttemptsAssumption
      DEF PromisedTries, PromisedTriesOf, Terminal, PromisedState, PromisedOf
  <2>2. CASE j \notin S
    BY <2>2, MappedFrame
  <2> QED
    BY <2>1, <2>2
<1>5. PromisedTries' =
        [j \in Jobs |-> IF j \in S /\ PromisedTries[j] >= MaxAttempts THEN 0
                        ELSE PromisedTries[j]]
  BY <1>4, MappedFunctions
<1>6. PromisedState' =
        [j \in Jobs |-> IF j \notin S THEN PromisedState[j]
                        ELSE IF PromisedTries[j] < MaxAttempts THEN "waiting" ELSE "dead"]
  BY <1>4, MappedFunctions
<1> QED
  BY <1>1, <1>3, <1>5, <1>6, MappedFrame DEF Promise!Reclaim

LEMMA HeartbeatRenews ==
  ASSUME IInv, NEW w \in Workers, NEW t \in 0..MaxTime, Heartbeat(w, t)
  PROVE  Promise!Renew(task[w], w)
<1> DEFINE j == task[w]
<1>1. /\ j \in Jobs /\ row[j] \in Row /\ task[w] = j
      /\ row[j].status = "running" /\ row[j].owner = w
      /\ row' = [row EXCEPT ![j] = HeartbeatRow(row[j], t)]
      /\ now' = now /\ task' = task
      /\ \A v \in Workers : v # w => until'[v] = until[v]
  BY DEF Heartbeat, HoldsLease, IInv, JobTypeOK
<1>2. /\ HeartbeatRow(row[j], t).status = row[j].status
      /\ HeartbeatRow(row[j], t).attempts = row[j].attempts
  BY <1>1 DEF HeartbeatRow, Row
<1> HIDE DEF j
<1>3. \A k \in Jobs : row'[k].status = row[k].status /\ row'[k].attempts = row[k].attempts
  BY <1>1, <1>2 DEF IInv, JobTypeOK
<1>4. PromisedState' = PromisedState /\ PromisedTries' = PromisedTries
  BY <1>3 DEF PromisedState, PromisedOf, PromisedTries, PromisedTriesOf, Terminal
<1>5. PromisedState[j] = "held"
  BY <1>1 DEF PromisedState, PromisedOf
<1>6. PromisedLive[j] \subseteq {w}
  BY <1>1, MappedLive
<1>7. PromisedLive'[j] \in SUBSET {w}
  BY <1>1, <1>6 DEF PromisedLive, Entitled
<1>8. \A k \in Jobs : k # j => PromisedLive'[k] = PromisedLive[k]
  BY <1>1 DEF PromisedLive, Entitled
<1>9. PromisedLive' = [PromisedLive EXCEPT ![j] = PromisedLive'[j]]
  BY <1>1, <1>8, MappedFunctions, OneValueChanges
<1> QED
  BY <1>1, <1>4, <1>5, <1>6, <1>7, <1>9 DEF Promise!Renew

LEMMA SavePhaseStutters ==
  ASSUME IInv, NEW w \in Workers, NEW t \in 0..MaxTime, NEW p \in Phases,
         SavePhase(w, t, p)
  PROVE  UNCHANGED Promise!pvars
<1> DEFINE j == task[w]
           c == [copy[w] EXCEPT !.phase = p]
<1>1. /\ j \in Jobs /\ row[j] \in Row /\ copy[w] \in Row /\ task[w] = j
      /\ row[j].status = "running" /\ row[j].owner = w
      /\ row' = [row EXCEPT ![j] = SavedOver(row[j], c)]
      /\ UNCHANGED <<now, task, until>>
  BY DEF SavePhase, HoldsLease, IInv, JobTypeOK
<1>2. [copy[w] EXCEPT !.expires = row[j].expires] = row[j]
  BY <1>1 DEF IInv, OwnersCopyIsCurrent
<1>3. c.status = "running" /\ c.attempts = row[j].attempts
  BY <1>1, <1>2 DEF Row
<1>4. c \in Row
  BY <1>1 DEF Row
<1> HIDE DEF j, c
<1>5. /\ SavedOver(row[j], c).status = row[j].status
      /\ SavedOver(row[j], c).attempts = row[j].attempts
  BY <1>1, <1>3, <1>4 DEF SavedOver, Row
<1>6. \A k \in Jobs : row'[k].status = row[k].status /\ row'[k].attempts = row[k].attempts
  BY <1>1, <1>5 DEF IInv, JobTypeOK
<1>7. PromisedState' = PromisedState /\ PromisedTries' = PromisedTries
  BY <1>6 DEF PromisedState, PromisedOf, PromisedTries, PromisedTriesOf, Terminal
<1> QED
  BY <1>1, <1>7, MappedFrame DEF Promise!pvars

(* A worker that forgets its job is entitled to nothing afterwards.        *)
LEMMA ForgettingLapses ==
  ASSUME IInv, NEW w \in Workers, Forget(w), now' = now
  PROVE  \A k \in Jobs : PromisedLive'[k] = PromisedLive[k] \ {w}
<1>1. /\ task'[w] = NoTask
      /\ \A v \in Workers : v # w => task'[v] = task[v] /\ until'[v] = until[v]
  BY DEF Forget, IInv, JobTypeOK
<1> QED
  BY <1>1, JobsAssumption DEF PromisedLive, Entitled

LEMMA SaveLastSettles ==
  ASSUME IInv, NEW w \in Workers, NEW t \in 0..MaxTime, NEW last \in Row,
         last.status \in {"completed", "failed", "queued"},
         last.attempts = copy[w].attempts,
         last.status = "queued" => HasAttemptLeft(last),
         SaveLast(w, t, last)
  PROVE  task[w] \in Jobs /\ Promise!Settle(task[w], w)
<1> DEFINE j == task[w]
           s == PromisedState'[j]
<1>1. /\ j \in Jobs /\ row[j] \in Row /\ copy[w] \in Row /\ task[w] = j
      /\ row[j].status = "running" /\ row[j].owner = w
  BY DEF SaveLast, HoldsLease, IInv, JobTypeOK
<1>2. [copy[w] EXCEPT !.expires = row[j].expires] = row[j]
  BY <1>1 DEF IInv, OwnersCopyIsCurrent
<1>3. last.attempts = row[j].attempts
  BY <1>1, <1>2 DEF Row
<1>4. row' = [row EXCEPT ![j] = last] /\ now' = now /\ Forget(w)
  BY DEF SaveLast, SavedOver
<1> HIDE DEF j
<1>5. /\ row'[j] = last
      /\ \A k \in Jobs : k # j => row'[k] = row[k]
  BY <1>1, <1>4 DEF IInv, JobTypeOK
<1>6. PromisedState[j] = "held" /\ PromisedTries[j] = row[j].attempts
  BY <1>1 DEF PromisedState, PromisedOf, PromisedTries, PromisedTriesOf, Terminal
<1>7. /\ s \in {"done", "dead", "waiting"}
      /\ s = "waiting" => PromisedTries[j] < MaxAttempts
  BY <1>1, <1>3, <1>5, <1>6 DEF PromisedState, PromisedOf, HasAttemptLeft
<1>8. PromisedState' = [PromisedState EXCEPT ![j] = s]
  BY <1>1, <1>5, MappedFrame, MappedFunctions, OneValueChanges
<1>9. PromisedTries'[j] = IF s = "waiting" THEN PromisedTries[j] ELSE 0
  BY <1>1, <1>3, <1>5, <1>6 DEF PromisedState, PromisedOf, PromisedTries, PromisedTriesOf, Terminal
<1>10. PromisedTries' = [PromisedTries EXCEPT ![j] = IF s = "waiting" THEN @ ELSE 0]
  BY <1>1, <1>5, <1>9, MappedFrame, MappedFunctions, OneValueChanges
<1>11. PromisedLive[j] \subseteq {w}
  BY <1>1, MappedLive
<1>12. \A k \in Jobs : PromisedLive'[k] = PromisedLive[k] \ {w}
  BY <1>4, ForgettingLapses
<1>13. \A k \in Jobs : k # j => w \notin PromisedLive[k]
  BY <1>1 DEF PromisedLive, Entitled
<1>14. PromisedLive' = [PromisedLive EXCEPT ![j] = {}]
  <2>1. PromisedLive'[j] = {}
    BY <1>1, <1>11, <1>12
  <2>2. \A k \in Jobs : k # j => PromisedLive'[k] = PromisedLive[k]
    BY <1>12, <1>13
  <2> QED
    BY <1>1, <2>1, <2>2, MappedFunctions, OneValueChanges
<1> HIDE DEF s
<1>15. Promise!Settle(j, w)
  BY <1>6, <1>7, <1>8, <1>10, <1>11, <1>14 DEF Promise!Settle
<1> QED
  BY <1>1, <1>15

LEMMA LosingLapses ==
  ASSUME IInv, UNCHANGED row,
         Tick \/ \E w \in Workers : Forget(w) /\ now' = now
  PROVE  Promise!Lapse
<1>1. \A k \in Jobs : PromisedLive'[k] \subseteq PromisedLive[k]
  <2>1. CASE Tick
    <3>1. /\ now' = now + 1 /\ UNCHANGED <<task, until>> /\ now \in Int
          /\ \A w \in Workers : until[w] \in Int
      BY <2>1 DEF Tick, IInv, JobTypeOK
    <3>2. \A w \in Workers : now' < until[w] => now < until[w]
      BY <3>1
    <3> QED
      BY <3>1, <3>2 DEF PromisedLive, Entitled
  <2>2. ASSUME NEW w \in Workers, Forget(w), now' = now
        PROVE  \A k \in Jobs : PromisedLive'[k] \subseteq PromisedLive[k]
    BY <2>2, ForgettingLapses
  <2> QED
    BY <2>1, <2>2
<1>2. \A k \in Jobs : PromisedLive'[k] \in SUBSET Workers
  BY DEF PromisedLive
<1>3. PromisedLive' \in [Jobs -> SUBSET Workers]
  BY <1>2, MappedFunctions
<1>4. PromisedState' = PromisedState /\ PromisedTries' = PromisedTries
  BY DEF PromisedState, PromisedOf, PromisedTries, PromisedTriesOf, Terminal
<1> QED
  BY <1>1, <1>3, <1>4 DEF Promise!Lapse

LEMMA StepKeepsPromise ==
  ASSUME IInv, AbsentIsUntried, [JobNext]_jobVars
  PROVE  [Promise!PNext]_Promise!pvars
<1>1. CASE Tick
  BY <1>1, LosingLapses DEF Tick, Promise!PNext
<1>2. ASSUME NEW j \in Jobs, Submit(j) \/ Cancel(j)
      PROVE  Promise!PNext
  BY <1>2, SubmitAccepts, CancelWithdraws DEF Promise!PNext
<1>3. ASSUME NEW w \in Workers, Crash(w)
      PROVE  Promise!PNext
  BY <1>3, LosingLapses DEF Crash, Promise!PNext
<1>4. ASSUME NEW t \in 0..MaxTime, Sweep(t)
      PROVE  Promise!PNext
  BY <1>4, SweepReclaims DEF Promise!PNext
<1>5. ASSUME NEW t \in 0..MaxTime, NEW w \in Workers, Working(w, t)
      PROVE  Promise!PNext \/ UNCHANGED Promise!pvars
  <2>1. ASSUME NEW j \in Jobs, Claim(w, j, t)
        PROVE  Promise!PNext
    BY <2>1, ClaimStarts DEF Promise!PNext
  <2>2. ASSUME NEW j \in Jobs, ClaimExhausted(w, j, t)
        PROVE  Promise!PNext
    BY <2>2, ClaimExhaustedReclaims DEF Promise!PNext
  <2>3. CASE Heartbeat(w, t)
    <3>1. task[w] \in Jobs
      BY <2>3 DEF Heartbeat, IInv, JobTypeOK
    <3> QED
      BY <2>3, <3>1, HeartbeatRenews DEF Promise!PNext
  <2>4. ASSUME NEW p \in Phases, SavePhase(w, t, p)
        PROVE  UNCHANGED Promise!pvars
    BY <2>4, SavePhaseStutters
  <2> copy[w] \in Row
    BY DEF IInv, JobTypeOK
  <2>5. CASE Complete(w, t)
    <3> DEFINE last == CompletedCopy(copy[w])
    <3>1. last \in Row
      BY FinalCopiesAreRows
    <3>2. last.status = "completed" /\ last.attempts = copy[w].attempts
      BY <3>1 DEF CompletedCopy, Row
    <3>3. SaveLast(w, t, last)
      BY <2>5 DEF Complete
    <3> HIDE DEF last
    <3> QED
      BY <3>1, <3>2, <3>3, SaveLastSettles DEF Promise!PNext
  <2>6. ASSUME NEW retryable \in BOOLEAN, Fail(w, t, retryable)
        PROVE  Promise!PNext
    <3> DEFINE last == FailedCopy(copy[w], retryable)
    <3>1. last \in Row
      BY FinalCopiesAreRows
    <3>2. /\ last.status \in {"queued", "failed"}
          /\ last.attempts = copy[w].attempts
          /\ last.status = "queued" => HasAttemptLeft(copy[w])
      BY <3>1 DEF FailedCopy, Row
    <3>3. SaveLast(w, t, last)
      BY <2>6 DEF Fail
    <3> HIDE DEF last
    <3>4. last.status = "queued" => HasAttemptLeft(last)
      BY <3>2 DEF HasAttemptLeft
    <3> QED
      BY <3>1, <3>2, <3>3, <3>4, SaveLastSettles DEF Promise!PNext
  <2>7. CASE LoseLease(w, t)
    BY <2>7, LosingLapses DEF LoseLease, Promise!PNext
  <2> QED
    BY <1>5, <2>1, <2>2, <2>3, <2>4, <2>5, <2>6, <2>7 DEF Working
<1>6. CASE UNCHANGED jobVars
  BY <1>6, MappedFrame, MappedFunctions, NoValueChanges DEF jobVars, Promise!pvars
<1> QED
  BY <1>1, <1>2, <1>3, <1>4, <1>5, <1>6 DEF JobNext

LEMMA InitKeepsPromise == JobInit => Promise!PInit /\ AbsentIsUntried
BY JobsAssumption DEF JobInit, Promise!PInit, AbsentIsUntried, PromisedState, PromisedOf,
   PromisedTries, PromisedTriesOf, Terminal, PromisedLive, Entitled, NoRow

(* The repository's job operations implement JobPromise: one entitled      *)
(* worker at a time, MaxAttempts attempts, final outcomes.                 *)
THEOREM KeepsThePromise == JobSpec => KeepsPromise
<1>1. JobSpec => []AbsentIsUntried
  BY InitKeepsPromise, StepKeepsAbsentUntried, InductiveInvariant, PTL DEF JobSpec
<1> QED
  BY <1>1, InitKeepsPromise, StepKeepsPromise, InductiveInvariant, PTL
     DEF JobSpec, KeepsPromise, Promise!PSpec

=============================================================================
