----------------------------- MODULE ScanSchedule -----------------------------
(***************************************************************************)
(* Scans from the schedule or the operator that asks for one to the        *)
(* proposal they leave: the dispatcher that turns due schedules into jobs, *)
(* the workers that run a scan, and the beat task that recovers one.       *)
(*                                                                         *)
(* A scan, its job and its idempotency key are one thing here: a host, who *)
(* asked, and the minute.  Jobs, scan records, schedules and deliveries    *)
(* are written in separate transactions; leases use the relative clock of  *)
(* JobRow, and now counts the minutes of the schedules.                    *)
(***************************************************************************)
EXTENDS JobRow

CONSTANTS
  Hosts,         \* the managed hosts
  MaxTime,       \* bound: minutes
  Budgets        \* bounds, one for a whole behaviour: the new scans and the
                 \* edits operators ask for, the workers that die or outlive
                 \* their lease, and the other processes that die

ASSUME ScanAssumption ==
  /\ MaxTime \in Nat /\ Hosts # {}
  /\ Budgets \subseteq [requests : Nat, losses : Nat, deaths : Nat]
  /\ {"collecting_evidence", "multi_agent_analysis"} \subseteq Phases

Scans == [host : Hosts, trigger : {"scheduled", "manual"}, minute : 0 .. MaxTime]

ScanStates == {"absent", "queued", "running", "completed", "failed"}
Points == {"idle", "claimed", "starting", "collecting", "analysing",
           "proposing", "recording", "completing", "attaching", "raised", "failed"}

Tasks == [at : Points, of : Scans, row : Row]
Idle == [at |-> "idle", of |-> CHOOSE s \in Scans : TRUE, row |-> NoRow]

(* How often a scan has left its outcome, the one with a proposal or the   *)
(* one without, since an attempt raised past that point; and whether one   *)
(* raised after it had completed the job.                                  *)
Proposals == [standing : Nat, soured : BOOLEAN]

Schedules == [enabled : BOOLEAN, next : 0 .. MaxTime + 1]

VARIABLES
  schedule,      \* the host schedules
  job,           \* the scan jobs
  scan,          \* the status of the stored scan records
  proposals,     \* history: the outcomes of a scan, and its late errors
  sent,          \* run_scan deliveries in the broker
  work,          \* per worker: what it runs and holds
  beat,          \* the dispatcher: what it listed, made, and is about to do
  swept,         \* the recovery task: jobs still to record and to send
  asked,         \* the API: jobs committed, whose delivery is not sent yet
  now,           \* the clock, in minutes
  left,          \* what operators and faults may still do
  lossy,         \* history: scans whose attempt met a loss
  repeated,      \* history: scans sent again while they waited for a retry
  dropped        \* history: queued scans that nothing will send

hist == <<left, lossy, repeated, dropped>>
vars == <<schedule, job, scan, proposals, sent, work, beat, swept, asked, now,
          hist>>

Resting == [at |-> "resting", time |-> 0, due |-> {}, host |-> CHOOSE h \in Hosts : TRUE,
            made |-> {}]

TypeOK ==
  /\ schedule \in [Hosts -> Schedules]
  /\ job \in [Scans -> Row]
  /\ scan \in [Scans -> ScanStates]
  /\ proposals \in [Scans -> Proposals]
  /\ sent \subseteq Scans
  /\ work \in [Workers -> Tasks]
  /\ beat \in [at : {"resting", "listing", "creating", "moving", "sending"},
               time : 0 .. MaxTime, due : SUBSET (Hosts \X (0 .. MaxTime)),
               host : Hosts, made : SUBSET Scans]
  /\ swept \in [recovered : SUBSET Scans, exhausted : SUBSET Scans,
                ready : SUBSET Scans]
  /\ asked \subseteq Scans /\ now \in 0 .. MaxTime
  /\ left \in [requests : Nat, losses : Nat, deaths : Nat]
  /\ lossy \subseteq Scans /\ repeated \subseteq Scans /\ dropped \subseteq Scans

Init ==
  /\ schedule = [h \in Hosts |-> [enabled |-> TRUE, next |-> 0]]
  /\ job = [s \in Scans |-> NoRow]
  /\ scan = [s \in Scans |-> "absent"]
  /\ proposals = [s \in Scans |-> [standing |-> 0, soured |-> FALSE]]
  /\ sent = {} /\ asked = {} /\ now = 0
  /\ work = [w \in Workers |-> Idle]
  /\ beat = Resting
  /\ swept = [recovered |-> {}, exhausted |-> {}, ready |-> {}]
  /\ left \in Budgets
  /\ lossy = {} /\ repeated = {} /\ dropped = {}

-----------------------------------------------------------------------------
(* The dispatcher: create_due_scan_jobs, then dispatch_schedules.          *)

(* Mutant: a queued scan is not an active one.                             *)
MutHostHasActiveScan(h) ==
  \E s \in Scans : s.host = h /\ job[s].status = "running"

(* host_has_active_scan looks at the jobs, never at the records.           *)
HostHasActiveScan(h) ==
  \E s \in Scans : s.host = h /\ job[s].status \in {"queued", "running"}

(* Mutant: the next run is counted from the run after this one.            *)
MutMoveSchedule(h) ==
  schedule' = [schedule EXCEPT ![h] = [enabled |-> TRUE, next |-> beat.time + 2]]

(* The whole copy that was listed is saved, with its next run.             *)
MoveSchedule(h) ==
  schedule' = [schedule EXCEPT ![h] = [enabled |-> TRUE, next |-> beat.time + 1]]

OutsideBeat == <<scan, proposals, sent, work, swept, asked, now>>

ListDue ==
  LET due == {h \in Hosts : schedule[h].enabled /\ schedule[h].next <= now}
  IN  /\ beat.at = "resting" /\ due # {}
      /\ beat' = [Resting EXCEPT !.at = "listing", !.time = now,
                                 !.due = {<<h, schedule[h].next>> : h \in due}]
      /\ UNCHANGED <<schedule, job, OutsideBeat, hist>>

(* skip_if_running: the run is passed over and the schedule moves on.      *)
SkipOverlap(h) ==
  /\ beat.at = "listing" /\ \E minute \in 0 .. MaxTime : <<h, minute>> \in beat.due
  /\ HostHasActiveScan(h)
  /\ MoveSchedule(h)
  /\ beat' = [beat EXCEPT !.due = {d \in @ : d[1] # h}]
  /\ UNCHANGED <<job, OutsideBeat, hist>>

TakeDue(h) ==
  /\ beat.at = "listing" /\ \E minute \in 0 .. MaxTime : <<h, minute>> \in beat.due
  /\ ~HostHasActiveScan(h)
  /\ beat' = [beat EXCEPT !.at = "creating", !.host = h]
  /\ UNCHANGED <<schedule, job, OutsideBeat, hist>>

Scheduled(h, minute) == [host |-> h, trigger |-> "scheduled", minute |-> minute]

(* create_scan_job looks once more.  A job of the same run is returned; a  *)
(* scan that became active meanwhile raises, the schedule moves on all the *)
(* same, and the jobs this task made before are never sent.                *)
CreateScheduled(d) ==
  LET s == Scheduled(d[1], d[2])
  IN  /\ beat.at = "creating" /\ d \in beat.due /\ d[1] = beat.host
      /\ IF job[s].status # "absent" \/ ~HostHasActiveScan(d[1])
         THEN /\ job' = IF job[s].status = "absent"
                        THEN [job EXCEPT ![s] = NewRow("queued")] ELSE job
              /\ scan' = IF job[s].status = "absent"
                         THEN [scan EXCEPT ![s] = "queued"] ELSE scan
              /\ beat' = [beat EXCEPT !.at = "moving", !.made = @ \cup {s}]
              /\ UNCHANGED <<schedule, dropped>>
         ELSE /\ MoveSchedule(d[1])
              /\ beat' = Resting
              /\ dropped' = dropped \cup beat.made
              /\ UNCHANGED <<job, scan>>
      /\ UNCHANGED <<proposals, sent, work, swept, asked, now, left, lossy, repeated>>

MoveOn ==
  /\ beat.at = "moving"
  /\ MoveSchedule(beat.host)
  /\ beat' = [beat EXCEPT !.at = "listing", !.due = {d \in @ : d[1] # beat.host}]
  /\ UNCHANGED <<job, OutsideBeat, hist>>

(* Deliveries leave only after the last schedule has been seen.            *)
SendMade ==
  /\ beat.at \in {"listing", "sending"} /\ beat.due = {}
  /\ IF beat.made = {} THEN beat' = Resting /\ UNCHANGED sent
     ELSE \E s \in beat.made :
            /\ sent' = sent \cup {s}
            /\ beat' = [beat EXCEPT !.at = "sending", !.made = @ \ {s}]
  /\ UNCHANGED <<schedule, job, scan, proposals, work, swept, asked, now, hist>>

-----------------------------------------------------------------------------
(* Operators.                                                              *)

(* POST /scans.  The key is the minute: asking again within it returns the *)
(* job there is, and sends it again while it is queued.                    *)
AskScan(h) ==
  LET s == [host |-> h, trigger |-> "manual", minute |-> now]
      waiting == job[s].status = "queued"
  IN  /\ IF job[s].status = "absent"
         THEN /\ left.requests > 0 /\ left' = [left EXCEPT !.requests = @ - 1]
              /\ job' = [job EXCEPT ![s] = NewRow("queued")]
              /\ scan' = [scan EXCEPT ![s] = "queued"]
         ELSE s \notin repeated \cup asked /\ UNCHANGED <<left, job, scan>>
      /\ asked' = IF job'[s].status = "queued" THEN asked \cup {s} ELSE asked
      /\ repeated' = IF waiting THEN repeated \cup {s} ELSE repeated
      /\ UNCHANGED <<schedule, proposals, sent, work, beat, swept, now, lossy, dropped>>

SendAsked(s) ==
  /\ s \in asked /\ asked' = asked \ {s}
  /\ sent' = sent \cup {s}
  /\ UNCHANGED <<schedule, job, scan, proposals, work, beat, swept, now, hist>>

(* PUT /hosts/{id}/schedule.                                               *)
SaveSchedule(h) ==
  /\ left.requests > 0 /\ left' = [left EXCEPT !.requests = @ - 1]
  /\ \E enabled \in BOOLEAN :
       schedule' = [schedule EXCEPT ![h] = [enabled |-> enabled, next |-> now + 1]]
  /\ UNCHANGED <<job, scan, proposals, sent, work, beat, swept, asked, now,
                 lossy, repeated, dropped>>

-----------------------------------------------------------------------------
(* A worker with a delivery.                                               *)

(* No step of a scan reads why, or where, an earlier attempt failed, nor   *)
(* the attempts of a job that has ended.                                   *)
Plain(row) ==
  [row EXCEPT !.failure = "none", !.recoveredFrom = "none",
              !.attempts = IF row.status \in Terminal THEN 0 ELSE @]

At(w, point) == work[w].at = point
Move(w, point) == work' = [work EXCEPT ![w].at = point]
Finish(w) == work' = [work EXCEPT ![w] = Idle]
Owns(w) == HoldsLease(job[work[w].of], w, 0)
Save(w, copy) == job' = [job EXCEPT ![work[w].of] = SavedOver(@, copy)]
Record(w, status) == scan' = [scan EXCEPT ![work[w].of] = status]
OutsideWork == <<schedule, beat, swept, asked, now, left, lossy, repeated>>

(* Mutant: the first attempt is not counted as one.                        *)
MutRetryAfter(s, row) ==
  sent' = IF /\ row.status = "queued" /\ row.phase = "retry_scheduled"
             /\ row.attempts > 1
          THEN sent \cup {s} ELSE sent

(* _schedule_retry, with the row that came back.                           *)
RetryAfter(s, row) ==
  sent' = IF row.status = "queued" /\ row.phase = "retry_scheduled"
          THEN sent \cup {s} ELSE sent

(* JobLeaseLost: the task returns the stored row.                          *)
LeaseLost(w) ==
  /\ Finish(w) /\ RetryAfter(work[w].of, job[work[w].of]) /\ UNCHANGED job

ClaimScan(w, s) ==
  /\ At(w, "idle") /\ s \in sent /\ sent' = sent \ {s}
  /\ dropped' = dropped \ {s}
  /\ IF ~Claimable(job[s], 0) THEN UNCHANGED <<job, work>>
     ELSE IF ~HasAttemptLeft(job[s])
     THEN job' = [job EXCEPT ![s] = Plain(Exhausted(@))] /\ UNCHANGED work
     ELSE /\ job' = [job EXCEPT ![s] = Plain(Claimed(@, w, 0))]
          /\ work' = [work EXCEPT ![w] = [at |-> "claimed", of |-> s,
                                          row |-> job'[s]]]
  /\ UNCHANGED <<scan, proposals, OutsideWork>>

(* The phase is saved under the lease, the record after it without.        *)
StartScan(w) ==
  LET copy == [work[w].row EXCEPT !.phase = "collecting_evidence"]
  IN  /\ At(w, "claimed")
      /\ IF Owns(w)
         THEN /\ Save(w, copy) /\ UNCHANGED sent
              /\ work' = [work EXCEPT ![w].at = "starting", ![w].row = copy]
         ELSE LeaseLost(w)
      /\ UNCHANGED <<scan, proposals, dropped, OutsideWork>>

RecordRunning(w) ==
  /\ At(w, "starting") /\ Move(w, "collecting")
  /\ Record(w, "running")
  /\ UNCHANGED <<job, proposals, sent, dropped, OutsideWork>>

(* The collector answers.                                                  *)
Collect(w) ==
  LET copy == [work[w].row EXCEPT !.phase = "multi_agent_analysis"]
  IN  /\ At(w, "collecting")
      /\ IF Owns(w)
         THEN /\ Save(w, copy) /\ UNCHANGED sent
              /\ work' = [work EXCEPT ![w].at = "analysing", ![w].row = copy]
         ELSE LeaseLost(w)
      /\ UNCHANGED <<scan, proposals, dropped, OutsideWork>>

(* The agents answer.  From the check of the lease on, the task runs to    *)
(* its end without a pause its heartbeat could use.                        *)
Analyse(w) ==
  /\ At(w, "analysing")
  /\ IF Owns(w)
     THEN Move(w, "proposing") /\ UNCHANGED <<job, sent>>
     ELSE LeaseLost(w)
  /\ UNCHANGED <<scan, proposals, dropped, OutsideWork>>

(* Anything process_scan calls may raise: the collector, the agents, or a  *)
(* store call, also after the proposal is saved or the job is completed.   *)
RaiseError(w) ==
  LET s == work[w].of
  IN  /\ work[w].at \in Points \ {"idle", "raised", "failed"} /\ Move(w, "raised")
      /\ proposals' = IF work[w].at \in {"recording", "completing", "attaching"}
                      THEN [proposals EXCEPT ![s].standing = 0,
                                             ![s].soured = @ \/ At(w, "attaching")]
                      ELSE proposals
      /\ UNCHANGED <<job, scan, sent, dropped, OutsideWork>>

(* The findings and the remediation, if there is one, are saved, each in a *)
(* transaction of its own; a scan that has nothing to propose counts too.  *)
Propose(w) ==
  /\ At(w, "proposing") /\ Move(w, "recording")
  /\ proposals' = [proposals EXCEPT ![work[w].of].standing = @ + 1]
  /\ UNCHANGED <<job, scan, sent, dropped, OutsideWork>>

RecordCompleted(w) ==
  /\ At(w, "recording") /\ Move(w, "completing")
  /\ Record(w, "completed")
  /\ UNCHANGED <<job, proposals, sent, dropped, OutsideWork>>

CompleteScan(w) ==
  LET copy == Plain(CompletedCopy(work[w].row))
  IN  /\ At(w, "completing")
      /\ IF Owns(w)
         THEN /\ Save(w, copy) /\ UNCHANGED sent
              /\ work' = [work EXCEPT ![w].at = "attaching", ![w].row = copy]
         ELSE LeaseLost(w)
      /\ UNCHANGED <<scan, proposals, dropped, OutsideWork>>

(* The campaign is told, alerts are raised and the audit is written.       *)
Announce(w) ==
  /\ At(w, "attaching") /\ Finish(w)
  /\ UNCHANGED <<job, scan, proposals, sent, dropped, OutsideWork>>

(* The handler of process_scan fails the job if it is still its own...     *)
FailScan(w) ==
  /\ At(w, "raised")
  /\ \E retryable \in BOOLEAN :
       job' = IF Owns(w)
              THEN [job EXCEPT ![work[w].of] = Plain(FailedCopy(work[w].row, retryable))]
              ELSE job
  /\ work' = [work EXCEPT ![w].at = "failed", ![w].row = job'[work[w].of]]
  /\ UNCHANGED <<scan, proposals, sent, dropped, OutsideWork>>

(* Mutant: the record of a scan that is tried again says failed.           *)
MutRecordFailed(w) ==
  /\ At(w, "failed") /\ Finish(w)
  /\ Record(w, "failed")
  /\ RetryAfter(work[w].of, work[w].row)
  /\ UNCHANGED <<job, proposals, dropped, OutsideWork>>

(* ... and saves the record whoever's it is, from the row that came back.  *)
RecordFailed(w) ==
  /\ At(w, "failed") /\ Finish(w)
  /\ Record(w, IF work[w].row.status = "queued" THEN "queued" ELSE "failed")
  /\ RetryAfter(work[w].of, work[w].row)
  /\ UNCHANGED <<job, proposals, dropped, OutsideWork>>

(* The heartbeat of a task that waits finds its lease lost.                *)
CancelTask(w) ==
  /\ work[w].at \in {"collecting", "analysing"} /\ ~Owns(w)
  /\ LeaseLost(w)
  /\ UNCHANGED <<scan, proposals, dropped, OutsideWork>>

-----------------------------------------------------------------------------
(* Losses, and the recovery task.                                          *)

Lose == left.losses > 0 /\ left' = [left EXCEPT !.losses = @ - 1]

Crash(w) ==
  LET s == work[w].of
  IN  /\ ~At(w, "idle") /\ Lose /\ Finish(w)
      /\ sent' = sent \cup {s} /\ lossy' = lossy \cup {s}
      /\ UNCHANGED <<schedule, job, scan, proposals, beat, swept, asked, now,
                     repeated, dropped>>

Deserted(s) == \A w \in Workers : At(w, "idle") \/ work[w].of # s

Lapse(s) ==
  /\ job[s].status = "running" /\ ~LeaseIsExpired(job[s].expires, 0)
  /\ job' = [job EXCEPT ![s].expires = 0]
  /\ lossy' = lossy \cup {s}
  /\ IF Deserted(s) THEN UNCHANGED left ELSE Lose
  /\ UNCHANGED <<schedule, scan, proposals, sent, work, beat, swept, asked, now,
                 repeated, dropped>>

Swept == swept.recovered \cup swept.exhausted \cup swept.ready

(* recover_expired_jobs: one task at a time, which records what it swept,  *)
(* the exhausted jobs last, and then sends the others.                     *)
Sweep ==
  LET lapsed == {s \in Scans : Lapsed(job[s], 0)}
  IN  /\ lapsed # {} /\ Swept = {}
      /\ job' = [s \in Scans |->
                   IF s \in lapsed THEN Plain(Recovered(job[s])) ELSE job[s]]
      /\ swept' = [swept EXCEPT
           !.recovered = {s \in lapsed : HasAttemptLeft(job[s])},
           !.exhausted = {s \in lapsed : ~HasAttemptLeft(job[s])}]
      /\ UNCHANGED <<schedule, scan, proposals, sent, work, beat, asked, now, hist>>

RecordSweep(s) ==
  LET failed == s \in swept.exhausted
  IN  /\ s \in IF swept.recovered # {} THEN swept.recovered ELSE swept.exhausted
      /\ swept' = IF failed THEN [swept EXCEPT !.exhausted = @ \ {s}]
                  ELSE [swept EXCEPT !.recovered = @ \ {s}, !.ready = @ \cup {s}]
      /\ scan' = [scan EXCEPT ![s] = IF failed THEN "failed" ELSE "queued"]
      /\ UNCHANGED <<schedule, job, proposals, sent, work, beat, asked, now, hist>>

SendRecovered(s) ==
  /\ s \in swept.ready /\ swept.recovered \cup swept.exhausted = {}
  /\ swept' = [swept EXCEPT !.ready = @ \ {s}]
  /\ sent' = sent \cup {s}
  /\ UNCHANGED <<schedule, job, scan, proposals, work, beat, asked, now, hist>>

(* A process dies with rows committed and nothing sent: the dispatcher,    *)
(* the recovery task, or the API between a commit and its delivery.        *)
SenderDies ==
  /\ left.deaths > 0 /\ left' = [left EXCEPT !.deaths = @ - 1]
  /\ \/ /\ beat.at # "resting" /\ beat' = Resting
        /\ dropped' = dropped \cup beat.made
        /\ UNCHANGED <<swept, asked>>
     \/ /\ Swept # {}
        /\ swept' = [recovered |-> {}, exhausted |-> {}, ready |-> {}]
        /\ dropped' = dropped \cup (swept.recovered \cup swept.ready)
        /\ UNCHANGED <<beat, asked>>
     \/ /\ asked # {} /\ asked' = {} /\ dropped' = dropped \cup asked
        /\ UNCHANGED <<beat, swept>>
  /\ UNCHANGED <<schedule, job, scan, proposals, sent, work, now, lossy, repeated>>

Tick == now < MaxTime /\ now' = now + 1
        /\ UNCHANGED <<schedule, job, scan, proposals, sent, work, beat, swept,
                       asked, hist>>

-----------------------------------------------------------------------------

Dispatch ==
  \/ ListDue \/ MoveOn \/ SendMade
  \/ \E h \in Hosts : SkipOverlap(h) \/ TakeDue(h)
  \/ \E d \in beat.due : CreateScheduled(d)

Recover == Sweep \/ \E s \in Scans : RecordSweep(s) \/ SendRecovered(s)

WorkerStep(w) ==
  \/ \E s \in Scans : ClaimScan(w, s)
  \/ StartScan(w) \/ RecordRunning(w) \/ Collect(w) \/ Analyse(w)
  \/ Propose(w) \/ RecordCompleted(w) \/ CompleteScan(w) \/ Announce(w)
  \/ FailScan(w) \/ RecordFailed(w)

Next ==
  \/ Dispatch \/ Recover \/ SenderDies \/ Tick
  \/ \E h \in Hosts : AskScan(h) \/ SaveSchedule(h)
  \/ \E s \in Scans : SendAsked(s) \/ Lapse(s)
  \/ \E w \in Workers : WorkerStep(w) \/ RaiseError(w) \/ CancelTask(w) \/ Crash(w)

Spec == Init /\ [][Next]_vars

-----------------------------------------------------------------------------
(* skip_if_running: a host never has two scheduled scans under way, though *)
(* the check, the job, the schedule and the delivery are separate steps    *)
(* and scans are retried, recovered and delivered twice in between.        *)
ScheduledScansDoNotOverlap ==
  \A s, t \in Scans :
    /\ s.host = t.host /\ s.trigger = "scheduled" /\ t.trigger = "scheduled"
    /\ {job[s].status, job[t].status} \subseteq {"queued", "running"}
    => s = t

(* However often a scan is delivered, retried or swept, it proposes a      *)
(* second remediation only when the attempt that left the first was cut    *)
(* short after it: by an exception, unless a process was lost.             *)
OneProposalPerScan ==
  \A s \in Scans \ lossy : proposals[s].standing <= 1

(* The scan's record and its job tell the same story once no worker holds  *)
(* it, unless a process was lost or the operator sent a waiting retry off  *)
(* before its record was written; save for one case, an exception after    *)
(* the job was completed, whose handler writes "failed" on the record.     *)
ScanRecordAgrees ==
  \A s \in Scans \ (lossy \cup repeated) :
    Deserted(s) /\ job[s].status # "absent" =>
      \/ scan[s] = job[s].status
      \/ scan[s] = "failed" /\ job[s].status = "completed" /\ proposals[s].soured

(* A queued scan is never forgotten: its delivery is in the broker, or     *)
(* with a process that has still to send it, unless that process died or   *)
(* gave up between the commit and the delivery.                            *)
QueuedScanIsExpected ==
  \A s \in Scans :
    job[s].status = "queued" =>
      \/ s \in sent \cup asked \cup beat.made \cup swept.recovered \cup swept.ready
      \/ \E w \in Workers : At(w, "failed") /\ work[w].of = s
      \/ s \in dropped

(* The scan jobs as JobPromise sees them: entitled is the worker that has  *)
(* the scan, under a lease that has not run out.                           *)
PromisedState == [s \in Scans |-> PromisedOf(job[s])]
PromisedTries == [s \in Scans |-> PromisedTriesOf(job[s])]
Entitled(w, s) == ~At(w, "idle") /\ work[w].of = s /\ HoldsLease(job[s], w, 0)
PromisedLive == [s \in Scans |-> {w \in Workers : Entitled(w, s)}]

Promise == INSTANCE JobPromise
             WITH Jobs  <- Scans,
                  state <- PromisedState,
                  tries <- PromisedTries,
                  live  <- PromisedLive

(* However a scan is asked for, delivered, retried, swept or lost, its job *)
(* keeps what the job layer promises.                                      *)
KeepsPromise == Promise!PSpec

=============================================================================
