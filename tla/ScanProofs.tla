------------------------------ MODULE ScanProofs ------------------------------
(***************************************************************************)
(* Scans, for every set of hosts, workers and faults: a scheduled scan is  *)
(* alone on its host, a scan proposes twice only when an attempt was cut   *)
(* short behind its proposal, its record says what its job says, a queued  *)
(* one has a delivery to come, and scan jobs implement JobPromise.  At the *)
(* end Analysis, which is what a scan computes between Collect and         *)
(* Propose: whatever a provider says, it makes no plan over disputed       *)
(* evidence, hides no risk and leaves out no reboot.                       *)
(*                                                                         *)
(* The argument about the scans goes by the shape of a step: who took it,  *)
(* at which scan, and what it left of the job, the record and the          *)
(* delivery.  Each part of the invariant is then kept by every shape.      *)
(***************************************************************************)
EXTENDS ScanSchedule, Analysis, JobRowProofs, TLAPS

-----------------------------------------------------------------------------
(* Types.                                                                  *)

LEMMA SomeScan == (CHOOSE s \in Scans : TRUE) \in Scans /\ (CHOOSE h \in Hosts : TRUE) \in Hosts
<1>1. PICK h \in Hosts : TRUE
  BY ScanAssumption
<1>2. [host |-> h, trigger |-> "manual", minute |-> 0] \in Scans
  BY ScanAssumption DEF Scans
<1> QED
  BY <1>1, <1>2

Beats ==
  [at : {"resting", "listing", "creating", "moving", "sending"},
   time : 0 .. MaxTime, due : SUBSET (Hosts \X (0 .. MaxTime)),
   host : Hosts, made : SUBSET Scans]

LEMMA RestingTypes ==
  /\ Idle \in Tasks /\ Idle.at = "idle"
  /\ Resting \in Beats /\ Resting.at = "resting" /\ Resting.made = {} /\ Resting.due = {}
  /\ Resting.time = 0
<1>1. NoRow \in Row
  BY NewRowIsRow
<1>2. Idle \in Tasks /\ Idle.at = "idle"
  BY <1>1, SomeScan DEF Idle, Tasks, Points
<1>3. Resting \in Beats
  BY SomeScan, ScanAssumption DEF Resting, Beats
<1> QED
  BY <1>2, <1>3 DEF Resting

(* What clearing a row's history leaves of it.                             *)
LEMMA PlainIsRow ==
  ASSUME NEW r \in Row
  PROVE  /\ Plain(r) \in Row
         /\ Plain(r).status = r.status /\ Plain(r).owner = r.owner
         /\ Plain(r).expires = r.expires /\ Plain(r).phase = r.phase
         /\ r.status \notin Terminal => Plain(r).attempts = r.attempts
BY DEF Plain, Row, Failures, MarkerPhases

LEMMA InitTypes == Init => TypeOK
<1> SUFFICES ASSUME Init PROVE TypeOK
  OBVIOUS
<1>1. NoRow \in Row
  BY NewRowIsRow
<1>2. left \in [requests : Nat, losses : Nat, deaths : Nat]
  BY ScanAssumption DEF Init
<1>3. beat \in Beats /\ work \in [Workers -> Tasks]
  BY RestingTypes DEF Init
<1>4. schedule \in [Hosts -> Schedules] /\ now \in 0 .. MaxTime
  BY ScanAssumption DEF Init, Schedules
<1> QED
  BY <1>1, <1>2, <1>3, <1>4 DEF Init, TypeOK, ScanStates, Proposals, Beats

LEMMA MovedSchedule ==
  ASSUME TypeOK, NEW h \in Hosts, MoveSchedule(h)
  PROVE  schedule' \in [Hosts -> Schedules]
<1>1. beat.time + 1 \in 0 .. MaxTime + 1
  BY ScanAssumption DEF TypeOK
<1> QED
  BY <1>1 DEF TypeOK, MoveSchedule, Schedules

LEMMA DispatchTypes ==
  ASSUME TypeOK, Dispatch
  PROVE  TypeOK'
<1> USE DEF OutsideBeat, hist
<1>1. beat \in Beats
  BY DEF TypeOK, Beats
<1>2. ASSUME beat' \in Beats, schedule' \in [Hosts -> Schedules],
             job' \in [Scans -> Row], scan' \in [Scans -> ScanStates],
             sent' \subseteq Scans, dropped' \subseteq Scans,
             UNCHANGED <<proposals, work, swept, asked, now, left, lossy, repeated>>
      PROVE  TypeOK'
  BY <1>2 DEF TypeOK, Beats
<1>3. CASE ListDue
  <2> DEFINE due == {h \in Hosts : schedule[h].enabled /\ schedule[h].next <= now}
             pairs == {<<h, schedule[h].next>> : h \in due}
  <2>1. pairs \in SUBSET (Hosts \X (0 .. MaxTime))
    <3> SUFFICES ASSUME NEW h \in due PROVE schedule[h].next \in 0 .. MaxTime
      OBVIOUS
    <3>1. schedule[h].next \in 0 .. MaxTime + 1 /\ now \in 0 .. MaxTime
          /\ schedule[h].next <= now
      BY DEF TypeOK, Schedules
    <3> QED
      BY <3>1, ScanAssumption
  <2>2. beat' = [Resting EXCEPT !.at = "listing", !.time = now, !.due = pairs]
    BY <1>3 DEF ListDue
  <2>3. now \in 0 .. MaxTime
    BY DEF TypeOK
  <2> HIDE DEF pairs
  <2>4. beat' \in Beats
    BY <2>1, <2>2, <2>3, RestingTypes DEF Beats
  <2> QED
    BY <1>2, <1>3, <2>4 DEF ListDue, TypeOK
<1>4. ASSUME NEW h \in Hosts, SkipOverlap(h) \/ TakeDue(h)
      PROVE  TypeOK'
  <2>1. beat' \in Beats
    BY <1>1, <1>4 DEF SkipOverlap, TakeDue, Beats
  <2>2. schedule' \in [Hosts -> Schedules]
    BY <1>4, MovedSchedule DEF SkipOverlap, TakeDue, TypeOK
  <2> QED
    BY <1>2, <1>4, <2>1, <2>2 DEF SkipOverlap, TakeDue, TypeOK
<1>5. ASSUME NEW d \in beat.due, CreateScheduled(d)
      PROVE  TypeOK'
  <2> DEFINE s == Scheduled(d[1], d[2])
  <2>1. d[1] \in Hosts /\ s \in Scans
    BY <1>1 DEF Beats, Scheduled, Scans
  <2>2. /\ job' = job \/ job' = [job EXCEPT ![s] = NewRow("queued")]
        /\ scan' = scan \/ scan' = [scan EXCEPT ![s] = "queued"]
        /\ \/ beat' = [beat EXCEPT !.at = "moving", !.made = @ \cup {s}]
           \/ beat' = Resting
        /\ schedule' = schedule \/ MoveSchedule(d[1])
        /\ dropped' = dropped \/ dropped' = dropped \cup beat.made
        /\ UNCHANGED <<proposals, sent, work, swept, asked, now, left, lossy, repeated>>
    BY <1>5 DEF CreateScheduled
  <2> HIDE DEF s
  <2>3. job' \in [Scans -> Row] /\ scan' \in [Scans -> ScanStates]
    BY <2>2, NewRowIsRow DEF TypeOK, ScanStates
  <2>4. beat' \in Beats
    <3>1. [beat EXCEPT !.at = "moving", !.made = @ \cup {s}] \in Beats
      BY <1>1, <2>1 DEF Beats
    <3> QED
      BY <2>2, <3>1, RestingTypes
  <2>5. schedule' \in [Hosts -> Schedules]
    BY <2>1, <2>2, MovedSchedule DEF TypeOK
  <2>6. dropped' \subseteq Scans /\ sent' \subseteq Scans
    BY <1>1, <2>2 DEF TypeOK, Beats
  <2> QED
    BY <1>2, <2>2, <2>3, <2>4, <2>5, <2>6
<1>6. CASE MoveOn
  <2>1. beat' \in Beats
    BY <1>1, <1>6 DEF MoveOn, Beats
  <2>2. schedule' \in [Hosts -> Schedules]
    BY <1>1, <1>6, MovedSchedule DEF MoveOn, Beats
  <2> QED
    BY <1>2, <1>6, <2>1, <2>2 DEF MoveOn, TypeOK
<1>7. CASE SendMade
  <2>1. CASE beat.made = {}
    <3>1. beat' = Resting /\ sent' = sent
      BY <1>7, <2>1 DEF SendMade
    <3> QED
      BY <1>2, <1>7, <3>1, RestingTypes DEF SendMade, TypeOK
  <2>2. CASE beat.made # {}
    <3>1. PICK s \in beat.made :
            /\ sent' = sent \cup {s}
            /\ beat' = [beat EXCEPT !.at = "sending", !.made = @ \ {s}]
      BY <1>7, <2>2 DEF SendMade
    <3>2. s \in Scans
      BY <1>1 DEF Beats
    <3>3. beat' \in Beats
      BY <1>1, <3>1 DEF Beats
    <3>4. sent' \subseteq Scans
      BY <3>1, <3>2 DEF TypeOK
    <3> QED
      BY <1>2, <1>7, <3>3, <3>4 DEF SendMade, TypeOK
  <2> QED
    BY <2>1, <2>2
<1> QED
  BY <1>3, <1>4, <1>5, <1>6, <1>7 DEF Dispatch

LEMMA OperatorTypes ==
  ASSUME TypeOK, NEW h \in Hosts, AskScan(h) \/ SaveSchedule(h)
  PROVE  TypeOK'
<1> USE DEF hist
<1>1. now \in 0 .. MaxTime /\ now + 1 \in 0 .. MaxTime + 1
  BY ScanAssumption DEF TypeOK
<1>2. left' \in [requests : Nat, losses : Nat, deaths : Nat]
  BY DEF AskScan, SaveSchedule, TypeOK
<1>3. CASE AskScan(h)
  <2> DEFINE s == [host |-> h, trigger |-> "manual", minute |-> now]
  <2>1. s \in Scans
    BY <1>1 DEF Scans
  <2>2. /\ job' = job \/ job' = [job EXCEPT ![s] = NewRow("queued")]
        /\ scan' = scan \/ scan' = [scan EXCEPT ![s] = "queued"]
        /\ asked' = asked \/ asked' = asked \cup {s}
        /\ repeated' = repeated \/ repeated' = repeated \cup {s}
        /\ UNCHANGED <<schedule, proposals, sent, work, beat, swept, now, lossy, dropped>>
    BY <1>3 DEF AskScan
  <2> HIDE DEF s
  <2>3. job' \in [Scans -> Row] /\ scan' \in [Scans -> ScanStates]
    BY <2>2, NewRowIsRow DEF TypeOK, ScanStates
  <2> QED
    BY <1>2, <2>1, <2>2, <2>3 DEF TypeOK
<1>4. CASE SaveSchedule(h)
  <2>1. schedule' \in [Hosts -> Schedules]
    BY <1>1, <1>4 DEF SaveSchedule, TypeOK, Schedules
  <2> QED
    BY <1>2, <1>4, <2>1 DEF SaveSchedule, TypeOK
<1> QED
  BY <1>3, <1>4

LEMMA SendAskedTypes ==
  ASSUME TypeOK, NEW s \in Scans, SendAsked(s) \/ Lapse(s)
  PROVE  TypeOK'
<1>1. CASE SendAsked(s)
  BY <1>1 DEF SendAsked, TypeOK, hist
<1>2. CASE Lapse(s)
  <2>1. job' \in [Scans -> Row]
    <3>1. job[s] \in Row /\ [job[s] EXCEPT !.expires = 0] \in Row
      BY DEF TypeOK, Row
    <3> QED
      BY <1>2, <3>1 DEF Lapse, TypeOK
  <2>2. left' \in [requests : Nat, losses : Nat, deaths : Nat]
    BY <1>2 DEF Lapse, Lose, TypeOK
  <2> QED
    BY <1>2, <2>1, <2>2 DEF Lapse, TypeOK
<1> QED
  BY <1>1, <1>2

(* A step of a worker, by the variables it may change.                     *)
LEMMA WorkerTypes ==
  ASSUME TypeOK, NEW w \in Workers, NEW s \in Scans, NEW x \in Tasks, NEW r \in Row,
         NEW status \in ScanStates,
         work' = work \/ work' = [work EXCEPT ![w] = x],
         job' = job \/ job' = [job EXCEPT ![s] = r],
         scan' = scan \/ scan' = [scan EXCEPT ![s] = status],
         proposals' \in [Scans -> Proposals],
         sent' \subseteq sent \cup {s}, dropped' \subseteq dropped,
         UNCHANGED OutsideWork
  PROVE  TypeOK'
<1>1. work' \in [Workers -> Tasks] /\ job' \in [Scans -> Row]
  BY DEF TypeOK
<1>2. scan' \in [Scans -> ScanStates] /\ proposals' \in [Scans -> Proposals]
  BY DEF TypeOK
<1> QED
  BY <1>1, <1>2 DEF TypeOK, OutsideWork

-----------------------------------------------------------------------------
(* The shapes of a worker's step.                                          *)

(* A worker that may still write its scan's job...                         *)
Active(w) == work[w].at \notin {"idle", "failed"} /\ work[w].row.status = "running"

(* ... and one that has completed it.                                      *)
Done(w) == work[w].at \in {"attaching", "raised"} /\ work[w].row.status = "completed"

OwnRow ==
  \A w \in Workers :
    work[w].at \notin {"idle", "failed"} =>
      \/ Active(w) /\ work[w].row.owner = w /\ ~At(w, "attaching")
      \/ Done(w)

Standing(s) == proposals[s].standing

(* The seven shapes of a worker's step at its scan: it lets go, saves a    *)
(* phase, moves on, completes the job, leaves or raises after that, fails  *)
(* the job, or records the failure.                                        *)
LetsGo(w, s) ==
  /\ Active(w) /\ ~Owns(w)
  /\ work'[w] = Idle
  /\ UNCHANGED <<job, scan, proposals>> /\ sent' \in {sent, sent \cup {s}}

SavesPhase(w, s) ==
  /\ Owns(w) /\ work[w].at \in {"claimed", "collecting"}
  /\ work'[w].at \in {"starting", "analysing"} /\ work'[w].of = s
  /\ work'[w].row.status = "running" /\ work'[w].row.owner = w
  /\ work'[w].row.attempts = work[w].row.attempts
  /\ job'[s].status = "running" /\ job'[s].owner = w /\ job'[s].expires >= job[s].expires
  /\ job'[s].attempts = work[w].row.attempts
  /\ UNCHANGED <<scan, proposals, sent>>

MovesOn(w, s) ==
  /\ Active(w) /\ work'[w].of = s /\ work'[w].row = work[w].row
  /\ UNCHANGED <<job, sent>>
  /\ \/ /\ At(w, "starting") /\ At(w, "collecting")' /\ scan'[s] = "running"
        /\ UNCHANGED proposals
     \/ /\ At(w, "analysing") /\ Owns(w) /\ At(w, "proposing")'
        /\ UNCHANGED <<scan, proposals>>
     \/ /\ work[w].at \notin {"idle", "raised", "failed"} /\ At(w, "raised")'
        /\ UNCHANGED scan
        /\ \/ work[w].at \notin {"recording", "completing"} /\ UNCHANGED proposals
           \/ proposals'[s].standing = 0
     \/ /\ At(w, "proposing") /\ At(w, "recording")' /\ proposals'[s].standing = Standing(s) + 1
        /\ UNCHANGED scan
     \/ /\ At(w, "recording") /\ At(w, "completing")' /\ scan'[s] = "completed"
        /\ UNCHANGED proposals

Completes(w, s) ==
  /\ At(w, "completing") /\ Owns(w) /\ Active(w)
  /\ At(w, "attaching")' /\ work'[w].of = s /\ work'[w].row.status = "completed"
  /\ job'[s].status = "completed"
  /\ UNCHANGED <<scan, proposals, sent>>

Announces(w, s) ==
  /\ At(w, "attaching") /\ Done(w)
  /\ UNCHANGED <<job, scan, sent>>
  /\ \/ work'[w] = Idle /\ UNCHANGED proposals
     \/ /\ At(w, "raised")' /\ work'[w].of = s /\ work'[w].row = work[w].row
        /\ proposals'[s].standing = 0 /\ proposals'[s].soured

Fails(w, s) ==
  /\ At(w, "raised") /\ (Active(w) \/ Done(w))
  /\ At(w, "failed")' /\ work'[w].of = s /\ work'[w].row = job'[s]
  /\ UNCHANGED <<scan, proposals, sent>>
  /\ \/ ~Owns(w) /\ job' = job
     \/ /\ Owns(w) /\ job'[s].status \in {"queued", "failed"}
        /\ job'[s].status = "queued" =>
             /\ job'[s].phase = "retry_scheduled" /\ HasAttemptLeft(job'[s])
             /\ job'[s].attempts = work[w].row.attempts

RecordsFailure(w, s) ==
  /\ At(w, "failed") /\ work'[w] = Idle
  /\ scan'[s] = IF work[w].row.status = "queued" THEN "queued" ELSE "failed"
  /\ UNCHANGED <<job, proposals>> /\ RetryAfter(s, work[w].row)

TaskStep(w) ==
  \/ StartScan(w) \/ RecordRunning(w) \/ Collect(w) \/ Analyse(w)
  \/ Propose(w) \/ RecordCompleted(w) \/ CompleteScan(w) \/ Announce(w)
  \/ FailScan(w) \/ RecordFailed(w) \/ RaiseError(w) \/ CancelTask(w)

(* Only the worker's own scan and task change, and its delivery may return.*)
OnlyAt(w, s) ==
  /\ \A v \in Workers : v # w => work'[v] = work[v]
  /\ \A u \in Scans : u # s => /\ job'[u] = job[u] /\ scan'[u] = scan[u]
                               /\ proposals'[u] = proposals[u]
  /\ sent \subseteq sent' /\ sent' \subseteq sent \cup {s}
  /\ dropped' = dropped /\ UNCHANGED OutsideWork

LEMMA LeaseLostGoes ==
  ASSUME TypeOK, NEW w \in Workers, Active(w), ~Owns(w), LeaseLost(w),
         UNCHANGED <<scan, proposals, dropped, OutsideWork>>
  PROVE  /\ TypeOK'
         /\ OnlyAt(w, work[w].of)
         /\ LetsGo(w, work[w].of)
<1> DEFINE s == work[w].of
<1>1. s \in Scans /\ job[s] \in Row /\ scan[s] \in ScanStates
  BY DEF TypeOK, Tasks
<1>2. sent' \in {sent, sent \cup {s}}
  BY DEF LeaseLost, RetryAfter
<1>3. work' = [work EXCEPT ![w] = Idle] /\ job' = job
  BY DEF LeaseLost, Finish
<1> HIDE DEF s
<1>4. TypeOK'
  BY <1>1, <1>2, <1>3, RestingTypes, WorkerTypes DEF TypeOK
<1>5. OnlyAt(w, s) /\ LetsGo(w, s)
  BY <1>1, <1>2, <1>3 DEF OnlyAt, LetsGo, TypeOK
<1> QED
  BY <1>4, <1>5 DEF s

(* Saving the worker's copy with another phase.                            *)
LEMMA PhaseSaved ==
  ASSUME TypeOK, OwnRow, NEW w \in Workers, NEW copy, NEW phase \in Phases,
         NEW point \in {"starting", "analysing"},
         work[w].at \in {"claimed", "collecting"}, Owns(w),
         copy = [work[w].row EXCEPT !.phase = phase],
         Save(w, copy),
         work' = [work EXCEPT ![w].at = point, ![w].row = copy],
         UNCHANGED <<sent, scan, proposals, dropped, OutsideWork>>
  PROVE  /\ TypeOK'
         /\ OnlyAt(w, work[w].of)
         /\ SavesPhase(w, work[w].of)
<1> DEFINE s == work[w].of
           r == SavedOver(job[s], copy)
           x == [work[w] EXCEPT !.at = point, !.row = copy]
<1>1. s \in Scans /\ job[s] \in Row /\ work[w] \in Tasks /\ scan[s] \in ScanStates
  BY DEF TypeOK, Tasks
<1>2. /\ copy \in Row /\ copy.status = "running" /\ copy.owner = w
      /\ copy.expires = work[w].row.expires /\ copy.attempts = work[w].row.attempts
  BY <1>1 DEF OwnRow, Active, Done, Tasks, Row
<1>3. /\ r \in Row /\ r.status = "running" /\ r.owner = w
      /\ r.expires >= job[s].expires /\ r.attempts = copy.attempts
  <2>1. r \in Row
    BY <1>1, <1>2, SavedOverIsRow
  <2>2. r = [copy EXCEPT !.expires = LaterOf(copy.expires, job[s].expires)]
    BY <1>2 DEF SavedOver
  <2>3. LaterOf(copy.expires, job[s].expires) >= job[s].expires
    BY <1>1, <1>2, NoLeaseIsInt DEF LaterOf, Row
  <2> HIDE DEF r
  <2> QED
    BY <1>2, <2>1, <2>2, <2>3 DEF Row
<1>4. x \in Tasks /\ x.at = point /\ x.of = s /\ x.row = copy
  BY <1>1, <1>2 DEF Tasks, Points
<1>5. job' = [job EXCEPT ![s] = r] /\ work' = [work EXCEPT ![w] = x]
  BY DEF Save, TypeOK
<1> HIDE DEF s, r, x
<1>6. TypeOK'
  <2>1. proposals' \in [Scans -> Proposals] /\ sent' = sent
    BY DEF TypeOK
  <2> QED
    BY <1>1, <1>3, <1>4, <1>5, <2>1, WorkerTypes
<1>7. OnlyAt(w, s)
  BY <1>1, <1>5 DEF OnlyAt, TypeOK
<1>8. SavesPhase(w, s)
  <2>1. job'[s] = r /\ work'[w] = x
    BY <1>1, <1>5 DEF TypeOK
  <2>2. /\ work'[w].at = point /\ work'[w].of = s
        /\ work'[w].row.status = "running" /\ work'[w].row.owner = w
        /\ work'[w].row.attempts = work[w].row.attempts
    BY <1>2, <1>4, <2>1
  <2>3. /\ job'[s].status = "running" /\ job'[s].owner = w /\ job'[s].expires >= job[s].expires
        /\ job'[s].attempts = work[w].row.attempts
    BY <1>2, <1>3, <2>1
  <2> QED
    BY <2>2, <2>3, Zenon DEF SavesPhase
<1> QED
  BY <1>6, <1>7, <1>8 DEF s

(* A step that only moves the worker on.                                   *)
LEMMA PointMoved ==
  ASSUME TypeOK, NEW w \in Workers, NEW point \in Points \ {"idle"}, Move(w, point),
         NEW status \in ScanStates, ~At(w, "idle"),
         proposals' \in [Scans -> Proposals],
         \A u \in Scans : u # work[w].of => proposals'[u] = proposals[u],
         scan' = scan \/ scan' = [scan EXCEPT ![work[w].of] = status],
         UNCHANGED <<job, sent, dropped, OutsideWork>>
  PROVE  /\ TypeOK' /\ OnlyAt(w, work[w].of)
         /\ work'[w].at = point /\ work'[w].of = work[w].of /\ work'[w].row = work[w].row
<1> DEFINE s == work[w].of
           x == [work[w] EXCEPT !.at = point]
<1>1. s \in Scans /\ work[w] \in Tasks /\ job[s] \in Row
  BY DEF TypeOK, Tasks
<1>2. x \in Tasks /\ x.at = point /\ x.of = s /\ x.row = work[w].row
  BY <1>1 DEF Tasks
<1>3. work' = [work EXCEPT ![w] = x]
  BY DEF Move, TypeOK
<1> HIDE DEF x, s
<1>4. scan' = scan \/ scan' = [scan EXCEPT ![s] = status]
  BY DEF s
<1>5. \A u \in Scans : u # s => proposals'[u] = proposals[u]
  BY DEF s
<1>6. TypeOK'
  <2>1. work' \in [Workers -> Tasks] /\ scan' \in [Scans -> ScanStates]
    BY <1>1, <1>2, <1>3, <1>4 DEF TypeOK
  <2>2. proposals' \in [Scans -> Proposals]
    BY <1>5 DEF TypeOK
  <2> QED
    BY <2>1, <2>2 DEF TypeOK, OutsideWork
<1>7. OnlyAt(w, s)
  BY <1>1, <1>3, <1>4, <1>5 DEF OnlyAt, TypeOK
<1>8. work'[w] = x
  BY <1>3 DEF TypeOK
<1> QED
  BY <1>2, <1>6, <1>7, <1>8 DEF s

(* Every step of a worker at a scan has one of the seven shapes.           *)
LEMMA TaskShapes ==
  ASSUME TypeOK, OwnRow, NEW w \in Workers, TaskStep(w)
  PROVE  LET s == work[w].of
         IN  /\ TypeOK' /\ s \in Scans /\ ~At(w, "idle") /\ OnlyAt(w, s)
             /\ \/ LetsGo(w, s) \/ SavesPhase(w, s) \/ MovesOn(w, s)
                \/ Completes(w, s) \/ Announces(w, s) \/ Fails(w, s) \/ RecordsFailure(w, s)
<1> DEFINE s == work[w].of
           Shape == \/ LetsGo(w, s) \/ SavesPhase(w, s) \/ MovesOn(w, s)
                    \/ Completes(w, s) \/ Announces(w, s) \/ Fails(w, s) \/ RecordsFailure(w, s)
<1>1. /\ s \in Scans /\ job[s] \in Row /\ work[w] \in Tasks /\ work[w].row \in Row
      /\ scan[s] \in ScanStates
  BY DEF TypeOK, Tasks
<1> SUFFICES TypeOK' /\ ~At(w, "idle") /\ OnlyAt(w, s) /\ Shape
  BY <1>1
<1>2. ASSUME Active(w), ~Owns(w), LeaseLost(w),
             UNCHANGED <<scan, proposals, dropped, OutsideWork>>
      PROVE  TypeOK' /\ ~At(w, "idle") /\ OnlyAt(w, s) /\ Shape
  BY <1>2, LeaseLostGoes DEF Active, At
<1>14. /\ work[w].at \in {"claimed", "starting", "collecting", "analysing", "proposing",
                          "recording", "completing"} => Active(w)
       /\ At(w, "attaching") => Done(w)
       /\ At(w, "raised") => Active(w) \/ Done(w)
  BY DEF OwnRow, Done, At
<1>3. CASE StartScan(w) \/ Collect(w)
  <2>1. work[w].at \in {"claimed", "collecting"} /\ Active(w)
    BY <1>3, <1>14 DEF StartScan, Collect, At
  <2>2. CASE ~Owns(w)
    BY <1>2, <1>3, <2>1, <2>2 DEF StartScan, Collect
  <2>3. CASE Owns(w) /\ StartScan(w)
    <3>1. "collecting_evidence" \in Phases
      BY ScanAssumption
    <3> QED
      BY <2>1, <2>3, <3>1, PhaseSaved DEF StartScan, At
  <2>4. CASE Owns(w) /\ Collect(w)
    <3>1. "multi_agent_analysis" \in Phases
      BY ScanAssumption
    <3> QED
      BY <2>1, <2>4, <3>1, PhaseSaved DEF Collect, At
  <2> QED
    BY <1>3, <2>2, <2>3, <2>4
<1>4. CASE RecordRunning(w)
  <2>1. /\ At(w, "starting") /\ Move(w, "collecting") /\ scan' = [scan EXCEPT ![s] = "running"]
        /\ UNCHANGED <<job, proposals, sent, dropped, OutsideWork>> /\ ~At(w, "idle")
    BY <1>4 DEF RecordRunning, Record, At
  <2>2. /\ TypeOK' /\ OnlyAt(w, s)
        /\ work'[w].at = "collecting" /\ work'[w].of = s /\ work'[w].row = work[w].row
    BY <2>1, PointMoved DEF Points, ScanStates, TypeOK
  <2>3. scan'[s] = "running"
    BY <1>1, <2>1 DEF TypeOK
  <2> QED
    BY <1>4, <1>14, <2>1, <2>2, <2>3 DEF MovesOn, At, RecordRunning
<1>5. CASE Analyse(w)
  <2>1. Active(w) /\ ~At(w, "idle")
    BY <1>5, <1>14 DEF Analyse, At
  <2>2. CASE ~Owns(w)
    BY <1>2, <1>5, <2>1, <2>2 DEF Analyse
  <2>3. CASE Owns(w)
    <3>1. Move(w, "proposing")
      BY <1>5, <2>3 DEF Analyse
    <3>2. At(w, "analysing") /\ UNCHANGED <<job, scan, proposals, sent, dropped, OutsideWork>>
      BY <1>5, <2>3 DEF Analyse
    <3>3. /\ TypeOK' /\ OnlyAt(w, s)
          /\ work'[w].at = "proposing" /\ work'[w].of = s /\ work'[w].row = work[w].row
      BY <1>1, <2>1, <3>1, <3>2, PointMoved DEF Points, TypeOK
    <3> QED
      BY <2>1, <2>3, <3>2, <3>3 DEF MovesOn, At
  <2> QED
    BY <2>2, <2>3
<1>6. CASE RaiseError(w)
  <2> DEFINE late == [proposals[s] EXCEPT !.standing = 0,
                                          !.soured = @ \/ At(w, "attaching")]
  <2>1. /\ work[w].at \in Points \ {"idle", "raised", "failed"} /\ Move(w, "raised")
        /\ UNCHANGED <<job, scan, sent, dropped, OutsideWork>>
        /\ IF work[w].at \in {"recording", "completing", "attaching"}
           THEN proposals' = [proposals EXCEPT ![s] = late]
           ELSE proposals' = proposals
    BY <1>6, <1>1 DEF RaiseError, TypeOK
  <2>2. /\ late \in Proposals /\ late.standing = 0
        /\ At(w, "attaching") => late.soured
    <3> DEFINE told == proposals[s].soured \/ At(w, "attaching")
    <3>1. proposals[s] \in Proposals /\ told \in BOOLEAN
      BY <1>1 DEF TypeOK, Proposals, At
    <3>2. late = [proposals[s] EXCEPT !.standing = 0, !.soured = told]
      BY <3>1 DEF Proposals
    <3>3. At(w, "attaching") => told
      OBVIOUS
    <3> HIDE DEF told, late
    <3> QED
      BY <3>1, <3>2, <3>3 DEF Proposals
  <2> HIDE DEF late
  <2>3. ~At(w, "idle") /\ proposals \in [Scans -> Proposals] /\ (Active(w) \/ Done(w))
    BY <1>1, <2>1 DEF At, TypeOK, OwnRow
  <2>4. /\ TypeOK' /\ OnlyAt(w, s)
        /\ work'[w].at = "raised" /\ work'[w].of = s /\ work'[w].row = work[w].row
    <3>1. /\ proposals' \in [Scans -> Proposals]
          /\ \A u \in Scans : u # s => proposals'[u] = proposals[u]
      BY <1>1, <2>1, <2>2, <2>3
    <3> QED
      BY <1>1, <2>1, <2>3, <3>1, PointMoved DEF Points
  <2>5. \/ work[w].at \notin {"recording", "completing", "attaching"} /\ proposals' = proposals
        \/ proposals'[s] = late
    BY <1>1, <2>1, <2>3
  <2>6. CASE Done(w)
    <3>1. At(w, "attaching") /\ proposals'[s] = late
      BY <2>1, <2>5, <2>6 DEF Done, At
    <3>2. proposals'[s].standing = 0 /\ proposals'[s].soured
      BY <2>2, <3>1
    <3>3. At(w, "raised")'
      BY <2>4 DEF At
    <3>4. Announces(w, s)
      BY <2>1, <2>4, <2>6, <3>1, <3>2, <3>3 DEF Announces
    <3> QED
      BY <2>3, <2>4, <3>4
  <2>7. CASE Active(w)
    <3>1. ~At(w, "attaching")
      BY <1>1, <2>7 DEF OwnRow, Active, Done
    <3>2. \/ work[w].at \notin {"recording", "completing"} /\ UNCHANGED proposals
          \/ proposals'[s].standing = 0
      BY <2>2, <2>5, <3>1 DEF At
    <3>3. At(w, "raised")' /\ work[w].at \notin {"idle", "raised", "failed"}
      BY <2>1, <2>4 DEF At
    <3>4. MovesOn(w, s)
      BY <2>1, <2>4, <2>7, <3>2, <3>3 DEF MovesOn
    <3> QED
      BY <2>3, <2>4, <3>4
  <2> QED
    BY <2>1, <2>3, <2>4, <2>6, <2>7
<1>7. CASE Propose(w)
  <2> DEFINE one == [proposals[s] EXCEPT !.standing = @ + 1]
  <2>1. /\ At(w, "proposing") /\ Move(w, "recording") /\ ~At(w, "idle")
        /\ proposals' = [proposals EXCEPT ![s] = one]
        /\ UNCHANGED <<job, scan, sent, dropped, OutsideWork>>
    BY <1>1, <1>7 DEF Propose, At, TypeOK
  <2>4. one \in Proposals /\ one.standing = proposals[s].standing + 1
    BY <1>1 DEF TypeOK, Proposals
  <2> HIDE DEF one
  <2>5. /\ proposals' \in [Scans -> Proposals] /\ proposals'[s] = one
        /\ \A u \in Scans : u # s => proposals'[u] = proposals[u]
    BY <1>1, <2>1, <2>4 DEF TypeOK
  <2>2. /\ TypeOK' /\ OnlyAt(w, s)
        /\ work'[w].at = "recording" /\ work'[w].of = s /\ work'[w].row = work[w].row
    BY <1>1, <2>1, <2>5, PointMoved DEF Points
  <2>3. proposals'[s].standing = Standing(s) + 1
    BY <2>4, <2>5 DEF Standing
  <2> QED
    BY <1>7, <1>14, <2>1, <2>2, <2>3 DEF MovesOn, At, Propose
<1>8. CASE RecordCompleted(w)
  <2>1. /\ At(w, "recording") /\ Move(w, "completing") /\ ~At(w, "idle")
        /\ scan' = [scan EXCEPT ![s] = "completed"]
        /\ UNCHANGED <<job, proposals, sent, dropped, OutsideWork>>
    BY <1>8 DEF RecordCompleted, Record, At
  <2>2. /\ TypeOK' /\ OnlyAt(w, s)
        /\ work'[w].at = "completing" /\ work'[w].of = s /\ work'[w].row = work[w].row
    BY <2>1, PointMoved DEF Points, ScanStates, TypeOK
  <2>3. scan'[s] = "completed"
    BY <1>1, <2>1 DEF TypeOK
  <2> QED
    BY <1>8, <1>14, <2>1, <2>2, <2>3 DEF MovesOn, At, RecordCompleted
<1>9. CASE CompleteScan(w)
  <2>1. Active(w) /\ ~At(w, "idle") /\ At(w, "completing")
    BY <1>9, <1>14 DEF CompleteScan, At
  <2>2. CASE ~Owns(w)
    BY <1>2, <1>9, <2>1, <2>2 DEF CompleteScan
  <2>3. CASE Owns(w)
    <3> DEFINE r == Plain(CompletedCopy(work[w].row))
    <3>1. CompletedCopy(work[w].row) \in Row
      BY <1>1, FinalCopiesAreRows
    <3>2. CompletedCopy(work[w].row).status = "completed"
      BY <1>1 DEF CompletedCopy, Row
    <3>3. r \in Row /\ r.status = "completed"
      BY <3>1, <3>2, PlainIsRow
    <3> DEFINE x == [work[w] EXCEPT !.at = "attaching", !.row = r]
    <3>4. job' = [job EXCEPT ![s] = SavedOver(job[s], r)] /\ work' = [work EXCEPT ![w] = x]
          /\ UNCHANGED <<scan, proposals, sent, dropped, OutsideWork>>
      BY <1>9, <2>3 DEF CompleteScan, Save, TypeOK
    <3>11. x \in Tasks /\ x.at = "attaching" /\ x.of = s /\ x.row = r
      BY <1>1, <3>3 DEF Tasks, Points
    <3> HIDE DEF r, s, x
    <3>5. SavedOver(job[s], r) = r
      BY <3>3 DEF SavedOver
    <3>6. job' = [job EXCEPT ![s] = r]
      BY <3>4, <3>5
    <3>7. TypeOK'
      <4>1. job' \in [Scans -> Row]
        BY <1>1, <3>3, <3>6 DEF TypeOK
      <4>2. work' \in [Workers -> Tasks]
        BY <3>4, <3>11 DEF TypeOK
      <4> QED
        BY <3>4, <4>1, <4>2 DEF TypeOK, OutsideWork
    <3>8. OnlyAt(w, s)
      BY <1>1, <3>4, <3>6 DEF OnlyAt, TypeOK
    <3>9. job'[s] = r /\ work'[w] = x
      BY <1>1, <3>4, <3>6 DEF TypeOK
    <3>10. Completes(w, s)
      BY <2>1, <2>3, <3>3, <3>4, <3>9, <3>11 DEF Completes, At
    <3> QED
      BY <2>1, <3>7, <3>8, <3>10
  <2> QED
    BY <2>2, <2>3
<1>10. CASE FailScan(w)
  <2>1. PICK retryable \in BOOLEAN :
          job' = IF Owns(w)
                 THEN [job EXCEPT ![s] = Plain(FailedCopy(work[w].row, retryable))]
                 ELSE job
    BY <1>10 DEF FailScan
  <2> DEFINE f == FailedCopy(work[w].row, retryable)
             r == Plain(f)
             x == [work[w] EXCEPT !.at = "failed", !.row = job'[s]]
  <2>2. f \in Row
    BY <1>1, FinalCopiesAreRows
  <2>3. /\ f.status \in {"queued", "failed"}
        /\ f.status = "queued" => f.phase = "retry_scheduled" /\ f.attempts < MaxAttempts
        /\ f.attempts = work[w].row.attempts
    BY <1>1, <2>2 DEF FailedCopy, HasAttemptLeft, Row
  <2>4. /\ r \in Row /\ r.status = f.status /\ r.phase = f.phase
        /\ r.status = "queued" => r.attempts = f.attempts
    BY <2>2, PlainIsRow DEF Terminal
  <2> HIDE DEF f, r, s
  <2>5. job' = IF Owns(w) THEN [job EXCEPT ![s] = r] ELSE job
    BY <2>1 DEF f, r
  <2>6. job'[s] = (IF Owns(w) THEN r ELSE job[s]) /\ job'[s] \in Row
    BY <1>1, <2>4, <2>5 DEF TypeOK
  <2>7. At(w, "raised") /\ ~At(w, "idle") /\ work' = [work EXCEPT ![w] = x]
        /\ UNCHANGED <<scan, proposals, sent, dropped, OutsideWork>>
    BY <1>10 DEF FailScan, At, TypeOK, s
  <2>8. x \in Tasks /\ x.at = "failed" /\ x.of = s /\ x.row = job'[s]
    BY <1>1, <2>6 DEF Tasks, Points, s
  <2> HIDE DEF x
  <2>9. work'[w] = x /\ \A v \in Workers : v # w => work'[v] = work[v]
    BY <2>7 DEF TypeOK
  <2>10. TypeOK'
    <3>1. job' \in [Scans -> Row]
      BY <2>4, <2>5 DEF TypeOK
    <3>2. work' \in [Workers -> Tasks]
      BY <2>7, <2>8 DEF TypeOK
    <3> QED
      BY <2>7, <3>1, <3>2 DEF TypeOK, OutsideWork
  <2>11. OnlyAt(w, s)
    BY <1>1, <2>5, <2>7, <2>9 DEF OnlyAt, TypeOK
  <2>12. Fails(w, s)
    BY <1>14, <2>3, <2>4, <2>5, <2>6, <2>7, <2>8, <2>9 DEF Fails, HasAttemptLeft, At
  <2> QED
    BY <2>7, <2>10, <2>11, <2>12
<1>11. CASE RecordFailed(w)
  <2> DEFINE status == IF work[w].row.status = "queued" THEN "queued" ELSE "failed"
  <2>1. /\ At(w, "failed") /\ ~At(w, "idle") /\ work' = [work EXCEPT ![w] = Idle]
        /\ scan' = [scan EXCEPT ![s] = status] /\ RetryAfter(s, work[w].row)
        /\ UNCHANGED <<job, proposals, dropped, OutsideWork>>
    BY <1>11 DEF RecordFailed, Finish, Record, At
  <2>2. sent' \in {sent, sent \cup {s}} /\ status \in ScanStates
    BY <2>1 DEF RetryAfter, ScanStates
  <2>3. scan'[s] = status /\ work'[w] = Idle
    BY <1>1, <2>1 DEF TypeOK
  <2> HIDE DEF s, status
  <2>4. TypeOK'
    BY <1>1, <2>1, <2>2, RestingTypes, WorkerTypes DEF TypeOK
  <2>5. OnlyAt(w, s)
    BY <1>1, <2>1, <2>2 DEF OnlyAt, TypeOK
  <2>6. RecordsFailure(w, s)
    BY <2>1, <2>3 DEF RecordsFailure, status
  <2> QED
    BY <2>1, <2>4, <2>5, <2>6
<1>12. CASE CancelTask(w)
  BY <1>2, <1>12, <1>14 DEF CancelTask, Active
<1>13. CASE Announce(w)
  <2>1. /\ At(w, "attaching") /\ ~At(w, "idle") /\ work' = [work EXCEPT ![w] = Idle]
        /\ UNCHANGED <<job, scan, proposals, sent, dropped, OutsideWork>> /\ Done(w)
    BY <1>13, <1>14 DEF Announce, Finish, At
  <2> HIDE DEF s
  <2>2. TypeOK'
    BY <1>1, <2>1, RestingTypes, WorkerTypes DEF TypeOK
  <2>3. OnlyAt(w, s) /\ work'[w] = Idle
    BY <1>1, <2>1 DEF OnlyAt, TypeOK
  <2> QED
    BY <2>1, <2>2, <2>3 DEF Announces
<1> QED
  BY <1>3, <1>4, <1>5, <1>6, <1>7, <1>8, <1>9, <1>10, <1>11, <1>12, <1>13 DEF TaskStep

(* The steps that have no worker at a scan before or after them.           *)
LEMMA ClaimShape ==
  ASSUME TypeOK, NEW w \in Workers, NEW s \in Scans, ClaimScan(w, s)
  PROVE  /\ TypeOK' /\ At(w, "idle") /\ s \in sent
         /\ sent' = sent \ {s} /\ dropped' = dropped \ {s}
         /\ UNCHANGED <<scan, proposals, OutsideWork>>
         /\ \A u \in Scans : u # s => job'[u] = job[u]
         /\ \A v \in Workers : v # w => work'[v] = work[v]
         /\ \/ ~Claimable(job[s], 0) /\ job' = job /\ work' = work
            \/ /\ Claimable(job[s], 0) /\ ~HasAttemptLeft(job[s])
               /\ job'[s].status = "failed" /\ work' = work
            \/ /\ Claimable(job[s], 0) /\ HasAttemptLeft(job[s])
               /\ job'[s].status = "running" /\ job'[s].owner = w /\ job'[s].expires > 0
               /\ job'[s].attempts = job[s].attempts + 1
               /\ work'[w].at = "claimed" /\ work'[w].of = s /\ work'[w].row = job'[s]
<1>1. job[s] \in Row /\ scan[s] \in ScanStates /\ DOMAIN job = Scans /\ DOMAIN work = Workers
  BY DEF TypeOK
<1>2. /\ At(w, "idle") /\ s \in sent /\ sent' = sent \ {s} /\ dropped' = dropped \ {s}
      /\ UNCHANGED <<scan, proposals, OutsideWork>>
  BY DEF ClaimScan
<1>3. CASE ~Claimable(job[s], 0)
  <2>1. job' = job /\ work' = work
    BY <1>3 DEF ClaimScan
  <2>2. TypeOK'
    BY <1>2, <2>1 DEF TypeOK, OutsideWork
  <2> QED
    BY <1>2, <1>3, <2>1, <2>2
<1>4. CASE Claimable(job[s], 0) /\ ~HasAttemptLeft(job[s])
  <2> DEFINE r == Plain(Exhausted(job[s]))
  <2>1. Exhausted(job[s]) \in Row /\ Exhausted(job[s]).status = "failed"
    BY <1>1, ExhaustedIsRow DEF Exhausted, Row
  <2>2. r \in Row /\ r.status = "failed"
    BY <2>1, PlainIsRow
  <2>3. job' = [job EXCEPT ![s] = r] /\ work' = work
    BY <1>4 DEF ClaimScan
  <2> HIDE DEF r
  <2>4. job' \in [Scans -> Row] /\ job'[s] = r /\ \A u \in Scans : u # s => job'[u] = job[u]
    BY <2>2, <2>3 DEF TypeOK
  <2>5. TypeOK'
    BY <1>2, <2>3, <2>4 DEF TypeOK, OutsideWork
  <2> QED
    BY <1>2, <1>4, <2>2, <2>3, <2>4, <2>5
<1>5. CASE Claimable(job[s], 0) /\ HasAttemptLeft(job[s])
  <2> DEFINE c == Claimed(job[s], w, 0)
             r == Plain(c)
             x == [at |-> "claimed", of |-> s, row |-> job'[s]]
  <2>1. c \in Row
    BY <1>1, ClaimedIsRow
  <2>2. c.status = "running" /\ c.owner = w /\ c.expires > 0 /\ c.attempts = job[s].attempts + 1
    <3>1. /\ c.status = "running" /\ c.owner = w /\ c.expires = 0 + LeaseTicks
          /\ c.attempts = job[s].attempts + 1
      BY <1>1 DEF Claimed, Row
    <3> QED
      BY <3>1, LeaseAssumption
  <2>3. /\ r \in Row /\ r.status = "running" /\ r.owner = w /\ r.expires > 0
        /\ r.attempts = job[s].attempts + 1
    BY <2>1, <2>2, PlainIsRow DEF Terminal
  <2>4. job' = [job EXCEPT ![s] = r] /\ work' = [work EXCEPT ![w] = x]
    BY <1>5 DEF ClaimScan
  <2> HIDE DEF r, c
  <2>5. job' \in [Scans -> Row] /\ job'[s] = r /\ \A u \in Scans : u # s => job'[u] = job[u]
    BY <2>3, <2>4 DEF TypeOK
  <2>6. x \in Tasks
    BY <2>3, <2>5 DEF Tasks, Points
  <2>7. /\ work' \in [Workers -> Tasks] /\ work'[w] = x
        /\ \A v \in Workers : v # w => work'[v] = work[v]
    BY <2>4, <2>6 DEF TypeOK
  <2>8. TypeOK'
    BY <1>2, <2>5, <2>7 DEF TypeOK, OutsideWork
  <2> QED
    BY <1>2, <1>5, <2>3, <2>5, <2>7, <2>8
<1> QED
  BY <1>3, <1>4, <1>5

LEMMA CrashShape ==
  ASSUME TypeOK, NEW w \in Workers, Crash(w)
  PROVE  /\ TypeOK' /\ ~At(w, "idle") /\ work[w].of \in Scans
         /\ work'[w] = Idle /\ \A v \in Workers : v # w => work'[v] = work[v]
         /\ sent' = sent \cup {work[w].of} /\ lossy' = lossy \cup {work[w].of}
         /\ UNCHANGED <<schedule, job, scan, proposals, beat, swept, asked, now, repeated, dropped>>
<1>1. work[w].of \in Scans
  BY DEF TypeOK, Tasks
<1>2. left' \in [requests : Nat, losses : Nat, deaths : Nat]
  BY DEF Crash, Lose, TypeOK
<1>3. work' = [work EXCEPT ![w] = Idle]
  BY DEF Crash, Finish
<1>4. work' \in [Workers -> Tasks] /\ work'[w] = Idle
      /\ \A v \in Workers : v # w => work'[v] = work[v]
  BY <1>3, RestingTypes DEF TypeOK
<1> QED
  BY <1>1, <1>2, <1>4 DEF Crash, TypeOK

LEMMA SweepShape ==
  ASSUME TypeOK, Sweep
  PROVE  /\ TypeOK'
         /\ swept'.recovered = {s \in Scans : Lapsed(job[s], 0) /\ HasAttemptLeft(job[s])}
         /\ swept'.exhausted = {s \in Scans : Lapsed(job[s], 0) /\ ~HasAttemptLeft(job[s])}
         /\ swept'.ready = {}
         /\ \A s \in Scans :
              IF Lapsed(job[s], 0)
              THEN IF HasAttemptLeft(job[s])
                   THEN /\ job'[s].status = "queued" /\ HasAttemptLeft(job'[s])
                        /\ job'[s].attempts = job[s].attempts
                   ELSE job'[s].status = "failed"
              ELSE job'[s] = job[s]
         /\ UNCHANGED <<schedule, scan, proposals, sent, work, beat, asked, now, hist>>
<1> DEFINE lapsed == {s \in Scans : Lapsed(job[s], 0)}
<1>1. ASSUME NEW s \in Scans
      PROVE  /\ Plain(Recovered(job[s])) \in Row
             /\ IF HasAttemptLeft(job[s])
                THEN /\ Plain(Recovered(job[s])).status = "queued"
                     /\ HasAttemptLeft(Plain(Recovered(job[s])))
                     /\ Plain(Recovered(job[s])).attempts = job[s].attempts
                ELSE Plain(Recovered(job[s])).status = "failed"
  <2> DEFINE r == job[s]
             marked == [r EXCEPT !.failure = "worker_lease_expired",
                                 !.recoveredFrom = r.phase,
                                 !.owner = NoWorker, !.expires = NoLease]
  <2>1. r \in Row
    BY DEF TypeOK
  <2>2. marked \in Row /\ marked.attempts = r.attempts
    BY <2>1 DEF Row, Failures
  <2>3. Recovered(r) =
          IF r.attempts < MaxAttempts
          THEN [marked EXCEPT !.status = "queued", !.phase = "retry_scheduled"]
          ELSE Exhausted(marked)
    BY Zenon DEF Recovered, HasAttemptLeft
  <2>4. Recovered(r) \in Row
    BY <2>1, RecoveredIsRow
  <2> HIDE DEF marked, r
  <2>5. ASSUME r.attempts < MaxAttempts
        PROVE  Recovered(r).status = "queued" /\ Recovered(r).attempts = r.attempts
    BY <2>2, <2>3, <2>5 DEF Row
  <2>6. ASSUME ~(r.attempts < MaxAttempts)
        PROVE  Recovered(r).status = "failed"
    BY <2>2, <2>3, <2>6 DEF Exhausted, Row
  <2>7. /\ Plain(Recovered(r)) \in Row /\ Plain(Recovered(r)).status = Recovered(r).status
        /\ Recovered(r).status = "queued" =>
             Plain(Recovered(r)).attempts = Recovered(r).attempts
    BY <2>4, PlainIsRow DEF Terminal
  <2>8. /\ Plain(Recovered(r)) \in Row
        /\ IF HasAttemptLeft(r)
           THEN /\ Plain(Recovered(r)).status = "queued" /\ HasAttemptLeft(Plain(Recovered(r)))
                /\ Plain(Recovered(r)).attempts = r.attempts
           ELSE Plain(Recovered(r)).status = "failed"
    BY <2>5, <2>6, <2>7 DEF HasAttemptLeft
  <2> QED
    BY <2>8 DEF r
<1>2. job' = [s \in Scans |->
                IF s \in lapsed THEN Plain(Recovered(job[s])) ELSE job[s]]
  BY DEF Sweep
<1>3. job' \in [Scans -> Row]
  BY <1>1, <1>2 DEF TypeOK
<1>4. ASSUME NEW s \in Scans
      PROVE  IF Lapsed(job[s], 0)
             THEN IF HasAttemptLeft(job[s])
                  THEN /\ job'[s].status = "queued" /\ HasAttemptLeft(job'[s])
                       /\ job'[s].attempts = job[s].attempts
                  ELSE job'[s].status = "failed"
             ELSE job'[s] = job[s]
  BY <1>1, <1>2
<1>5. /\ swept' = [swept EXCEPT
           !.recovered = {s \in lapsed : HasAttemptLeft(job[s])},
           !.exhausted = {s \in lapsed : ~HasAttemptLeft(job[s])}]
      /\ Swept = {}
      /\ UNCHANGED <<schedule, scan, proposals, sent, work, beat, asked, now, hist>>
  BY DEF Sweep
<1>6. swept \in [recovered : SUBSET Scans, exhausted : SUBSET Scans, ready : SUBSET Scans]
  BY DEF TypeOK
<1>7. /\ swept'.recovered = {s \in lapsed : HasAttemptLeft(job[s])}
      /\ swept'.exhausted = {s \in lapsed : ~HasAttemptLeft(job[s])}
      /\ swept'.ready = {}
      /\ swept' \in [recovered : SUBSET Scans, exhausted : SUBSET Scans, ready : SUBSET Scans]
  BY <1>5, <1>6 DEF Swept
<1>8. TypeOK'
  BY <1>3, <1>5, <1>7 DEF TypeOK, hist
<1> QED
  BY <1>4, <1>5, <1>7, <1>8

LEMMA RecoverTypes ==
  ASSUME TypeOK, Recover \/ SenderDies \/ Tick
  PROVE  TypeOK'
<1>1. CASE Sweep
  BY <1>1, SweepShape
<1>2. ASSUME NEW s \in Scans, RecordSweep(s)
      PROVE  TypeOK'
  <2>1. swept' \in [recovered : SUBSET Scans, exhausted : SUBSET Scans, ready : SUBSET Scans]
    BY <1>2 DEF RecordSweep, TypeOK
  <2>2. scan' \in [Scans -> ScanStates]
    BY <1>2 DEF RecordSweep, TypeOK, ScanStates
  <2> QED
    BY <1>2, <2>1, <2>2 DEF RecordSweep, TypeOK, hist
<1>3. ASSUME NEW s \in Scans, SendRecovered(s)
      PROVE  TypeOK'
  BY <1>3 DEF SendRecovered, TypeOK, hist
<1>4. CASE SenderDies
  <2>1. left' \in [requests : Nat, losses : Nat, deaths : Nat]
    BY <1>4 DEF SenderDies, TypeOK
  <2>2. beat' \in Beats /\ beat \in Beats
    BY <1>4, RestingTypes DEF SenderDies, TypeOK, Beats
  <2>3. /\ swept' \in [recovered : SUBSET Scans, exhausted : SUBSET Scans, ready : SUBSET Scans]
        /\ asked' \subseteq Scans
    BY <1>4 DEF SenderDies, TypeOK
  <2>4. dropped' \subseteq Scans
    <3>1. /\ beat.made \subseteq Scans /\ asked \subseteq Scans /\ dropped \subseteq Scans
          /\ swept.recovered \subseteq Scans /\ swept.ready \subseteq Scans
      BY <2>2 DEF TypeOK, Beats
    <3> QED
      BY <1>4, <3>1 DEF SenderDies
  <2> QED
    BY <1>4, <2>1, <2>2, <2>3, <2>4 DEF SenderDies, TypeOK, Beats
<1>5. CASE Tick
  BY <1>5, ScanAssumption DEF Tick, TypeOK, hist
<1> QED
  BY <1>1, <1>2, <1>3, <1>4, <1>5 DEF Recover

-----------------------------------------------------------------------------
(* The leases.                                                             *)

(* A queued job can be tried: what fails or recovers one looks first.      *)
RetriesLeft ==
  \A s \in Scans : job[s].status = "queued" => HasAttemptLeft(job[s])

(* Without a loss a running job has its owner at work on it, whose lease   *)
(* has not run out...                                                      *)
LeaseIsHeld ==
  \A s \in Scans \ lossy :
    job[s].status = "running" =>
      /\ job[s].expires > 0 /\ job[s].owner \in Workers
      /\ Active(job[s].owner) /\ work[job[s].owner].of = s

(* ... and a worker at work on a scan owns its job.                        *)
WorkersHold ==
  \A w \in Workers :
    Active(w) /\ work[w].of \notin lossy =>
      job[work[w].of].status = "running" /\ job[work[w].of].owner = w

(* A scan that has proposed is completed, or about to be.                  *)
ProposedOnce ==
  \A s \in Scans \ lossy :
    /\ Standing(s) <= 1
    /\ Standing(s) = 1 =>
         \/ job[s].status = "completed"
         \/ /\ job[s].status = "running"
            /\ work[job[s].owner].at \in {"recording", "completing"}

(* The job of a worker that has completed it stays so.                     *)
DoneStays == \A w \in Workers : Done(w) => job[work[w].of].status = "completed"

Lease ==
  OwnRow /\ RetriesLeft /\ LeaseIsHeld /\ WorkersHold /\ ProposedOnce /\ DoneStays

(* A step of one worker at one scan keeps the leases in order when what it *)
(* leaves behind at the two of them is in order.                           *)
LEMMA LeaseFrame ==
  ASSUME TypeOK, Lease, NEW w \in Workers, NEW s \in Scans,
         lossy' = lossy,
         \A v \in Workers : v # w => work'[v] = work[v],
         \A u \in Scans : u # s => job'[u] = job[u] /\ Standing(u)' = Standing(u),
         Active(w) => work[w].of = s,
         Active(w)' => work'[w].row.owner = w /\ work'[w].of = s /\ ~At(w, "attaching")',
         Done(w)' => work'[w].of = s /\ job'[s].status = "completed",
         work'[w].at \notin {"idle", "failed"} => Active(w)' \/ Done(w)',
         job[s].status = "completed" => job'[s].status = "completed",
         job'[s].status = "queued" => HasAttemptLeft(job'[s]),
         s \notin lossy =>
           /\ \A v \in Workers : v # w /\ Active(v) => work[v].of # s
           /\ job'[s].status = "running" =>
                job'[s].expires > 0 /\ job'[s].owner = w /\ Active(w)'
           /\ Active(w)' => job'[s].status = "running" /\ job'[s].owner = w
           /\ Standing(s)' <= 1
           /\ Standing(s)' = 1 =>
                \/ job'[s].status = "completed"
                \/ /\ job'[s].status = "running"
                   /\ work'[w].at \in {"recording", "completing"}
  PROVE  Lease'
<1> USE DEF Active, Done
<1>1. OwnRow'
  <2> SUFFICES ASSUME NEW v \in Workers, work'[v].at \notin {"idle", "failed"}
               PROVE  \/ Active(v)' /\ work'[v].row.owner = v /\ ~At(v, "attaching")'
                      \/ Done(v)'
    BY DEF OwnRow
  <2> QED
    BY DEF Lease, OwnRow, At
<1>2. RetriesLeft'
  <2> SUFFICES ASSUME NEW u \in Scans, job'[u].status = "queued"
               PROVE  HasAttemptLeft(job'[u])
    BY DEF RetriesLeft, HasAttemptLeft
  <2> QED
    BY DEF Lease, RetriesLeft
<1>3. LeaseIsHeld'
  <2> SUFFICES ASSUME NEW u \in Scans \ lossy, job'[u].status = "running"
               PROVE  /\ job'[u].expires > 0 /\ job'[u].owner \in Workers
                      /\ work'[job'[u].owner].at \notin {"idle", "failed"}
                      /\ work'[job'[u].owner].row.status = "running"
                      /\ work'[job'[u].owner].of = u
    BY DEF LeaseIsHeld
  <2>1. CASE u = s
    BY <2>1
  <2>2. CASE u # s
    <3>1. /\ job[u].expires > 0 /\ job[u].owner \in Workers
          /\ Active(job[u].owner) /\ work[job[u].owner].of = u
      BY <2>2 DEF Lease, LeaseIsHeld
    <3>2. job[u].owner # w
      BY <2>2, <3>1
    <3> QED
      BY <2>2, <3>1, <3>2
  <2> QED
    BY <2>1, <2>2
<1>4. WorkersHold'
  <2> SUFFICES ASSUME NEW v \in Workers, Active(v)', work'[v].of \notin lossy
               PROVE  job'[work'[v].of].status = "running" /\ job'[work'[v].of].owner = v
    BY DEF WorkersHold
  <2>1. CASE v = w
    BY <2>1
  <2>2. CASE v # w
    <3>1. work'[v] = work[v] /\ Active(v) /\ work[v].of \in Scans /\ work[v].of # s
      BY <2>2 DEF TypeOK, Tasks
    <3> QED
      BY <3>1 DEF Lease, WorkersHold
  <2> QED
    BY <2>1, <2>2
<1>5. ProposedOnce'
  <2> SUFFICES ASSUME NEW u \in Scans \ lossy
               PROVE  /\ Standing(u)' <= 1
                      /\ Standing(u)' = 1 =>
                           \/ job'[u].status = "completed"
                           \/ /\ job'[u].status = "running"
                              /\ work'[job'[u].owner].at \in {"recording", "completing"}
    BY DEF ProposedOnce
  <2>1. CASE u = s
    BY <2>1
  <2>2. CASE u # s
    <3>1. job'[u] = job[u] /\ Standing(u)' = Standing(u)
      BY <2>2
    <3>2. /\ Standing(u) <= 1
          /\ Standing(u) = 1 =>
               \/ job[u].status = "completed"
               \/ /\ job[u].status = "running"
                  /\ work[job[u].owner].at \in {"recording", "completing"}
      BY DEF Lease, ProposedOnce
    <3>3. ASSUME job[u].status = "running"
          PROVE  work'[job[u].owner] = work[job[u].owner]
      BY <2>2, <3>3 DEF Lease, LeaseIsHeld
    <3> QED
      BY <3>1, <3>2, <3>3
  <2> QED
    BY <2>1, <2>2
<1>6. DoneStays'
  <2> SUFFICES ASSUME NEW v \in Workers, Done(v)'
               PROVE  job'[work'[v].of].status = "completed"
    BY DEF DoneStays
  <2>1. CASE v # w
    <3>1. work'[v] = work[v] /\ Done(v) /\ work[v].of \in Scans
      BY <2>1 DEF TypeOK, Tasks
    <3> QED
      BY <3>1 DEF Lease, DoneStays
  <2> QED
    BY <2>1
<1> QED
  BY <1>1, <1>2, <1>3, <1>4, <1>5, <1>6 DEF Lease

(* Without a loss a worker at work holds its lease, alone.                 *)
LEMMA HoldsAlone ==
  ASSUME TypeOK, Lease, NEW w \in Workers, Active(w), work[w].of \notin lossy
  PROVE  /\ Owns(w)
         /\ \A v \in Workers : v # w /\ Active(v) => work[v].of # work[w].of
<1> DEFINE s == work[w].of
<1>1. s \in Scans \ lossy /\ job[s] \in Row
  BY DEF TypeOK, Tasks
<1>2. job[s].status = "running" /\ job[s].owner = w /\ job[s].expires > 0
  BY <1>1 DEF Lease, WorkersHold, LeaseIsHeld
<1>3. Owns(w)
  BY <1>1, <1>2, NoLeaseIsInt DEF Owns, HoldsLease, LeaseIsExpired, Row
<1>4. ASSUME NEW v \in Workers, v # w, Active(v)
      PROVE  work[v].of # work[w].of
  BY <1>2, <1>4 DEF Lease, WorkersHold
<1> QED
  BY <1>3, <1>4

(* A scan a worker at work holds has proposed only if the worker says so.  *)
LEMMA NothingProposed ==
  ASSUME TypeOK, Lease, NEW w \in Workers, Active(w), work[w].of \notin lossy
  PROVE  /\ Standing(work[w].of) \in {0, 1}
         /\ ~(work[w].at \in {"recording", "completing"}) => Standing(work[w].of) = 0
<1> DEFINE s == work[w].of
<1>1. s \in Scans \ lossy /\ Standing(s) \in Nat
  BY DEF TypeOK, Tasks, Standing, Proposals
<1>2. job[s].status = "running" /\ job[s].owner = w
  BY <1>1 DEF Lease, WorkersHold
<1>3. Standing(s) <= 1
      /\ (Standing(s) = 1 => work[w].at \in {"recording", "completing"})
  BY <1>1, <1>2 DEF Lease, ProposedOnce
<1> QED
  BY <1>1, <1>3

LEMMA LeaseTask ==
  ASSUME TypeOK, Lease, NEW w \in Workers, TaskStep(w)
  PROVE  Lease'
<1>0. PICK s \in Scans : s = work[w].of
  BY DEF TypeOK, Tasks
<1>1. /\ s \in Scans /\ ~At(w, "idle") /\ OnlyAt(w, s)
      /\ \/ LetsGo(w, s) \/ SavesPhase(w, s) \/ MovesOn(w, s)
         \/ Completes(w, s) \/ Announces(w, s) \/ Fails(w, s) \/ RecordsFailure(w, s)
  BY <1>0, TaskShapes DEF Lease
<1>2. /\ lossy' = lossy
      /\ \A v \in Workers : v # w => work'[v] = work[v]
      /\ \A u \in Scans : u # s => job'[u] = job[u] /\ Standing(u)' = Standing(u)
  <2>1. \A u \in Scans : u # s => job'[u] = job[u] /\ proposals'[u] = proposals[u]
    BY <1>1 DEF OnlyAt
  <2> QED
    BY <1>1, <2>1 DEF OnlyAt, OutsideWork, Standing
<1>3. job[s] \in Row /\ Standing(s) \in Nat /\ job[s].expires \in Int
  BY <1>1, NoLeaseIsInt DEF TypeOK, Row, Standing, Proposals
<1>4. Active(w) =>
        /\ work[w].row.status = "running" /\ work[w].row.owner = w /\ ~At(w, "attaching")
        /\ s \notin lossy => \A v \in Workers : v # w /\ Active(v) => work[v].of # s
  BY <1>0, HoldsAlone DEF Lease, OwnRow, Active, Done, At
<1>5. /\ job[s].status = "queued" => HasAttemptLeft(job[s])
      /\ Done(w) => job[s].status = "completed"
      /\ Owns(w) => job[s].status = "running"
  BY <1>0, <1>1 DEF Lease, RetriesLeft, DoneStays, Owns, HoldsLease
<1>17. work[w].at \notin {"idle", "failed"} => Active(w) \/ Done(w)
  BY DEF Lease, OwnRow
<1>6. Active(w) /\ s \notin lossy =>
        /\ Owns(w) /\ job[s].status = "running" /\ job[s].owner = w /\ job[s].expires > 0
        /\ Standing(s) \in {0, 1}
        /\ work[w].at \notin {"recording", "completing"} => Standing(s) = 0
  <2> SUFFICES ASSUME Active(w), s \notin lossy
               PROVE  /\ Owns(w) /\ job[s].status = "running" /\ job[s].owner = w
                      /\ job[s].expires > 0 /\ Standing(s) \in {0, 1}
                      /\ work[w].at \notin {"recording", "completing"} => Standing(s) = 0
    OBVIOUS
  <2>1. Owns(w) /\ Standing(s) \in {0, 1}
        /\ (work[w].at \notin {"recording", "completing"} => Standing(s) = 0)
    BY <1>0, HoldsAlone, NothingProposed
  <2>2. job[s].status = "running" /\ job[s].owner = w /\ job[s].expires > 0
    BY <1>0, <1>3, <2>1 DEF Owns, HoldsLease, LeaseIsExpired
  <2> QED
    BY <2>1, <2>2
<1>7. work[w].of = s
  BY <1>0
<1>8. Idle.at = "idle"
  BY RestingTypes
<1>9. CASE LetsGo(w, s)
  <2>1. Active(w) /\ s \in lossy /\ work'[w].at = "idle" /\ job' = job
    BY <1>6, <1>8, <1>9 DEF LetsGo
  <2>2. ~Active(w)' /\ ~Done(w)'
    BY <2>1 DEF Active, Done
  <2> QED
    BY <1>1, <1>2, <1>5, <1>7, <2>1, <2>2, LeaseFrame
<1>10. CASE SavesPhase(w, s)
  <2>1. /\ Active(w) /\ Active(w)' /\ work'[w].of = s
        /\ work'[w].row.status = "running" /\ work'[w].row.owner = w
        /\ job'[s].status = "running" /\ job'[s].owner = w /\ Standing(s)' = Standing(s)
        /\ work[w].at \notin {"recording", "completing"}
        /\ ~At(w, "attaching")' /\ ~Done(w)' /\ job[s].status = "running"
    <3>1. work[w].at \in {"claimed", "collecting"} /\ work'[w].at \in {"starting", "analysing"}
          /\ work'[w].row.status = "running"
      BY <1>10 DEF SavesPhase
    <3>2. Active(w)
      BY <1>17, <3>1 DEF Done
    <3>3. Active(w)' /\ ~Done(w)' /\ ~At(w, "attaching")'
      BY <3>1 DEF Active, Done, At
    <3>4. Standing(s)' = Standing(s)
      BY <1>10 DEF SavesPhase, Standing
    <3> QED
      BY <1>5, <1>10, <3>1, <3>2, <3>3, <3>4 DEF SavesPhase
  <2>2. job'[s].expires > 0
    <3>1. Owns(w) /\ job'[s].expires >= job[s].expires
      BY <1>10 DEF SavesPhase
    <3>2. job[s].expires > 0
      BY <1>3, <1>7, <3>1 DEF Owns, HoldsLease, LeaseIsExpired
    <3>3. job'[s].expires \in Int
      <4>1. TypeOK'
        BY TaskShapes DEF Lease
      <4> QED
        BY <1>1, <4>1, NoLeaseIsInt DEF TypeOK, Row
    <3> QED
      BY <1>3, <3>1, <3>2, <3>3
  <2>3. s \notin lossy => Standing(s)' = 0
    BY <1>6, <2>1
  <2> QED
    BY <1>1, <1>2, <1>4, <1>7, <2>1, <2>2, <2>3, LeaseFrame
<1>11. CASE MovesOn(w, s)
  <2>1. /\ Active(w) /\ Active(w)' /\ work'[w].of = s /\ job' = job
        /\ work'[w].row = work[w].row /\ ~At(w, "attaching")' /\ ~Done(w)'
    BY <1>11 DEF MovesOn, Active, Done, At
  <2>2. s \notin lossy =>
          /\ Standing(s)' <= 1
          /\ Standing(s)' = 1 => work'[w].at \in {"recording", "completing"}
    <3>1. s \notin lossy =>
            /\ Standing(s) \in {0, 1}
            /\ work[w].at \notin {"recording", "completing"} => Standing(s) = 0
      BY <1>6, <2>1
    <3>2. \/ Standing(s)' = Standing(s) /\ work[w].at \notin {"recording", "completing"}
          \/ Standing(s)' = Standing(s) /\ work'[w].at = "completing"
          \/ Standing(s)' = 0
          \/ /\ work[w].at = "proposing" /\ work'[w].at = "recording"
             /\ Standing(s)' = Standing(s) + 1
      <4>1. proposals' = proposals => Standing(s)' = Standing(s)
        BY DEF Standing
      <4>2. work[w].at # "attaching"
        BY <1>4, <2>1 DEF At
      <4>3. Standing(s)' = proposals'[s].standing
        BY DEF Standing
      <4> QED
        BY <1>11, <4>1, <4>2, <4>3 DEF MovesOn, At
    <3> QED
      BY <3>1, <3>2
  <2>3. Active(w)' => work'[w].row.owner = w /\ work'[w].of = s /\ ~At(w, "attaching")'
    BY <1>4, <2>1
  <2>4. s \notin lossy => /\ \A v \in Workers : v # w /\ Active(v) => work[v].of # s
                         /\ job'[s].status = "running" /\ job'[s].expires > 0
                         /\ job'[s].owner = w
    BY <1>4, <1>6, <2>1
  <2>5. job'[s] = job[s]
    BY <2>1
  <2> QED
    BY <1>1, <1>2, <1>5, <1>7, <2>1, <2>2, <2>3, <2>4, <2>5, LeaseFrame
<1>12. CASE Completes(w, s)
  <2>1. /\ Active(w) /\ ~Active(w)' /\ Done(w)' /\ work'[w].of = s
        /\ job'[s].status = "completed" /\ Standing(s)' = Standing(s)
    <3>1. /\ Active(w) /\ work'[w].at = "attaching" /\ work'[w].of = s
          /\ work'[w].row.status = "completed" /\ job'[s].status = "completed"
          /\ proposals' = proposals
      BY <1>12 DEF Completes, At
    <3>2. ~Active(w)' /\ Done(w)'
      BY <3>1 DEF Active, Done
    <3>3. Standing(s)' = Standing(s)
      BY <3>1 DEF Standing
    <3> QED
      BY <3>1, <3>2, <3>3
  <2>2. s \notin lossy => Standing(s)' <= 1
    BY <1>6, <2>1
  <2>3. s \notin lossy => \A v \in Workers : v # w /\ Active(v) => work[v].of # s
    BY <1>4, <2>1
  <2> QED
    BY <1>1, <1>2, <1>7, <2>1, <2>2, <2>3, LeaseFrame
<1>13. CASE Fails(w, s) /\ Active(w)
  <2>1. /\ Active(w) /\ work'[w].at = "failed" /\ Standing(s)' = Standing(s)
        /\ work[w].at \notin {"recording", "completing"}
        /\ ~Active(w)' /\ ~Done(w)'
    <3>1. /\ work[w].at = "raised" /\ work'[w].at = "failed" /\ proposals' = proposals
      BY <1>13 DEF Fails, At
    <3>2. ~Active(w)' /\ ~Done(w)'
      BY <3>1 DEF Active, Done
    <3>3. Standing(s)' = Standing(s)
      BY <3>1 DEF Standing
    <3> QED
      BY <1>13, <3>1, <3>2, <3>3
  <2>2. \/ ~Owns(w) /\ job' = job
        \/ /\ Owns(w) /\ job'[s].status \in {"queued", "failed"} /\ job[s].status = "running"
           /\ job'[s].status = "queued" => HasAttemptLeft(job'[s])
    BY <1>5, <1>13 DEF Fails
  <2>3. s \notin lossy => Standing(s)' = 0 /\ Owns(w)
    BY <1>6, <2>1
  <2>4. job'[s].status = "queued" => HasAttemptLeft(job'[s])
    BY <1>5, <2>2
  <2>5. s \notin lossy => job'[s].status # "running"
    BY <2>2, <2>3
  <2> QED
    <3>1. s \notin lossy => \A v \in Workers : v # w /\ Active(v) => work[v].of # s
      BY <1>4, <2>1
    <3>2. job[s].status = "completed" => job'[s].status = "completed"
      BY <2>2
    <3> QED
      BY <1>1, <1>2, <1>7, <2>1, <2>3, <2>4, <2>5, <3>1, <3>2, LeaseFrame
<1>14. CASE Announces(w, s) \/ (Fails(w, s) /\ Done(w))
  <2>1. /\ ~Active(w) /\ ~Active(w)' /\ job' = job /\ job[s].status = "completed"
        /\ Done(w)' => work'[w].of = s
        /\ work'[w].at \notin {"idle", "failed"} => Done(w)'
        /\ Standing(s)' \in {Standing(s), 0}
    <3>1. Done(w) /\ job' = job /\ ~Active(w)
      BY <1>5, <1>14 DEF Announces, Fails, Active, Done, At
    <3>2. CASE Announces(w, s) /\ work'[w] = Idle
      <4>1. work'[w].at = "idle" /\ proposals' = proposals
        BY <1>8, <3>2, RestingTypes DEF Announces, At
      <4> QED
        BY <1>5, <3>1, <4>1 DEF Active, Done, Standing
    <3>3. CASE /\ At(w, "raised")' /\ work'[w].of = s /\ work'[w].row = work[w].row
               /\ Standing(s)' = 0
      <4>1. Done(w)' /\ ~Active(w)'
        BY <3>1, <3>3 DEF Active, Done, At
      <4> QED
        BY <1>5, <3>1, <3>3, <4>1
    <3>4. CASE Fails(w, s)
      <4>1. work'[w].at = "failed" /\ proposals' = proposals
        BY <3>4 DEF Fails, At
      <4> QED
        BY <1>5, <3>1, <4>1 DEF Active, Done, Standing
    <3> QED
      BY <1>14, <3>2, <3>3, <3>4 DEF Announces, Standing
  <2>2. s \notin lossy => Standing(s)' <= 1
    BY <1>1, <1>3, <2>1 DEF Lease, ProposedOnce
  <2>3. s \notin lossy => \A v \in Workers : Active(v) => work[v].of # s
    BY <2>1 DEF Lease, WorkersHold
  <2> QED
    <3>1. job'[s] = job[s]
      BY <2>1
    <3> QED
      BY <1>1, <1>2, <1>7, <2>1, <2>2, <2>3, <3>1, LeaseFrame
<1>15. CASE RecordsFailure(w, s)
  <2>1. /\ ~Active(w) /\ ~Active(w)' /\ job' = job /\ proposals' = proposals
        /\ ~Done(w) /\ ~Done(w)' /\ work'[w].at = "idle"
    BY <1>8, <1>15 DEF RecordsFailure, Active, Done, At
  <2>2. \A v \in Workers : (Active(v) \/ Done(v))' => v # w /\ work'[v] = work[v]
    BY <1>2, <2>1
  <2>3. \A v \in Workers : Active(v) => Active(v)' /\ work'[v] = work[v]
    BY <1>2, <2>1 DEF Active
  <2>4. RetriesLeft' /\ WorkersHold'
    BY <1>2, <2>1, <2>2 DEF Lease, RetriesLeft, WorkersHold, Active
  <2>7. DoneStays'
    BY <1>2, <2>1, <2>2 DEF Lease, DoneStays, Done
  <2>8. OwnRow'
    BY <1>2, <2>1 DEF Lease, OwnRow, Active, Done, At
  <2>5. LeaseIsHeld'
    BY <1>2, <2>1, <2>3 DEF Lease, LeaseIsHeld
  <2>6. ProposedOnce'
    BY <1>2, <2>1, <2>3 DEF Lease, LeaseIsHeld, ProposedOnce, Standing
  <2> QED
    BY <2>4, <2>5, <2>6, <2>7, <2>8 DEF Lease
<1>16. Fails(w, s) => Active(w) \/ Done(w)
  BY DEF Fails
<1> QED
  BY <1>1, <1>9, <1>10, <1>11, <1>12, <1>13, <1>14, <1>15, <1>16

(* What neither the workers nor a loss does: at most one job is made, and  *)
(* nothing that the leases speak of changes.                               *)
Quiet ==
  /\ UNCHANGED <<work, proposals, lossy>>
  /\ \/ job' = job
     \/ \E s \in Scans : job[s].status = "absent" /\ job' = [job EXCEPT ![s] = NewRow("queued")]

Outside ==
  \/ Dispatch \/ SenderDies \/ Tick
  \/ \E h \in Hosts : AskScan(h) \/ SaveSchedule(h)
  \/ \E s \in Scans : SendAsked(s) \/ RecordSweep(s) \/ SendRecovered(s)

LEMMA OutsideIsQuiet ==
  ASSUME TypeOK, Outside
  PROVE  Quiet
<1> USE DEF OutsideBeat, hist
<1>1. CASE ListDue \/ MoveOn \/ SendMade \/ SenderDies \/ Tick
  BY <1>1 DEF ListDue, MoveOn, SendMade, SenderDies, Tick, Quiet
<1>2. ASSUME NEW h \in Hosts, SkipOverlap(h) \/ TakeDue(h) \/ SaveSchedule(h)
      PROVE  Quiet
  BY <1>2 DEF SkipOverlap, TakeDue, SaveSchedule, Quiet
<1>3. ASSUME NEW s \in Scans, SendAsked(s) \/ RecordSweep(s) \/ SendRecovered(s)
      PROVE  Quiet
  BY <1>3 DEF SendAsked, RecordSweep, SendRecovered, Quiet
<1>4. ASSUME NEW h \in Hosts, AskScan(h)
      PROVE  Quiet
  <2> DEFINE s == [host |-> h, trigger |-> "manual", minute |-> now]
  <2>1. s \in Scans
    BY DEF Scans, TypeOK
  <2>2. /\ UNCHANGED <<work, proposals, lossy>>
        /\ \/ job' = job
           \/ job[s].status = "absent" /\ job' = [job EXCEPT ![s] = NewRow("queued")]
    BY <1>4 DEF AskScan
  <2> HIDE DEF s
  <2> QED
    BY <2>1, <2>2 DEF Quiet
<1>5. ASSUME NEW d \in beat.due, CreateScheduled(d)
      PROVE  Quiet
  <2> DEFINE s == Scheduled(d[1], d[2])
  <2>1. s \in Scans
    BY DEF TypeOK, Scheduled, Scans
  <2>2. /\ UNCHANGED <<work, proposals, lossy>>
        /\ \/ job' = job
           \/ job[s].status = "absent" /\ job' = [job EXCEPT ![s] = NewRow("queued")]
    BY <1>5 DEF CreateScheduled
  <2> HIDE DEF s
  <2> QED
    BY <2>1, <2>2 DEF Quiet
<1> QED
  BY <1>1, <1>2, <1>3, <1>4, <1>5 DEF Outside, Dispatch

LEMMA NewScan == NewRow("queued").status = "queued" /\ HasAttemptLeft(NewRow("queued"))
BY AttemptsAssumption DEF NewRow, NoRow, HasAttemptLeft

LEMMA LeaseQuiet ==
  ASSUME TypeOK, Lease, Quiet
  PROVE  Lease'
<1> USE DEF Active, Done, At
<1>1. UNCHANGED <<work, proposals, lossy>>
  BY DEF Quiet
<1>2. ASSUME NEW s \in Scans
      PROVE  \/ job'[s] = job[s]
             \/ /\ job[s].status = "absent"
                /\ job'[s].status = "queued" /\ HasAttemptLeft(job'[s])
  BY NewScan DEF Quiet, TypeOK
<1>3. OwnRow'
  BY <1>1 DEF Lease, OwnRow
<1>4. RetriesLeft'
  <2> SUFFICES ASSUME NEW u \in Scans, job'[u].status = "queued"
               PROVE  HasAttemptLeft(job'[u])
    BY DEF RetriesLeft, HasAttemptLeft
  <2> QED
    BY <1>2 DEF Lease, RetriesLeft
<1>5. LeaseIsHeld'
  BY <1>1, <1>2 DEF Lease, LeaseIsHeld
<1>6. WorkersHold'
  <2> SUFFICES ASSUME NEW v \in Workers, Active(v), work[v].of \notin lossy
               PROVE  job'[work[v].of].status = "running" /\ job'[work[v].of].owner = v
    BY <1>1 DEF WorkersHold
  <2>1. work[v].of \in Scans
    BY DEF TypeOK, Tasks
  <2> QED
    BY <1>2, <2>1 DEF Lease, WorkersHold
<1>7. ProposedOnce'
  <2> SUFFICES ASSUME NEW u \in Scans \ lossy
               PROVE  /\ Standing(u) <= 1
                      /\ Standing(u) = 1 =>
                           \/ job'[u].status = "completed"
                           \/ /\ job'[u].status = "running"
                              /\ work[job'[u].owner].at \in {"recording", "completing"}
    BY <1>1 DEF ProposedOnce, Standing
  <2> QED
    BY <1>2 DEF Lease, ProposedOnce
<1>8. DoneStays'
  <2> SUFFICES ASSUME NEW v \in Workers, Done(v)
               PROVE  job'[work[v].of].status = "completed"
    BY <1>1 DEF DoneStays
  <2>1. work[v].of \in Scans /\ job[work[v].of].status = "completed"
    BY DEF TypeOK, Tasks, Lease, DoneStays
  <2> QED
    BY <1>2, <2>1
<1> QED
  BY <1>3, <1>4, <1>5, <1>6, <1>7, <1>8 DEF Lease

LEMMA LeaseClaim ==
  ASSUME TypeOK, Lease, NEW w \in Workers, NEW s \in Scans, ClaimScan(w, s)
  PROVE  Lease'
<1>1. /\ At(w, "idle") /\ UNCHANGED <<scan, proposals, OutsideWork>>
      /\ \A u \in Scans : u # s => job'[u] = job[u]
      /\ \A v \in Workers : v # w => work'[v] = work[v]
      /\ \/ ~Claimable(job[s], 0) /\ job' = job /\ work' = work
         \/ /\ Claimable(job[s], 0) /\ ~HasAttemptLeft(job[s])
            /\ job'[s].status = "failed" /\ work' = work
         \/ /\ Claimable(job[s], 0) /\ HasAttemptLeft(job[s])
            /\ job'[s].status = "running" /\ job'[s].owner = w /\ job'[s].expires > 0
            /\ work'[w].at = "claimed" /\ work'[w].of = s /\ work'[w].row = job'[s]
  BY ClaimShape
<1>2. /\ ~Active(w) /\ ~Done(w) /\ lossy' = lossy /\ job[s].expires \in Int
      /\ Standing(s) \in Nat /\ \A u \in Scans : Standing(u)' = Standing(u)
  BY <1>1, NoLeaseIsInt DEF Active, Done, At, OutsideWork, TypeOK, Row, Proposals, Standing
<1>3. CASE job' = job /\ work' = work
  BY <1>1, <1>2, <1>3, LeaseQuiet DEF Quiet
<1>4. CASE Claimable(job[s], 0)
  <2>1. s \notin lossy =>
          /\ job[s].status = "queued"
          /\ \A v \in Workers : v # w /\ Active(v) => work[v].of # s
          /\ Standing(s) = 0
    <3> SUFFICES ASSUME s \notin lossy
                 PROVE  /\ job[s].status = "queued"
                        /\ \A v \in Workers : v # w /\ Active(v) => work[v].of # s
                        /\ Standing(s) = 0
      OBVIOUS
    <3>1. job[s].status = "queued"
      BY <1>2, <1>4 DEF Claimable, Lapsed, LeaseIsExpired, Lease, LeaseIsHeld
    <3> QED
      BY <1>2, <3>1 DEF Lease, WorkersHold, ProposedOnce
  <2>2. CASE job'[s].status = "failed" /\ work' = work
    <3>1. ~Active(w)' /\ ~Done(w)' /\ work'[w].at = "idle"
      BY <1>1, <1>2, <2>2 DEF Active, Done, At
    <3>2. job[s].status # "completed"
      BY <1>4 DEF Claimable, Lapsed
    <3> QED
      BY <1>1, <1>2, <2>1, <2>2, <3>1, <3>2, LeaseFrame
  <2>3. CASE /\ job'[s].status = "running" /\ job'[s].owner = w /\ job'[s].expires > 0
             /\ work'[w].at = "claimed" /\ work'[w].of = s /\ work'[w].row = job'[s]
    <3>1. Active(w)' /\ ~Done(w)' /\ ~At(w, "attaching")'
      BY <2>3 DEF Active, Done, At
    <3>2. job[s].status # "completed"
      BY <1>4 DEF Claimable, Lapsed
    <3>3. s \notin lossy => Standing(s)' <= 1 /\ Standing(s)' # 1
      BY <1>2, <2>1
    <3> QED
      BY <1>1, <1>2, <2>1, <2>3, <3>1, <3>2, <3>3, LeaseFrame
  <2> QED
    BY <1>1, <1>4, <2>2, <2>3
<1> QED
  BY <1>1, <1>3, <1>4

LEMMA LeaseLoss ==
  ASSUME TypeOK, Lease,
         \/ Sweep \/ (\E s \in Scans : Lapse(s)) \/ (\E w \in Workers : Crash(w))
  PROVE  Lease'
<1> USE DEF Active, Done, At, Standing
<1>1. CASE Sweep
  <2>1. /\ UNCHANGED <<proposals, work>> /\ lossy' = lossy
        /\ \A s \in Scans :
             IF Lapsed(job[s], 0)
             THEN IF HasAttemptLeft(job[s])
                  THEN job'[s].status = "queued" /\ HasAttemptLeft(job'[s])
                  ELSE job'[s].status = "failed"
             ELSE job'[s] = job[s]
    BY <1>1, SweepShape DEF hist
  <2>2. ASSUME NEW s \in Scans \ lossy
        PROVE  job'[s] = job[s]
    <3>1. job[s].expires \in Int
      BY NoLeaseIsInt DEF TypeOK, Row
    <3>2. ~Lapsed(job[s], 0)
      BY <3>1 DEF Lease, LeaseIsHeld, Lapsed, LeaseIsExpired
    <3> QED
      BY <2>1, <3>2
  <2>3. OwnRow'
    BY <2>1 DEF Lease, OwnRow
  <2>4. RetriesLeft'
    <3> SUFFICES ASSUME NEW u \in Scans, job'[u].status = "queued"
                 PROVE  HasAttemptLeft(job'[u])
      BY DEF RetriesLeft, HasAttemptLeft
    <3> QED
      BY <2>1 DEF Lease, RetriesLeft
  <2>5. LeaseIsHeld'
    BY <2>1, <2>2 DEF Lease, LeaseIsHeld
  <2>6. WorkersHold'
    <3> SUFFICES ASSUME NEW v \in Workers, Active(v), work[v].of \notin lossy
                 PROVE  job'[work[v].of].status = "running" /\ job'[work[v].of].owner = v
      BY <2>1 DEF WorkersHold
    <3>1. work[v].of \in Scans \ lossy
      BY DEF TypeOK, Tasks
    <3> QED
      BY <2>2, <3>1 DEF Lease, WorkersHold
  <2>7. ProposedOnce'
    <3> SUFFICES ASSUME NEW u \in Scans \ lossy
                 PROVE  /\ Standing(u) <= 1
                        /\ Standing(u) = 1 =>
                             \/ job[u].status = "completed"
                             \/ /\ job[u].status = "running"
                                /\ work[job[u].owner].at \in {"recording", "completing"}
      BY <2>1, <2>2 DEF ProposedOnce
    <3> QED
      BY DEF Lease, ProposedOnce
  <2>8. DoneStays'
    <3> SUFFICES ASSUME NEW v \in Workers, Done(v)
                 PROVE  job'[work[v].of].status = "completed"
      BY <2>1 DEF DoneStays
    <3>1. work[v].of \in Scans /\ job[work[v].of].status = "completed"
      BY DEF TypeOK, Tasks, Lease, DoneStays
    <3> QED
      BY <2>1, <3>1 DEF Lapsed
  <2> QED
    BY <2>3, <2>4, <2>5, <2>6, <2>7, <2>8 DEF Lease
<1>2. ASSUME NEW s \in Scans, Lapse(s)
      PROVE  Lease'
  <2>1. /\ job' = [job EXCEPT ![s].expires = 0] /\ lossy' = lossy \cup {s}
        /\ UNCHANGED <<proposals, work>>
    BY <1>2 DEF Lapse
  <2>2. job' = [job EXCEPT ![s] = [job[s] EXCEPT !.expires = 0]] /\ job[s] \in Row
    BY <2>1 DEF TypeOK
  <2>3. /\ \A u \in Scans : u # s => job'[u] = job[u]
        /\ job'[s].status = job[s].status /\ job'[s].attempts = job[s].attempts
        /\ job'[s].owner = job[s].owner
    BY <2>2 DEF TypeOK, Row
  <2>4. OwnRow'
    BY <2>1 DEF Lease, OwnRow
  <2>5. RetriesLeft'
    BY <2>3 DEF Lease, RetriesLeft, HasAttemptLeft
  <2>6. LeaseIsHeld'
    BY <2>1, <2>3 DEF Lease, LeaseIsHeld
  <2>7. WorkersHold'
    <3> SUFFICES ASSUME NEW v \in Workers, Active(v), work[v].of \notin lossy \cup {s}
                 PROVE  job'[work[v].of].status = "running" /\ job'[work[v].of].owner = v
      BY <2>1 DEF WorkersHold
    <3>1. work[v].of \in Scans /\ work[v].of # s
      BY DEF TypeOK, Tasks
    <3> QED
      BY <2>3, <3>1 DEF Lease, WorkersHold
  <2>8. ProposedOnce'
    <3> SUFFICES ASSUME NEW u \in Scans \ (lossy \cup {s})
                 PROVE  /\ Standing(u) <= 1
                        /\ Standing(u) = 1 =>
                             \/ job'[u].status = "completed"
                             \/ /\ job'[u].status = "running"
                                /\ work[job'[u].owner].at \in {"recording", "completing"}
      BY <2>1 DEF ProposedOnce
    <3>1. job'[u] = job[u]
      BY <2>3
    <3> QED
      BY <3>1 DEF Lease, ProposedOnce
  <2>9. DoneStays'
    <3> SUFFICES ASSUME NEW v \in Workers, Done(v)
                 PROVE  job'[work[v].of].status = "completed"
      BY <2>1 DEF DoneStays
    <3>1. work[v].of \in Scans /\ job[work[v].of].status = "completed"
      BY DEF TypeOK, Tasks, Lease, DoneStays
    <3> QED
      BY <2>3, <3>1
  <2> QED
    BY <2>4, <2>5, <2>6, <2>7, <2>8, <2>9 DEF Lease
<1>3. ASSUME NEW w \in Workers, Crash(w)
      PROVE  Lease'
  <2> DEFINE s == work[w].of
  <2>1. /\ s \in Scans /\ work'[w].at = "idle" /\ \A v \in Workers : v # w => work'[v] = work[v]
        /\ lossy' = lossy \cup {s} /\ UNCHANGED <<job, proposals>>
    BY <1>3, CrashShape, RestingTypes
  <2>2. ASSUME NEW v \in Workers, Active(v)'
        PROVE  Active(v) /\ work'[v] = work[v] /\ v # w
    BY <2>1, <2>2
  <2>3. OwnRow'
    <3> SUFFICES ASSUME NEW v \in Workers, work'[v].at \notin {"idle", "failed"}
                 PROVE  \/ Active(v)' /\ work'[v].row.owner = v /\ ~At(v, "attaching")'
                        \/ Done(v)'
      BY DEF OwnRow
    <3>1. work'[v] = work[v]
      BY <2>1
    <3> QED
      BY <3>1 DEF Lease, OwnRow
  <2>4. RetriesLeft'
    BY <2>1 DEF Lease, RetriesLeft
  <2>5. ASSUME NEW u \in Scans \ (lossy \cup {s}), job[u].status = "running"
        PROVE  work'[job[u].owner] = work[job[u].owner]
    <3>1. job[u].owner \in Workers /\ work[job[u].owner].of = u
      BY <2>5 DEF Lease, LeaseIsHeld
    <3>2. job[u].owner # w
      BY <3>1
    <3> QED
      BY <2>1, <3>1, <3>2
  <2> HIDE DEF s
  <2>6. LeaseIsHeld'
    BY <2>1, <2>5 DEF Lease, LeaseIsHeld
  <2>7. WorkersHold'
    <3> SUFFICES ASSUME NEW v \in Workers, Active(v)', work'[v].of \notin lossy \cup {s}
                 PROVE  job[work'[v].of].status = "running" /\ job[work'[v].of].owner = v
      BY <2>1 DEF WorkersHold
    <3> QED
      BY <2>2 DEF Lease, WorkersHold
  <2>8. ProposedOnce'
    BY <2>1, <2>5 DEF Lease, ProposedOnce
  <2>9. DoneStays'
    <3> SUFFICES ASSUME NEW v \in Workers, Done(v)'
                 PROVE  job[work'[v].of].status = "completed"
      BY <2>1 DEF DoneStays
    <3>1. work'[v] = work[v]
      BY <2>1
    <3> QED
      BY <3>1 DEF Lease, DoneStays
  <2> QED
    BY <2>3, <2>4, <2>6, <2>7, <2>8, <2>9 DEF Lease
<1> QED
  BY <1>1, <1>2, <1>3

(* Next, by who takes the step.                                            *)
LEMMA StepKinds ==
  ASSUME Next
  PROVE  \/ Outside
         \/ \E w \in Workers : TaskStep(w)
         \/ \E w \in Workers, s \in Scans : ClaimScan(w, s)
         \/ Sweep \/ (\E s \in Scans : Lapse(s)) \/ (\E w \in Workers : Crash(w))
<1>1. CASE Recover
  BY <1>1 DEF Recover, Outside
<1>2. CASE \E w \in Workers : WorkerStep(w) \/ RaiseError(w) \/ CancelTask(w) \/ Crash(w)
  BY <1>2 DEF WorkerStep, TaskStep
<1>3. CASE \/ Dispatch \/ SenderDies \/ Tick
           \/ \E h \in Hosts : AskScan(h) \/ SaveSchedule(h)
           \/ \E s \in Scans : SendAsked(s) \/ Lapse(s)
  BY <1>3 DEF Outside
<1> QED
  BY <1>1, <1>2, <1>3 DEF Next

LEMMA TypesNext ==
  ASSUME TypeOK, OwnRow, Next
  PROVE  TypeOK'
<1>1. ASSUME NEW w \in Workers, TaskStep(w)
      PROVE  TypeOK'
  BY <1>1, TaskShapes
<1>2. ASSUME NEW w \in Workers, NEW s \in Scans, ClaimScan(w, s)
      PROVE  TypeOK'
  BY <1>2, ClaimShape
<1>3. ASSUME NEW w \in Workers, Crash(w)
      PROVE  TypeOK'
  BY <1>3, CrashShape
<1>4. CASE Outside \/ Sweep \/ \E s \in Scans : Lapse(s)
  BY <1>4, DispatchTypes, OperatorTypes, SendAskedTypes, RecoverTypes DEF Outside, Recover
<1> QED
  BY <1>1, <1>2, <1>3, <1>4, StepKinds

LEMMA LeaseNext ==
  ASSUME TypeOK, Lease, Next
  PROVE  Lease'
BY StepKinds, OutsideIsQuiet, LeaseQuiet, LeaseTask, LeaseClaim, LeaseLoss

-----------------------------------------------------------------------------
(* skip_if_running.                                                        *)

Going(s) == job[s].status \in {"queued", "running"}

(* The only step that gives a scan a job that is under way is the one that *)
(* creates it: a claim, a retry or a recovery takes a job that is.         *)
LEMMA GoingShrinks ==
  ASSUME TypeOK, OwnRow, Next, NEW s \in Scans, Going(s)'
  PROVE  \/ Going(s)
         \/ s.trigger = "manual"
         \/ ~HostHasActiveScan(s.host) /\ \A u \in Scans : u # s => job'[u] = job[u]
<1> USE DEF Going
<1>1. ASSUME NEW w \in Workers, TaskStep(w)
      PROVE  Going(s)
  <2> DEFINE u == work[w].of
  <2>1. /\ OnlyAt(w, u)
        /\ \/ LetsGo(w, u) \/ SavesPhase(w, u) \/ MovesOn(w, u)
           \/ Completes(w, u) \/ Announces(w, u) \/ Fails(w, u) \/ RecordsFailure(w, u)
    BY <1>1, TaskShapes
  <2>2. Owns(w) => job[u].status = "running"
    BY DEF Owns, HoldsLease
  <2> HIDE DEF u
  <2>3. s # u => job'[s] = job[s]
    BY <2>1 DEF OnlyAt
  <2>4. job'[u].status \in {"queued", "running"} => Going(u)
    BY <2>1, <2>2 DEF LetsGo, SavesPhase, MovesOn, Completes, Announces, Fails,
                          RecordsFailure
  <2> QED
    BY <2>3, <2>4
<1>2. ASSUME NEW w \in Workers, NEW u \in Scans, ClaimScan(w, u)
      PROVE  Going(s)
  <2>1. /\ s # u => job'[s] = job[s]
        /\ job' = job \/ Claimable(job[u], 0)
    BY <1>2, ClaimShape
  <2> QED
    BY <2>1 DEF Claimable, Lapsed
<1>3. CASE Sweep
  <2>1. Lapsed(job[s], 0) \/ job'[s] = job[s]
    BY <1>3, SweepShape
  <2> QED
    BY <2>1 DEF Lapsed
<1>4. ASSUME NEW u \in Scans, Lapse(u)
      PROVE  Going(s)
  <2>1. job[u].status = "running" /\ job' = [job EXCEPT ![u].expires = 0]
    BY <1>4 DEF Lapse
  <2> QED
    BY <2>1 DEF TypeOK
<1>5. ASSUME NEW w \in Workers, Crash(w)
      PROVE  Going(s)
  BY <1>5 DEF Crash
<1>6. CASE Outside
  <2>1. CASE \/ ListDue \/ MoveOn \/ SendMade \/ SenderDies \/ Tick
             \/ \E h \in Hosts : SkipOverlap(h) \/ TakeDue(h) \/ SaveSchedule(h)
             \/ \E u \in Scans : SendAsked(u) \/ RecordSweep(u) \/ SendRecovered(u)
    BY <2>1 DEF ListDue, MoveOn, SendMade, SenderDies, Tick, SkipOverlap, TakeDue,
                SaveSchedule, SendAsked, RecordSweep, SendRecovered
  <2>2. ASSUME NEW h \in Hosts, AskScan(h)
        PROVE  Going(s) \/ s.trigger = "manual"
    <3> DEFINE u == [host |-> h, trigger |-> "manual", minute |-> now]
    <3>1. job' = job \/ job' = [job EXCEPT ![u] = NewRow("queued")]
      BY <2>2 DEF AskScan
    <3>2. u.trigger = "manual"
      OBVIOUS
    <3> HIDE DEF u
    <3> QED
      BY <3>1, <3>2 DEF TypeOK
  <2>3. ASSUME NEW d \in beat.due, CreateScheduled(d), ~Going(s)
        PROVE  ~HostHasActiveScan(s.host) /\ \A u \in Scans : u # s => job'[u] = job[u]
    <3> DEFINE u == Scheduled(d[1], d[2])
    <3>1. \/ job' = job
          \/ job[u].status = "absent" /\ ~HostHasActiveScan(d[1])
             /\ job' = [job EXCEPT ![u] = NewRow("queued")]
      BY <2>3 DEF CreateScheduled
    <3>2. u.host = d[1]
      BY DEF Scheduled
    <3> HIDE DEF u
    <3>3. /\ s = u /\ ~HostHasActiveScan(d[1])
          /\ job' = [job EXCEPT ![u] = NewRow("queued")]
      BY <2>3, <3>1 DEF TypeOK
    <3> QED
      BY <3>2, <3>3 DEF TypeOK
  <2> QED
    BY <1>6, <2>1, <2>2, <2>3 DEF Outside, Dispatch
<1> QED
  BY <1>1, <1>2, <1>3, <1>4, <1>5, <1>6, StepKinds

LEMMA OverlapNext ==
  ASSUME TypeOK, OwnRow, ScheduledScansDoNotOverlap, Next
  PROVE  ScheduledScansDoNotOverlap'
<1> SUFFICES ASSUME NEW s \in Scans, NEW t \in Scans, s.host = t.host,
                    s.trigger = "scheduled", t.trigger = "scheduled", Going(s)', Going(t)'
             PROVE  s = t
  BY DEF ScheduledScansDoNotOverlap, Going
<1>1. \/ Going(s)
      \/ ~HostHasActiveScan(s.host) /\ \A u \in Scans : u # s => job'[u] = job[u]
  BY GoingShrinks
<1>2. \/ Going(t)
      \/ ~HostHasActiveScan(t.host) /\ \A u \in Scans : u # t => job'[u] = job[u]
  BY GoingShrinks
<1>3. CASE Going(s) /\ Going(t)
  BY <1>3 DEF ScheduledScansDoNotOverlap, Going
<1>4. ASSUME ~HostHasActiveScan(s.host), ~Going(s)
      PROVE  s = t
  <2>1. ~Going(t)
    BY <1>4 DEF HostHasActiveScan, Going
  <2>2. t # s => job'[t] = job[t]
    BY <1>1, <1>4
  <2> QED
    BY <2>1, <2>2 DEF Going
<1>5. ASSUME ~HostHasActiveScan(t.host), ~Going(t)
      PROVE  s = t
  <2>1. ~Going(s)
    BY <1>5 DEF HostHasActiveScan, Going
  <2>2. t # s => job'[s] = job[s]
    BY <1>2, <1>5
  <2> QED
    BY <2>1, <2>2 DEF Going
<1> QED
  BY <1>1, <1>2, <1>3, <1>4, <1>5

-----------------------------------------------------------------------------
(* The delivery of a queued scan.                                          *)

RestingMadeNone == beat.at = "resting" => beat.made = {}

(* QueuedScanIsExpected, saying which worker at its failure counts: the    *)
(* one whose copy of the job says that it is tried again.                  *)
Waits(s) == s \in sent \cup asked \cup beat.made \cup swept.recovered \cup swept.ready \cup dropped
Returns(w, s) ==
  At(w, "failed") /\ work[w].of = s
  /\ work[w].row.status = "queued" /\ work[w].row.phase = "retry_scheduled"

Expected ==
  \A s \in Scans :
    job[s].status = "queued" => Waits(s) \/ \E w \in Workers : Returns(w, s)

LEMMA ExpectedOutside ==
  ASSUME TypeOK, RestingMadeNone, Expected, Outside
  PROVE  Expected' /\ RestingMadeNone'
<1> USE DEF OutsideBeat, hist
<1>1. work' = work /\ Resting.made = {} /\ Resting.at = "resting"
  BY OutsideIsQuiet, RestingTypes DEF Quiet
<1>2. ASSUME NEW s \in Scans, Waits(s)' \/ (job' = job /\ (Waits(s) => Waits(s)'))
      PROVE  job'[s].status = "queued" => Waits(s)' \/ \E w \in Workers : Returns(w, s)'
  BY <1>1, <1>2 DEF Expected, Returns, At
<1>3. ASSUME job' = job, \A s \in Scans : Waits(s) => Waits(s)'
      PROVE  Expected'
  BY <1>2, <1>3 DEF Expected
<1>4. beat \in Beats
  BY DEF TypeOK, Beats
<1>5. CASE ListDue
  <2>1. /\ beat'.made = beat.made /\ beat'.at = "listing" /\ job' = job
        /\ UNCHANGED <<sent, asked, swept, dropped>>
    BY <1>1, <1>5, RestingTypes DEF ListDue, RestingMadeNone, Beats
  <2> QED
    BY <1>3, <2>1 DEF Waits, RestingMadeNone
<1>6. CASE MoveOn \/ \E h \in Hosts : SkipOverlap(h) \/ TakeDue(h)
  <2>1. /\ beat'.made = beat.made /\ beat'.at # "resting" /\ job' = job
        /\ UNCHANGED <<sent, asked, swept, dropped>>
    BY <1>4, <1>6 DEF MoveOn, SkipOverlap, TakeDue, Beats
  <2> QED
    BY <1>3, <2>1 DEF Waits, RestingMadeNone
<1>7. ASSUME NEW d \in beat.due, CreateScheduled(d)
      PROVE  Expected' /\ RestingMadeNone'
  <2> DEFINE s == Scheduled(d[1], d[2])
  <2>1. \/ /\ job' = job \/ job' = [job EXCEPT ![s] = NewRow("queued")]
           /\ beat' = [beat EXCEPT !.at = "moving", !.made = @ \cup {s}]
           /\ dropped' = dropped
        \/ job' = job /\ beat' = Resting /\ dropped' = dropped \cup beat.made
    BY <1>7 DEF CreateScheduled
  <2>2. UNCHANGED <<sent, asked, swept>>
    BY <1>7 DEF CreateScheduled
  <2> HIDE DEF s
  <2>3. CASE job' = job /\ beat' = Resting /\ dropped' = dropped \cup beat.made
    <3>1. \A u \in Scans : Waits(u) => Waits(u)'
      BY <2>2, <2>3 DEF Waits
    <3> QED
      BY <1>1, <1>3, <2>3, <3>1 DEF RestingMadeNone
  <2>4. CASE /\ job' = job \/ job' = [job EXCEPT ![s] = NewRow("queued")]
             /\ beat' = [beat EXCEPT !.at = "moving", !.made = @ \cup {s}]
             /\ dropped' = dropped
    <3>1. beat'.made = beat.made \cup {s} /\ beat'.at = "moving"
      BY <1>4, <2>4 DEF Beats
    <3>2. Waits(s)' /\ \A u \in Scans : Waits(u) => Waits(u)'
      BY <2>2, <2>4, <3>1 DEF Waits
    <3>3. ASSUME NEW u \in Scans, job'[u].status = "queued"
          PROVE  Waits(u)' \/ \E w \in Workers : Returns(w, u)'
      <4>1. CASE u = s
        BY <3>2, <4>1
      <4>2. CASE u # s
        <5>1. job'[u] = job[u]
          BY <2>4, <4>2 DEF TypeOK
        <5> QED
          BY <1>1, <3>2, <3>3, <5>1 DEF Expected, Returns, At
      <4> QED
        BY <4>1, <4>2
    <3> QED
      BY <3>1, <3>3 DEF Expected, RestingMadeNone
  <2> QED
    BY <2>1, <2>3, <2>4
<1>8. CASE SendMade
  <2>1. job' = job /\ UNCHANGED <<asked, swept, dropped>>
    BY <1>8 DEF SendMade
  <2>2. CASE beat.made = {}
    <3>1. beat' = Resting /\ sent' = sent
      BY <1>8, <2>2 DEF SendMade
    <3>2. \A u \in Scans : Waits(u) => Waits(u)'
      BY <2>1, <2>2, <3>1 DEF Waits
    <3> QED
      BY <1>1, <1>3, <2>1, <3>1, <3>2 DEF RestingMadeNone
  <2>3. CASE beat.made # {}
    <3>1. PICK s \in beat.made :
            /\ sent' = sent \cup {s}
            /\ beat' = [beat EXCEPT !.at = "sending", !.made = @ \ {s}]
      BY <1>8, <2>3 DEF SendMade
    <3>2. beat'.made = beat.made \ {s} /\ beat'.at = "sending"
      BY <1>4, <3>1 DEF Beats
    <3>3. \A u \in Scans : Waits(u) => Waits(u)'
      BY <2>1, <3>1, <3>2 DEF Waits
    <3> QED
      BY <1>3, <2>1, <3>2, <3>3 DEF RestingMadeNone
  <2> QED
    BY <2>2, <2>3
<1>9. ASSUME NEW h \in Hosts, AskScan(h) \/ SaveSchedule(h)
      PROVE  Expected' /\ RestingMadeNone'
  <2>1. RestingMadeNone' /\ UNCHANGED <<sent, swept, beat, dropped>>
    BY <1>9 DEF AskScan, SaveSchedule, RestingMadeNone
  <2>2. CASE SaveSchedule(h)
    <3>1. job' = job /\ asked' = asked
      BY <2>2 DEF SaveSchedule
    <3> QED
      BY <1>3, <2>1, <3>1 DEF Waits
  <2>3. CASE AskScan(h)
    <3> DEFINE s == [host |-> h, trigger |-> "manual", minute |-> now]
    <3>1. /\ job' = job \/ job' = [job EXCEPT ![s] = NewRow("queued")]
          /\ asked' = IF job'[s].status = "queued" THEN asked \cup {s} ELSE asked
      BY <2>3 DEF AskScan
    <3> HIDE DEF s
    <3>2. /\ \A u \in Scans : Waits(u) => Waits(u)'
          /\ job'[s].status = "queued" => s \in asked'
      <4>1. asked \subseteq asked' /\ (job'[s].status = "queued" => s \in asked')
        BY <3>1
      <4> QED
        BY <2>1, <4>1 DEF Waits
    <3>3. ASSUME NEW u \in Scans, job'[u].status = "queued"
          PROVE  Waits(u)' \/ \E w \in Workers : Returns(w, u)'
      <4>1. CASE u = s
        BY <3>2, <3>3, <4>1 DEF Waits
      <4>2. CASE u # s
        <5>1. job'[u] = job[u]
          BY <3>1, <4>2 DEF TypeOK
        <5> QED
          BY <1>1, <3>2, <3>3, <5>1 DEF Expected, Returns, At
      <4> QED
        BY <4>1, <4>2
    <3> QED
      BY <2>1, <3>3 DEF Expected
  <2> QED
    BY <1>9, <2>2, <2>3
<1>10. ASSUME NEW s \in Scans, SendAsked(s)
       PROVE  Expected' /\ RestingMadeNone'
  BY <1>3, <1>10 DEF SendAsked, Waits, RestingMadeNone
<1>11. ASSUME NEW s \in Scans, RecordSweep(s) \/ SendRecovered(s)
       PROVE  Expected' /\ RestingMadeNone'
  <2>1. swept \in [recovered : SUBSET Scans, exhausted : SUBSET Scans, ready : SUBSET Scans]
    BY DEF TypeOK
  <2>2. job' = job /\ UNCHANGED <<beat, asked, dropped>>
    BY <1>11 DEF RecordSweep, SendRecovered
  <2>3. CASE RecordSweep(s)
    <3>1. \/ UNCHANGED <<swept.recovered, swept.ready>>
          \/ /\ swept'.recovered = swept.recovered \ {s}
             /\ swept'.ready = swept.ready \cup {s}
      BY <2>1, <2>3 DEF RecordSweep
    <3>2. \A u \in Scans : Waits(u) => Waits(u)'
      BY <2>2, <2>3, <3>1 DEF Waits, RecordSweep
    <3> QED
      BY <1>3, <2>2, <3>2 DEF RestingMadeNone
  <2>4. CASE SendRecovered(s)
    <3>1. /\ swept'.recovered = swept.recovered /\ swept'.ready = swept.ready \ {s}
          /\ sent' = sent \cup {s}
      BY <2>1, <2>4 DEF SendRecovered
    <3>2. \A u \in Scans : Waits(u) => Waits(u)'
      BY <2>2, <3>1 DEF Waits
    <3> QED
      BY <1>3, <2>2, <3>2 DEF RestingMadeNone
  <2> QED
    BY <1>11, <2>3, <2>4
<1>12. CASE SenderDies
  <2>1. /\ UNCHANGED <<job, sent>> /\ RestingMadeNone'
        /\ beat' = beat \/ beat' = Resting
    BY <1>1, <1>12 DEF SenderDies, RestingMadeNone
  <2>2. \A u \in Scans : Waits(u) => Waits(u)'
    BY <1>12, <2>1 DEF SenderDies, Waits
  <2> QED
    BY <1>3, <2>1, <2>2
<1>13. CASE Tick
  BY <1>3, <1>13 DEF Tick, Waits, RestingMadeNone
<1> QED
  BY <1>5, <1>6, <1>7, <1>8, <1>9, <1>10, <1>11, <1>12, <1>13 DEF Outside, Dispatch

LEMMA ExpectedNext ==
  ASSUME TypeOK, OwnRow, RestingMadeNone, Expected, Next
  PROVE  Expected' /\ RestingMadeNone'
<1>1. CASE Outside
  BY <1>1, ExpectedOutside
<1>2. ASSUME NEW w \in Workers, TaskStep(w)
      PROVE  Expected' /\ RestingMadeNone'
  <2> DEFINE s == work[w].of
  <2>1. /\ s \in Scans /\ OnlyAt(w, s)
        /\ \/ LetsGo(w, s) \/ SavesPhase(w, s) \/ MovesOn(w, s)
           \/ Completes(w, s) \/ Announces(w, s) \/ Fails(w, s) \/ RecordsFailure(w, s)
    BY <1>2, TaskShapes
  <2>2. /\ sent \subseteq sent' /\ UNCHANGED <<asked, beat, swept, dropped>>
        /\ \A u \in Scans : u # s => job'[u] = job[u]
        /\ \A v \in Workers : v # w => work'[v] = work[v]
    BY <2>1 DEF OnlyAt, OutsideWork
  <2>3. \A u \in Scans : Waits(u) => Waits(u)'
    BY <2>2 DEF Waits
  <2>4. ASSUME NEW u \in Scans, NEW v \in Workers, v # w, Returns(v, u)
        PROVE  Returns(v, u)'
    BY <2>2, <2>4 DEF Returns, At
  <2>5. ASSUME NEW u \in Scans, Returns(w, u)
        PROVE  Waits(u)'
    <3>1. u = s /\ At(w, "failed") /\ work[w].row.status = "queued"
          /\ work[w].row.phase = "retry_scheduled"
      BY <2>5 DEF Returns
    <3>2. RecordsFailure(w, s)
      BY <2>1, <3>1 DEF LetsGo, SavesPhase, MovesOn, Completes, Announces, Fails, Active,
                            Done, At
    <3>3. sent' = sent \cup {s}
      BY <3>1, <3>2 DEF RecordsFailure, RetryAfter
    <3> QED
      BY <3>1, <3>3 DEF Waits
  <2>6. job'[s].status = "queued" =>
          \/ job'[s] = job[s]
          \/ /\ work'[w].at = "failed" /\ work'[w].of = s
             /\ work'[w].row.status = "queued" /\ work'[w].row.phase = "retry_scheduled"
    BY <2>1 DEF LetsGo, SavesPhase, MovesOn, Completes, Announces, Fails, RecordsFailure, At
  <2> HIDE DEF s
  <2>7. ASSUME NEW u \in Scans, job'[u].status = "queued"
        PROVE  Waits(u)' \/ \E v \in Workers : Returns(v, u)'
    <3>1. CASE job'[u] = job[u]
      <4>1. Waits(u) \/ \E v \in Workers : Returns(v, u)
        BY <2>7, <3>1 DEF Expected
      <4> QED
        BY <2>3, <2>4, <2>5, <4>1
    <3>2. CASE job'[u] # job[u]
      <4>1. u = s
        BY <2>2, <3>2
      <4>2. Returns(w, u)'
        BY <2>6, <2>7, <3>2, <4>1 DEF Returns, At
      <4> QED
        BY <4>2
    <3> QED
      BY <3>1, <3>2
  <2> QED
    BY <2>2, <2>7 DEF Expected, RestingMadeNone
<1>3. ASSUME NEW w \in Workers, NEW s \in Scans, ClaimScan(w, s)
      PROVE  Expected' /\ RestingMadeNone'
  <2>1. /\ At(w, "idle") /\ UNCHANGED <<asked, beat, swept>>
        /\ sent' = sent \ {s} /\ dropped' = dropped \ {s}
        /\ \A u \in Scans : u # s => job'[u] = job[u]
        /\ \A v \in Workers : v # w => work'[v] = work[v]
        /\ job'[s].status # "queued"
    BY <1>3, ClaimShape DEF OutsideWork, Claimable
  <2>2. ASSUME NEW u \in Scans, job'[u].status = "queued"
        PROVE  Waits(u)' \/ \E v \in Workers : Returns(v, u)'
    <3>1. u # s /\ job[u].status = "queued"
      BY <2>1, <2>2
    <3>2. Waits(u) => Waits(u)'
      BY <2>1, <3>1 DEF Waits
    <3>3. \A v \in Workers : Returns(v, u) => Returns(v, u)'
      BY <2>1 DEF Returns, At
    <3> QED
      BY <3>1, <3>2, <3>3 DEF Expected
  <2> QED
    BY <2>1, <2>2 DEF Expected, RestingMadeNone
<1>4. CASE Sweep
  <2>1. /\ swept'.recovered = {s \in Scans : Lapsed(job[s], 0) /\ HasAttemptLeft(job[s])}
        /\ \A s \in Scans :
             IF Lapsed(job[s], 0)
             THEN IF HasAttemptLeft(job[s]) THEN job'[s].status = "queued"
                  ELSE job'[s].status = "failed"
             ELSE job'[s] = job[s]
        /\ UNCHANGED <<sent, work, beat, asked, dropped>>
    BY <1>4, SweepShape DEF hist
  <2>2. swept.recovered = {} /\ swept.ready = {}
    BY <1>4 DEF Sweep, Swept
  <2>3. ASSUME NEW u \in Scans, job'[u].status = "queued"
        PROVE  Waits(u)' \/ \E v \in Workers : Returns(v, u)'
    <3>1. CASE Lapsed(job[u], 0)
      <4>1. u \in swept'.recovered
        BY <2>1, <2>3, <3>1
      <4> QED
        BY <4>1 DEF Waits
    <3>2. CASE ~Lapsed(job[u], 0)
      <4>1. job[u].status = "queued"
        BY <2>1, <2>3, <3>2
      <4>2. Waits(u) => Waits(u)'
        BY <2>1, <2>2 DEF Waits
      <4>3. \A v \in Workers : Returns(v, u) => Returns(v, u)'
        BY <2>1 DEF Returns, At
      <4> QED
        BY <4>1, <4>2, <4>3 DEF Expected
    <3> QED
      BY <3>1, <3>2
  <2> QED
    BY <2>1, <2>3 DEF Expected, RestingMadeNone
<1>5. ASSUME NEW s \in Scans, Lapse(s)
      PROVE  Expected' /\ RestingMadeNone'
  <2>1. /\ job' = [job EXCEPT ![s].expires = 0] /\ job[s].status = "running"
        /\ UNCHANGED <<sent, work, beat, swept, asked, dropped>>
    BY <1>5 DEF Lapse
  <2>2. \A u \in Scans : job'[u].status = job[u].status
    BY <2>1 DEF TypeOK
  <2> QED
    BY <2>1, <2>2 DEF Expected, RestingMadeNone, Waits, Returns, At
<1>6. ASSUME NEW w \in Workers, Crash(w)
      PROVE  Expected' /\ RestingMadeNone'
  <2> DEFINE s == work[w].of
  <2>1. /\ \A v \in Workers : v # w => work'[v] = work[v]
        /\ sent' = sent \cup {s}
        /\ UNCHANGED <<job, beat, swept, asked, dropped>>
    BY <1>6, CrashShape
  <2>2. ASSUME NEW u \in Scans
        PROVE  /\ Waits(u) => Waits(u)'
               /\ Returns(w, u) => Waits(u)'
               /\ \A v \in Workers : v # w /\ Returns(v, u) => Returns(v, u)'
    BY <2>1 DEF Waits, Returns, At
  <2> QED
    BY <2>1, <2>2 DEF Expected, RestingMadeNone
<1> QED
  BY <1>1, <1>2, <1>3, <1>4, <1>5, <1>6, StepKinds

-----------------------------------------------------------------------------
(* The record of a scan.  A delivery that no loss and no operator repeats  *)
(* is in one place at a time: with a process that has still to send it, in *)
(* the broker, or with the one worker that took it.  The dispatcher may    *)
(* come back to a run it made before and died; it never does after it has  *)
(* sent one, because the schedule has moved past the run by then.          *)

Exists(s) == job[s].status # "absent"
Busy(s) == \E w \in Workers : ~At(w, "idle") /\ work[w].of = s

(* The delivery of s has left the process that made it.                    *)
Begun(s) ==
  \/ s \in sent \cup Swept \/ Busy(s)
  \/ job[s].status \notin {"absent", "queued"}

(* The dispatcher can still make this run.                                 *)
Ahead(s) ==
  /\ s.trigger = "scheduled"
  /\ schedule[s.host].next <= s.minute \/ <<s.host, s.minute>> \in beat.due

OnTime ==
  /\ beat.time <= now
  /\ \A d \in beat.due : d[2] <= beat.time
  /\ beat.at = "resting" => beat.due = {} /\ beat.made = {}
  /\ \A s \in Scans :
       s.trigger = "scheduled" /\ Exists(s) =>
         s.minute <= now /\ (beat.at # "resting" => s.minute <= beat.time)

MadeMoved ==
  \A s \in beat.made :
    /\ s.trigger = "scheduled" /\ Exists(s)
    /\ <<s.host, s.minute>> \in beat.due \/ schedule[s.host].next > s.minute

Known == \A s \in Scans : ~Exists(s) => ~Begun(s) /\ s \notin asked \cup beat.made

NotBegunAhead == \A s \in Scans : Ahead(s) => ~Begun(s)

Calendar == OnTime /\ MadeMoved /\ Known /\ NotBegunAhead

AskedIsManual == \A s \in asked : s.trigger = "manual"

SweptIsLossy == Swept \subseteq lossy

TokenOnce ==
  \A s \in Scans \ (lossy \cup repeated) :
    /\ s \in sent => s \notin asked \cup beat.made
    /\ Busy(s) => s \notin sent \cup asked \cup beat.made
    /\ \A v, w \in Workers :
         ~At(v, "idle") /\ ~At(w, "idle") /\ work[v].of = s /\ work[w].of = s => v = w

Token == AskedIsManual /\ SweptIsLossy /\ TokenOnce

(* What the record of a scan says, by the worker that holds it.            *)
Agrees(s) ==
  \/ scan[s] = job[s].status
  \/ scan[s] = "failed" /\ job[s].status = "completed" /\ proposals[s].soured

Says(w, s) ==
  /\ work[w].at \in {"completing", "attaching"} => scan[s] = "completed"
  /\ work[w].at = "raised" /\ work[w].row.status = "completed" => proposals[s].soured
  /\ work[w].at = "failed" =>
       /\ work[w].row.status = job[s].status
       /\ \/ work[w].row.status \in {"queued", "failed"}
          \/ work[w].row.status = "completed" /\ proposals[s].soured

RecordOK ==
  \A s \in Scans \ (lossy \cup repeated) :
    /\ ~Busy(s) /\ Exists(s) => Agrees(s)
    /\ \A w \in Workers : work[w].of = s => Says(w, s)

(* A step that leaves the schedules and what the dispatcher has listed as  *)
(* they are, and begins no run the dispatcher can still make.              *)
LEMMA CalendarFrame ==
  ASSUME TypeOK, Calendar, schedule' = schedule, now' \in {now, now + 1},
         asked' \subseteq asked,
         \/ beat' = beat \/ beat' = Resting
         \/ /\ beat.at # "resting" /\ beat'.at # "resting" /\ beat'.time = beat.time
            /\ beat'.due = beat.due /\ beat'.made \subseteq beat.made,
         \A s \in Scans : Begun(s)' => Begun(s) \/ (Exists(s) /\ ~Ahead(s)),
         \A s \in Scans : Exists(s)' <=> Exists(s)
  PROVE  Calendar'
<1>1. beat.made \subseteq Scans /\ now \in Int /\ 0 <= now
      /\ \A s \in Scans : s.minute \in Int
  BY DEF TypeOK, Scans
<1>2. Resting.at = "resting" /\ Resting.time = 0 /\ Resting.due = {} /\ Resting.made = {}
  BY RestingTypes
<1>3. beat'.due \subseteq beat.due /\ beat'.made \subseteq beat.made
  BY <1>2
<1>4. OnTime'
  <2>1. \/ beat'.time = beat.time /\ (beat'.at = "resting" <=> beat.at = "resting")
        \/ beat' = Resting
    OBVIOUS
  <2>2. /\ beat'.time <= now'
        /\ \A d \in beat'.due : d[2] <= beat'.time
        /\ beat'.at = "resting" => beat'.due = {} /\ beat'.made = {}
    <3>1. beat.time \in Int
      BY DEF TypeOK
    <3> QED
      BY <1>1, <1>2, <2>1, <3>1 DEF Calendar, OnTime
  <2>3. ASSUME NEW s \in Scans, s.trigger = "scheduled", Exists(s)'
        PROVE  s.minute <= now' /\ (beat'.at # "resting" => s.minute <= beat'.time)
    <3>1. s.minute <= now /\ (beat.at # "resting" => s.minute <= beat.time)
      BY <2>3 DEF Calendar, OnTime
    <3> QED
      BY <1>1, <1>2, <2>1, <3>1
  <2> QED
    BY <2>2, <2>3 DEF OnTime
<1>5. MadeMoved'
  <2> SUFFICES ASSUME NEW s \in beat'.made
               PROVE  /\ s.trigger = "scheduled" /\ Exists(s)'
                      /\ <<s.host, s.minute>> \in beat'.due \/ schedule[s.host].next > s.minute
    BY DEF MadeMoved
  <2>1. s \in beat.made /\ s \in Scans /\ beat'.due = beat.due
    BY <1>1, <1>2, <1>3
  <2> QED
    BY <2>1 DEF Calendar, MadeMoved
<1>6. Known'
  BY <1>3 DEF Calendar, Known
<1>7. NotBegunAhead'
  <2> SUFFICES ASSUME NEW s \in Scans, Ahead(s)'
               PROVE  ~Begun(s)'
    BY DEF NotBegunAhead
  <2>1. Ahead(s)
    BY <1>3 DEF Ahead
  <2> QED
    BY <2>1 DEF Calendar, NotBegunAhead
<1> QED
  BY <1>4, <1>5, <1>6, <1>7 DEF Calendar

LEMMA CalendarWorkers ==
  ASSUME TypeOK, OwnRow, Calendar,
         \/ \E w \in Workers : TaskStep(w) \/ Crash(w)
         \/ \E w \in Workers, s \in Scans : ClaimScan(w, s)
         \/ Sweep \/ \E s \in Scans : Lapse(s)
  PROVE  Calendar'
<1>1. Idle.at = "idle"
  BY RestingTypes
<1>2. ASSUME NEW w \in Workers, TaskStep(w)
      PROVE  Calendar'
  <2> DEFINE s == work[w].of
  <2>1. /\ s \in Scans /\ ~At(w, "idle") /\ OnlyAt(w, s)
        /\ \/ LetsGo(w, s) \/ SavesPhase(w, s) \/ MovesOn(w, s)
           \/ Completes(w, s) \/ Announces(w, s) \/ Fails(w, s) \/ RecordsFailure(w, s)
    BY <1>2, TaskShapes
  <2>2. Busy(s) /\ Begun(s)
    BY <2>1 DEF Busy, Begun
  <2>3. Exists(s)
    BY <2>1, <2>2 DEF Calendar, Known
  <2>4. /\ work'[w].at = "idle" \/ work'[w].of = s
        /\ job'[s].status # "absent"
    BY <1>1, <2>1, <2>3 DEF LetsGo, SavesPhase, MovesOn, Completes, Announces, Fails,
                                RecordsFailure, Exists
  <2>5. /\ UNCHANGED <<schedule, beat, now, asked, swept>> /\ sent' \subseteq sent \cup {s}
        /\ \A u \in Scans : u # s => job'[u] = job[u]
        /\ \A v \in Workers : v # w => work'[v] = work[v]
    BY <2>1 DEF OnlyAt, OutsideWork
  <2> HIDE DEF s
  <2>6. ASSUME NEW u \in Scans, Begun(u)'
        PROVE  Begun(u)
    <3>1. CASE u = s
      BY <2>2, <3>1
    <3>2. CASE u # s
      BY <2>4, <2>5, <2>6, <3>2 DEF Begun, Busy, At, Swept
    <3> QED
      BY <3>1, <3>2
  <2>7. \A u \in Scans : Exists(u)' <=> Exists(u)
    BY <2>3, <2>4, <2>5 DEF Exists
  <2> QED
    BY <2>5, <2>6, <2>7, CalendarFrame
<1>3. ASSUME NEW w \in Workers, NEW s \in Scans, ClaimScan(w, s)
      PROVE  Calendar'
  <2>1. /\ s \in sent /\ sent' = sent \ {s} /\ UNCHANGED <<schedule, beat, now, asked, swept>>
        /\ \A u \in Scans : u # s => job'[u] = job[u]
        /\ \A v \in Workers : v # w => work'[v] = work[v]
        /\ job'[s] = job[s] \/ job'[s].status # "absent"
        /\ work'[w] = work[w] \/ work'[w].of = s
    BY <1>3, ClaimShape DEF OutsideWork
  <2>2. Begun(s) /\ Exists(s)
    BY <2>1 DEF Calendar, Known, Begun
  <2>3. ASSUME NEW u \in Scans, Begun(u)'
        PROVE  Begun(u)
    <3>1. CASE u = s
      BY <2>2, <3>1
    <3>2. CASE u # s
      BY <2>1, <2>3, <3>2 DEF Begun, Busy, At, Swept
    <3> QED
      BY <3>1, <3>2
  <2>4. \A u \in Scans : Exists(u)' <=> Exists(u)
    BY <2>1, <2>2 DEF Exists
  <2> QED
    BY <2>1, <2>3, <2>4, CalendarFrame
<1>4. ASSUME NEW w \in Workers, Crash(w)
      PROVE  Calendar'
  <2> DEFINE s == work[w].of
  <2>1. /\ ~At(w, "idle") /\ s \in Scans /\ work'[w].at = "idle"
        /\ \A v \in Workers : v # w => work'[v] = work[v]
        /\ sent' = sent \cup {s} /\ UNCHANGED <<schedule, job, beat, swept, asked, now>>
    BY <1>1, <1>4, CrashShape
  <2>2. Begun(s)
    BY <2>1 DEF Busy, Begun
  <2> HIDE DEF s
  <2>3. \A u \in Scans : Begun(u)' => Begun(u)
    BY <2>1, <2>2 DEF Begun, Busy, At, Swept
  <2>4. \A u \in Scans : Exists(u)' <=> Exists(u)
    BY <2>1 DEF Exists
  <2> QED
    BY <2>1, <2>3, <2>4, CalendarFrame
<1>5. CASE Sweep
  <2>1. /\ swept'.recovered = {s \in Scans : Lapsed(job[s], 0) /\ HasAttemptLeft(job[s])}
        /\ swept'.exhausted = {s \in Scans : Lapsed(job[s], 0) /\ ~HasAttemptLeft(job[s])}
        /\ swept'.ready = {}
        /\ \A s \in Scans :
             IF Lapsed(job[s], 0) THEN job'[s].status \in {"queued", "failed"}
             ELSE job'[s] = job[s]
        /\ UNCHANGED <<schedule, sent, work, beat, asked, now>>
    BY <1>5, SweepShape
  <2>2. ASSUME NEW u \in Scans
        PROVE  (Begun(u)' => Begun(u)) /\ (Exists(u)' <=> Exists(u))
    <3>1. CASE Lapsed(job[u], 0)
      BY <2>1, <3>1 DEF Begun, Exists, Lapsed
    <3>2. CASE ~Lapsed(job[u], 0)
      <4>1. u \notin Swept' /\ job'[u] = job[u]
        BY <2>1, <3>2 DEF Swept
      <4> QED
        BY <2>1, <4>1 DEF Begun, Exists, Busy, At
    <3> QED
      BY <3>1, <3>2
  <2> QED
    BY <2>1, <2>2, CalendarFrame
<1>6. ASSUME NEW s \in Scans, Lapse(s)
      PROVE  Calendar'
  <2>1. /\ job' = [job EXCEPT ![s].expires = 0]
        /\ UNCHANGED <<schedule, sent, work, beat, swept, asked, now>>
    BY <1>6 DEF Lapse
  <2>2. \A u \in Scans : job'[u].status = job[u].status
    BY <2>1 DEF TypeOK
  <2>3. \A u \in Scans : (Begun(u)' => Begun(u)) /\ (Exists(u)' <=> Exists(u))
    BY <2>1, <2>2 DEF Begun, Exists, Busy, At, Swept
  <2> QED
    BY <2>1, <2>3, CalendarFrame
<1> QED
  BY <1>2, <1>3, <1>4, <1>5, <1>6

(* The schedule moves past every run of the host that exists.              *)
LEMMA CalendarMoves ==
  ASSUME TypeOK, Calendar, NEW h \in Hosts, MoveSchedule(h), beat.at # "resting",
         UNCHANGED <<job, asked, sent, work, swept, now>>,
         \/ beat' = Resting
         \/ /\ beat'.at # "resting" /\ beat'.time = beat.time /\ beat'.made = beat.made
            /\ beat'.due = {d \in beat.due : d[1] # h}
  PROVE  Calendar'
<1>1. /\ beat.made \subseteq Scans /\ now \in Int /\ 0 <= now /\ beat.time \in Int
      /\ schedule \in [Hosts -> Schedules]
      /\ \A s \in Scans : s.minute \in Int /\ s.host \in Hosts
  BY DEF TypeOK, Scans
<1>2. Resting.at = "resting" /\ Resting.time = 0 /\ Resting.due = {} /\ Resting.made = {}
  BY RestingTypes
<1>3. \A g \in Hosts : schedule'[g].next = IF g = h THEN beat.time + 1 ELSE schedule[g].next
  BY <1>1 DEF MoveSchedule
<1>4. \A s \in Scans : (Begun(s)' <=> Begun(s)) /\ (Exists(s)' <=> Exists(s))
  BY DEF Begun, Exists, Busy, At, Swept
<1>5. ASSUME NEW s \in Scans, s.trigger = "scheduled", Exists(s)
      PROVE  s.minute <= now /\ s.minute <= beat.time
  BY <1>5 DEF Calendar, OnTime
<1>6. OnTime'
  <2>1. /\ beat'.time <= now
        /\ \A d \in beat'.due : d[2] <= beat'.time
        /\ beat'.at = "resting" => beat'.due = {} /\ beat'.made = {}
    BY <1>1, <1>2 DEF Calendar, OnTime
  <2>2. ASSUME NEW s \in Scans, s.trigger = "scheduled", Exists(s)'
        PROVE  s.minute <= now /\ (beat'.at # "resting" => s.minute <= beat'.time)
    BY <1>2, <1>4, <1>5, <2>2
  <2> QED
    BY <2>1, <2>2 DEF OnTime
<1>7. MadeMoved'
  <2> SUFFICES ASSUME NEW s \in beat'.made
               PROVE  /\ s.trigger = "scheduled" /\ Exists(s)'
                      /\ <<s.host, s.minute>> \in beat'.due \/ schedule'[s.host].next > s.minute
    BY DEF MadeMoved
  <2>1. s \in beat.made /\ s \in Scans /\ beat'.due = {d \in beat.due : d[1] # h}
    BY <1>1, <1>2
  <2>2. /\ s.trigger = "scheduled" /\ Exists(s)
        /\ <<s.host, s.minute>> \in beat.due \/ schedule[s.host].next > s.minute
    BY <2>1 DEF Calendar, MadeMoved
  <2>3. CASE s.host = h
    BY <1>1, <1>3, <1>4, <1>5, <2>1, <2>2, <2>3
  <2>4. CASE s.host # h
    BY <1>1, <1>3, <1>4, <2>1, <2>2, <2>4
  <2> QED
    BY <2>3, <2>4
<1>8. Known'
  <2>1. beat'.made \subseteq beat.made
    BY <1>2
  <2> QED
    BY <1>4, <2>1 DEF Calendar, Known
<1>9. NotBegunAhead'
  <2> SUFFICES ASSUME NEW s \in Scans, Ahead(s)'
               PROVE  ~Begun(s)
    BY <1>4 DEF NotBegunAhead
  <2>1. /\ s.trigger = "scheduled"
        /\ schedule'[s.host].next <= s.minute \/ <<s.host, s.minute>> \in beat'.due
    BY DEF Ahead
  <2>2. CASE Exists(s)
    <3>1. s.minute <= beat.time
      BY <1>5, <2>1, <2>2
    <3>2. CASE s.host = h
      <4>1. ~(schedule'[s.host].next <= s.minute)
        BY <1>1, <1>3, <3>1, <3>2
      <4>2. <<s.host, s.minute>> \notin beat'.due
        BY <1>2, <3>2
      <4> QED
        BY <2>1, <4>1, <4>2
    <3>3. CASE s.host # h
      <4>1. schedule'[s.host] .next = schedule[s.host].next
        BY <1>1, <1>3, <3>3
      <4>2. beat'.due \subseteq beat.due
        BY <1>2
      <4>3. Ahead(s)
        BY <2>1, <4>1, <4>2 DEF Ahead
      <4> QED
        BY <4>3 DEF Calendar, NotBegunAhead
    <3> QED
      BY <3>2, <3>3
  <2>3. CASE ~Exists(s)
    BY <2>3 DEF Calendar, Known
  <2> QED
    BY <2>2, <2>3
<1> QED
  BY <1>6, <1>7, <1>8, <1>9 DEF Calendar

LEMMA CalendarDispatch ==
  ASSUME TypeOK, Calendar, Dispatch
  PROVE  Calendar'
<1> USE DEF OutsideBeat, hist
<1>1. /\ beat \in Beats /\ now \in Int /\ 0 <= now
      /\ \A s \in Scans : s.minute \in Int /\ s.host \in Hosts
  BY DEF TypeOK, Beats, Scans
<1>2. Resting.at = "resting" /\ Resting.time = 0 /\ Resting.due = {} /\ Resting.made = {}
  BY RestingTypes
<1>3. CASE ListDue
  <2> DEFINE due == {h \in Hosts : schedule[h].enabled /\ schedule[h].next <= now}
             pairs == {<<h, schedule[h].next>> : h \in due}
  <2>1. UNCHANGED <<schedule, job, scan, proposals, sent, work, swept, asked, now>>
    BY <1>3 DEF ListDue
  <2>2. beat'.at = "listing" /\ beat'.time = now /\ beat'.due = pairs /\ beat'.made = {}
    BY <1>2, <1>3, RestingTypes DEF ListDue, Beats
  <2>3. \A s \in Scans : (Begun(s)' <=> Begun(s)) /\ (Exists(s)' <=> Exists(s))
    BY <2>1 DEF Begun, Exists, Busy, At, Swept
  <2>4. ASSUME NEW d \in pairs
        PROVE  d[2] <= now /\ schedule[d[1]].next = d[2]
    OBVIOUS
  <2> HIDE DEF pairs
  <2>5. OnTime'
    <3>1. ASSUME NEW s \in Scans, s.trigger = "scheduled", Exists(s)
          PROVE  s.minute <= now
      BY <3>1 DEF Calendar, OnTime
    <3> QED
      BY <1>1, <2>1, <2>2, <2>3, <2>4, <3>1 DEF OnTime
  <2>6. MadeMoved' /\ Known'
    BY <2>1, <2>2, <2>3 DEF Calendar, MadeMoved, Known
  <2>7. NotBegunAhead'
    <3> SUFFICES ASSUME NEW s \in Scans, Ahead(s)'
                 PROVE  ~Begun(s)
      BY <2>3 DEF NotBegunAhead
    <3>1. /\ s.trigger = "scheduled"
          /\ schedule[s.host].next <= s.minute \/ <<s.host, s.minute>> \in pairs
      BY <2>1, <2>2 DEF Ahead
    <3>2. schedule[s.host].next <= s.minute
      BY <1>1, <2>4, <3>1
    <3>3. Ahead(s)
      BY <3>1, <3>2 DEF Ahead
    <3> QED
      BY <3>3 DEF Calendar, NotBegunAhead
  <2> QED
    BY <2>5, <2>6, <2>7 DEF Calendar
<1>4. ASSUME NEW h \in Hosts, SkipOverlap(h)
      PROVE  Calendar'
  <2>1. /\ beat.at = "listing" /\ MoveSchedule(h)
        /\ beat' = [beat EXCEPT !.due = {d \in @ : d[1] # h}]
        /\ UNCHANGED <<job, asked, sent, work, swept, now>>
    BY <1>4 DEF SkipOverlap
  <2>2. /\ beat'.at = "listing" /\ beat'.time = beat.time /\ beat'.made = beat.made
        /\ beat'.due = {d \in beat.due : d[1] # h}
    BY <1>1, <2>1 DEF Beats
  <2> QED
    BY <2>1, <2>2, CalendarMoves
<1>5. CASE MoveOn
  <2>1. /\ beat.at = "moving" /\ MoveSchedule(beat.host)
        /\ beat' = [beat EXCEPT !.at = "listing", !.due = {d \in @ : d[1] # beat.host}]
        /\ UNCHANGED <<job, asked, sent, work, swept, now>>
    BY <1>5 DEF MoveOn
  <2>2. /\ beat'.at = "listing" /\ beat'.time = beat.time /\ beat'.made = beat.made
        /\ beat'.due = {d \in beat.due : d[1] # beat.host} /\ beat.host \in Hosts
    BY <1>1, <2>1 DEF Beats
  <2> QED
    BY <2>1, <2>2, CalendarMoves
<1>6. ASSUME NEW h \in Hosts, TakeDue(h)
      PROVE  Calendar'
  <2>1. /\ beat.at = "listing" /\ beat' = [beat EXCEPT !.at = "creating", !.host = h]
        /\ UNCHANGED <<schedule, job, asked, sent, work, swept, now>>
    BY <1>6 DEF TakeDue
  <2>2. /\ beat'.at = "creating" /\ beat'.time = beat.time /\ beat'.made = beat.made
        /\ beat'.due = beat.due
    BY <1>1, <2>1 DEF Beats
  <2>3. \A s \in Scans : (Begun(s)' <=> Begun(s)) /\ (Exists(s)' <=> Exists(s))
    BY <2>1 DEF Begun, Exists, Busy, At, Swept
  <2> QED
    BY <2>1, <2>2, <2>3, CalendarFrame
<1>7. CASE SendMade
  <2>1. /\ beat.at \in {"listing", "sending"} /\ beat.due = {}
        /\ UNCHANGED <<schedule, job, work, swept, asked, now>>
    BY <1>7 DEF SendMade
  <2>2. CASE beat.made = {}
    <3>1. beat' = Resting /\ sent' = sent
      BY <1>7, <2>2 DEF SendMade
    <3>2. \A s \in Scans : (Begun(s)' <=> Begun(s)) /\ (Exists(s)' <=> Exists(s))
      BY <2>1, <3>1 DEF Begun, Exists, Busy, At, Swept
    <3> QED
      BY <2>1, <3>1, <3>2, CalendarFrame
  <2>3. CASE beat.made # {}
    <3>1. PICK s \in beat.made :
            /\ sent' = sent \cup {s}
            /\ beat' = [beat EXCEPT !.at = "sending", !.made = @ \ {s}]
      BY <1>7, <2>3 DEF SendMade
    <3>2. /\ beat'.at = "sending" /\ beat'.time = beat.time /\ beat'.made = beat.made \ {s}
          /\ beat'.due = beat.due /\ s \in Scans
      BY <1>1, <3>1 DEF Beats
    <3>3. Exists(s) /\ ~Ahead(s)
      <4>1. Exists(s) /\ schedule[s.host].next > s.minute
        BY <2>1 DEF Calendar, MadeMoved
      <4>2. schedule[s.host].next \in Int
        BY <1>1, <3>2 DEF TypeOK, Schedules
      <4> QED
        BY <1>1, <2>1, <3>2, <4>1, <4>2 DEF Ahead
    <3>4. ASSUME NEW u \in Scans
          PROVE  /\ Begun(u)' => Begun(u) \/ (Exists(u) /\ ~Ahead(u))
                 /\ Exists(u)' <=> Exists(u)
      <4>1. CASE u = s
        BY <2>1, <3>3, <4>1 DEF Exists
      <4>2. CASE u # s
        BY <2>1, <3>1, <4>2 DEF Begun, Exists, Busy, At, Swept
      <4> QED
        BY <4>1, <4>2
    <3> QED
      BY <2>1, <3>2, <3>4, CalendarFrame
  <2> QED
    BY <2>2, <2>3
<1>8. ASSUME NEW d \in beat.due, CreateScheduled(d)
      PROVE  Calendar'
  <2>1. d[1] \in Hosts /\ d[2] \in 0 .. MaxTime /\ d = <<d[1], d[2]>>
    BY <1>1 DEF Beats
  <2>2. PICK s \in Scans : s = Scheduled(d[1], d[2])
    BY <2>1 DEF Scheduled, Scans
  <2>3. s.host = d[1] /\ s.minute = d[2] /\ s.trigger = "scheduled"
    BY <2>2 DEF Scheduled
  <2>4. /\ beat.at = "creating" /\ UNCHANGED <<sent, work, swept, asked, now>>
        /\ \/ /\ \/ job[s].status # "absent" /\ job' = job
                 \/ job[s].status = "absent" /\ job' = [job EXCEPT ![s] = NewRow("queued")]
              /\ beat' = [beat EXCEPT !.at = "moving", !.made = @ \cup {s}]
              /\ schedule' = schedule
           \/ MoveSchedule(d[1]) /\ beat' = Resting /\ job' = job
    BY <1>8, <2>2 DEF CreateScheduled
  <2>5. CASE MoveSchedule(d[1]) /\ beat' = Resting /\ job' = job
    BY <2>1, <2>4, <2>5, CalendarMoves
  <2>6. CASE /\ \/ job[s].status # "absent" /\ job' = job
                \/ job[s].status = "absent" /\ job' = [job EXCEPT ![s] = NewRow("queued")]
             /\ beat' = [beat EXCEPT !.at = "moving", !.made = @ \cup {s}]
             /\ schedule' = schedule
    <3>1. /\ beat'.at = "moving" /\ beat'.time = beat.time /\ beat'.due = beat.due
          /\ beat'.made = beat.made \cup {s}
      BY <1>1, <2>6 DEF Beats
    <3>2. /\ \A u \in Scans : u # s => job'[u] = job[u]
          /\ job'[s] = job[s] \/ job'[s].status = "queued"
          /\ job'[s].status # "absent"
      BY <2>6, NewScan DEF TypeOK
    <3>3. ASSUME NEW u \in Scans
          PROVE  Begun(u)' => Begun(u)
      <4>1. job'[u] = job[u] \/ job'[u].status = "queued"
        BY <3>2
      <4> QED
        BY <2>4, <4>1 DEF Begun, Busy, At, Swept
    <3>4. OnTime'
      <4>1. s.minute <= beat.time /\ beat.time <= now
        BY <2>3 DEF Calendar, OnTime
      <4>2. s.minute <= now
        BY <1>1, <4>1 DEF Beats
      <4>3. ASSUME NEW u \in Scans, u.trigger = "scheduled", Exists(u)'
            PROVE  u.minute <= now /\ u.minute <= beat.time
        <5>1. CASE u = s
          BY <4>1, <4>2, <5>1
        <5>2. CASE u # s
          <6>1. Exists(u)
            BY <3>2, <4>3, <5>2 DEF Exists
          <6> QED
            BY <2>4, <4>3, <6>1 DEF Calendar, OnTime
        <5> QED
          BY <5>1, <5>2
      <4> QED
        BY <2>4, <3>1, <4>1, <4>3 DEF Calendar, OnTime
    <3>5. MadeMoved'
      <4>1. <<s.host, s.minute>> \in beat.due /\ Exists(s)'
        BY <2>1, <2>3, <3>2 DEF Exists
      <4>2. ASSUME NEW u \in beat.made, u # s
            PROVE  /\ u.trigger = "scheduled" /\ Exists(u)'
                   /\ <<u.host, u.minute>> \in beat.due \/ schedule[u.host].next > u.minute
        <5>1. u \in Scans
          BY <1>1 DEF Beats
        <5> QED
          BY <3>2, <4>2, <5>1 DEF Calendar, MadeMoved, Exists
      <4> QED
        BY <2>3, <2>6, <3>1, <4>1, <4>2 DEF MadeMoved
    <3>6. Known'
      <4> SUFFICES ASSUME NEW u \in Scans, ~Exists(u)'
                   PROVE  ~Begun(u)' /\ u \notin asked \cup beat'.made
        BY <2>4 DEF Known
      <4>1. u # s /\ ~Exists(u)
        BY <3>2 DEF Exists
      <4> QED
        BY <3>1, <3>3, <4>1 DEF Calendar, Known
    <3>7. NotBegunAhead'
      <4> SUFFICES ASSUME NEW u \in Scans, Ahead(u)'
                   PROVE  ~Begun(u)'
        BY DEF NotBegunAhead
      <4>1. Ahead(u)
        BY <2>6, <3>1 DEF Ahead
      <4> QED
        BY <3>3, <4>1 DEF Calendar, NotBegunAhead
    <3> QED
      BY <3>4, <3>5, <3>6, <3>7 DEF Calendar
  <2> QED
    BY <2>4, <2>5, <2>6
<1> QED
  BY <1>3, <1>4, <1>5, <1>6, <1>7, <1>8 DEF Dispatch

LEMMA CalendarNext ==
  ASSUME TypeOK, OwnRow, Calendar, AskedIsManual, Next
  PROVE  Calendar'
<1> USE DEF hist
<1>1. /\ now \in Int /\ 0 <= now /\ schedule \in [Hosts -> Schedules]
      /\ \A s \in Scans : s.minute \in Int /\ s.host \in Hosts
  BY DEF TypeOK, Scans
<1>2. ASSUME NEW h \in Hosts, AskScan(h)
      PROVE  Calendar'
  <2>1. PICK s \in Scans : s = [host |-> h, trigger |-> "manual", minute |-> now]
    BY DEF Scans, TypeOK
  <2>2. s.trigger = "manual"
    BY <2>1
  <2>3. /\ UNCHANGED <<schedule, sent, work, beat, swept, now>>
        /\ \/ job[s].status # "absent" /\ job' = job
           \/ job[s].status = "absent" /\ job' = [job EXCEPT ![s] = NewRow("queued")]
        /\ asked' \subseteq asked \cup {s}
    BY <1>2, <2>1 DEF AskScan
  <2>4. /\ \A u \in Scans : u # s => job'[u] = job[u]
        /\ job'[s] = job[s] \/ job'[s].status = "queued"
        /\ job'[s].status # "absent"
    BY <2>3, NewScan DEF TypeOK
  <2>5. ASSUME NEW u \in Scans
        PROVE  Begun(u)' => Begun(u)
    <3>1. job'[u] = job[u] \/ job'[u].status = "queued"
      BY <2>4
    <3> QED
      BY <2>3, <3>1 DEF Begun, Busy, At, Swept
  <2>6. OnTime'
    <3>1. ASSUME NEW u \in Scans, u.trigger = "scheduled", Exists(u)'
          PROVE  Exists(u)
      BY <2>2, <2>4, <3>1 DEF Exists
    <3> QED
      BY <2>3, <3>1 DEF Calendar, OnTime
  <2>7. MadeMoved'
    <3>1. ASSUME NEW u \in beat.made
          PROVE  Exists(u)'
      <4>1. u \in Scans
        BY DEF TypeOK
      <4> QED
        BY <2>4, <4>1 DEF Calendar, MadeMoved, Exists
    <3> QED
      BY <2>3, <3>1 DEF Calendar, MadeMoved
  <2>8. Known'
    <3> SUFFICES ASSUME NEW u \in Scans, ~Exists(u)'
                 PROVE  ~Begun(u)' /\ u \notin asked' \cup beat.made
      BY <2>3 DEF Known
    <3>1. u # s /\ ~Exists(u)
      BY <2>4 DEF Exists
    <3> QED
      BY <2>3, <2>5, <3>1 DEF Calendar, Known
  <2>9. NotBegunAhead'
    <3> SUFFICES ASSUME NEW u \in Scans, Ahead(u)'
                 PROVE  ~Begun(u)'
      BY DEF NotBegunAhead
    <3>1. Ahead(u)
      BY <2>3 DEF Ahead
    <3> QED
      BY <2>5, <3>1 DEF Calendar, NotBegunAhead
  <2> QED
    BY <2>6, <2>7, <2>8, <2>9 DEF Calendar
<1>3. ASSUME NEW h \in Hosts, SaveSchedule(h)
      PROVE  Calendar'
  <2>1. UNCHANGED <<job, sent, work, beat, swept, asked, now>>
    BY <1>3 DEF SaveSchedule
  <2>2. \A g \in Hosts : schedule'[g].next = IF g = h THEN now + 1 ELSE schedule[g].next
    BY <1>1, <1>3 DEF SaveSchedule
  <2>3. \A s \in Scans : (Begun(s)' <=> Begun(s)) /\ (Exists(s)' <=> Exists(s))
    BY <2>1 DEF Begun, Exists, Busy, At, Swept
  <2>4. OnTime' /\ Known'
    BY <2>1, <2>3 DEF Calendar, OnTime, Known
  <2>5. ASSUME NEW s \in Scans, s.trigger = "scheduled", Exists(s)
        PROVE  s.minute <= now
    BY <2>5 DEF Calendar, OnTime
  <2>6. MadeMoved'
    <3> SUFFICES ASSUME NEW s \in beat.made
                 PROVE  /\ s.trigger = "scheduled" /\ Exists(s)'
                        /\ <<s.host, s.minute>> \in beat.due \/ schedule'[s.host].next > s.minute
      BY <2>1 DEF MadeMoved
    <3>1. s \in Scans
      BY DEF TypeOK
    <3>2. /\ s.trigger = "scheduled" /\ Exists(s)
          /\ <<s.host, s.minute>> \in beat.due \/ schedule[s.host].next > s.minute
      BY DEF Calendar, MadeMoved
    <3>3. s.minute <= now
      BY <2>5, <3>1, <3>2
    <3> QED
      BY <1>1, <2>2, <2>3, <3>1, <3>2, <3>3
  <2>7. NotBegunAhead'
    <3> SUFFICES ASSUME NEW s \in Scans, Ahead(s)'
                 PROVE  ~Begun(s)
      BY <2>3 DEF NotBegunAhead
    <3>1. /\ s.trigger = "scheduled"
          /\ schedule'[s.host].next <= s.minute \/ <<s.host, s.minute>> \in beat.due
      BY <2>1 DEF Ahead
    <3>2. CASE Ahead(s)
      BY <3>2 DEF Calendar, NotBegunAhead
    <3>3. CASE ~Ahead(s)
      <4>1. now + 1 <= s.minute
        BY <1>1, <2>2, <3>1, <3>3 DEF Ahead
      <4>2. ~Exists(s)
        BY <1>1, <2>5, <3>1, <4>1
      <4> QED
        BY <4>2 DEF Calendar, Known
    <3> QED
      BY <3>2, <3>3
  <2> QED
    BY <2>4, <2>6, <2>7 DEF Calendar
<1>4. ASSUME NEW s \in Scans, SendAsked(s)
      PROVE  Calendar'
  <2>1. /\ s \in asked /\ asked' = asked \ {s} /\ sent' = sent \cup {s}
        /\ UNCHANGED <<schedule, job, work, beat, swept, now>>
    BY <1>4 DEF SendAsked
  <2>2. Exists(s) /\ ~Ahead(s)
    BY <2>1 DEF Calendar, Known, AskedIsManual, Ahead
  <2>3. ASSUME NEW u \in Scans
        PROVE  /\ Begun(u)' => Begun(u) \/ (Exists(u) /\ ~Ahead(u))
               /\ Exists(u)' <=> Exists(u)
    <3>1. CASE u = s
      BY <2>1, <2>2, <3>1 DEF Exists
    <3>2. CASE u # s
      BY <2>1, <3>2 DEF Begun, Exists, Busy, At, Swept
    <3> QED
      BY <3>1, <3>2
  <2> QED
    BY <2>1, <2>3, CalendarFrame
<1>5. ASSUME NEW s \in Scans, RecordSweep(s) \/ SendRecovered(s)
      PROVE  Calendar'
  <2>1. swept \in [recovered : SUBSET Scans, exhausted : SUBSET Scans, ready : SUBSET Scans]
    BY DEF TypeOK
  <2>2. UNCHANGED <<schedule, job, work, beat, asked, now>>
    BY <1>5 DEF RecordSweep, SendRecovered
  <2>3. sent' \cup Swept' \subseteq sent \cup Swept
    <3>1. CASE RecordSweep(s)
      <4>1. s \in Swept /\ sent' = sent
        BY <3>1 DEF RecordSweep, Swept
      <4>2. Swept' \subseteq Swept \cup {s}
        BY <2>1, <3>1 DEF RecordSweep, Swept
      <4> QED
        BY <4>1, <4>2
    <3>2. CASE SendRecovered(s)
      BY <2>1, <3>2 DEF SendRecovered, Swept
    <3> QED
      BY <1>5, <3>1, <3>2
  <2>4. \A u \in Scans : (Begun(u)' => Begun(u)) /\ (Exists(u)' <=> Exists(u))
    BY <2>2, <2>3 DEF Begun, Exists, Busy, At
  <2> QED
    BY <2>2, <2>4, CalendarFrame
<1>6. CASE SenderDies
  <2>1. /\ UNCHANGED <<schedule, job, sent, work, now>> /\ asked' \subseteq asked
        /\ beat' = beat \/ beat' = Resting
    BY <1>6 DEF SenderDies
  <2>2. Swept' \subseteq Swept
    BY <1>6 DEF SenderDies, Swept
  <2>3. \A u \in Scans : (Begun(u)' => Begun(u)) /\ (Exists(u)' <=> Exists(u))
    BY <2>1, <2>2 DEF Begun, Exists, Busy, At
  <2> QED
    BY <2>1, <2>3, CalendarFrame
<1>7. CASE Tick
  <2>1. /\ now' = now + 1 /\ UNCHANGED <<schedule, job, sent, work, beat, swept, asked>>
    BY <1>7 DEF Tick
  <2>2. \A u \in Scans : (Begun(u)' => Begun(u)) /\ (Exists(u)' <=> Exists(u))
    BY <2>1 DEF Begun, Exists, Busy, At, Swept
  <2> QED
    BY <2>1, <2>2, CalendarFrame
<1> QED
  BY <1>2, <1>3, <1>4, <1>5, <1>6, <1>7, CalendarDispatch, CalendarWorkers, StepKinds
     DEF Outside

(* Steps that change nothing a scan's delivery and its record depend on,   *)
(* for the scans no loss and no operator has touched.                      *)
LEMMA TokenFrame ==
  ASSUME TypeOK, Token, asked' \subseteq asked, UNCHANGED work, Swept' \subseteq lossy',
         lossy \cup repeated \subseteq lossy' \cup repeated',
         \A s \in Scans \ (lossy' \cup repeated') :
           /\ s \in sent' => s \in sent
           /\ s \in beat'.made => s \in beat.made
  PROVE  Token'
<1>1. AskedIsManual' /\ SweptIsLossy'
  BY DEF Token, AskedIsManual, SweptIsLossy
<1>2. TokenOnce'
  <2> SUFFICES ASSUME NEW s \in Scans \ (lossy' \cup repeated')
               PROVE  /\ s \in sent' => s \notin asked' \cup beat'.made
                      /\ Busy(s) => s \notin sent' \cup asked' \cup beat'.made
                      /\ \A v, w \in Workers :
                           ~At(v, "idle") /\ ~At(w, "idle") /\ work[v].of = s /\ work[w].of = s
                           => v = w
    BY DEF TokenOnce, Busy, At
  <2>1. s \in Scans \ (lossy \cup repeated)
    OBVIOUS
  <2> QED
    BY <2>1 DEF Token, TokenOnce
<1> QED
  BY <1>1, <1>2 DEF Token

(* A worker's step at its scan, as a delivery sees it.                     *)
LEMMA TaskToken ==
  ASSUME TypeOK, Lease, Token, NEW w \in Workers, TaskStep(w)
  PROVE  Token'
<1> DEFINE s == work[w].of
<1>1. /\ s \in Scans /\ ~At(w, "idle") /\ OnlyAt(w, s)
      /\ \/ LetsGo(w, s) \/ SavesPhase(w, s) \/ MovesOn(w, s)
         \/ Completes(w, s) \/ Announces(w, s) \/ Fails(w, s) \/ RecordsFailure(w, s)
  BY TaskShapes DEF Lease
<1>2. /\ UNCHANGED <<schedule, beat, swept, asked, now, left, lossy, repeated>>
      /\ \A v \in Workers : v # w => work'[v] = work[v]
      /\ sent' \subseteq sent \cup {s}
  BY <1>1 DEF OnlyAt, OutsideWork
<1>3. Idle.at = "idle"
  BY RestingTypes
<1>4. s \notin lossy => \/ work'[w].of = s /\ sent' = sent
                        \/ work'[w].at = "idle"
  <2>1. LetsGo(w, s) => s \in lossy
    BY HoldsAlone DEF LetsGo
  <2> QED
    BY <1>1, <1>3, <2>1 DEF SavesPhase, MovesOn, Completes, Announces, Fails, RecordsFailure
<1>5. work'[w].of = s \/ work'[w].at = "idle"
  BY <1>1, <1>3 DEF LetsGo, SavesPhase, MovesOn, Completes, Announces, Fails, RecordsFailure
<1> HIDE DEF s
<1>6. work[w].of = s
  BY DEF s
<1>7. AskedIsManual' /\ SweptIsLossy'
  BY <1>2 DEF Token, AskedIsManual, SweptIsLossy, Swept
<1>8. ASSUME NEW u \in Scans \ (lossy \cup repeated)
      PROVE  /\ u \in sent' => u \notin asked \cup beat.made
             /\ \A v \in Workers :
                  work'[v].at # "idle" /\ work'[v].of = u =>
                    /\ u \notin sent' \cup asked \cup beat.made
                    /\ \A x \in Workers : work'[x].at # "idle" /\ work'[x].of = u => x = v
  <2>1. /\ u \in sent => u \notin asked \cup beat.made
        /\ \A v \in Workers :
             work[v].at # "idle" /\ work[v].of = u =>
               /\ u \notin sent \cup asked \cup beat.made
               /\ \A x \in Workers : work[x].at # "idle" /\ work[x].of = u => x = v
    BY DEF Token, TokenOnce, Busy, At
  <2>2. CASE u # s
    BY <1>2, <1>5, <2>1, <2>2
  <2>3. CASE u = s
    <3>1. work[w].at # "idle" /\ work[w].of = u
      BY <1>1, <1>6, <2>3 DEF At
    <3>2. /\ u \notin sent \cup asked \cup beat.made
          /\ \A x \in Workers : work[x].at # "idle" /\ work[x].of = u => x = w
      BY <2>1, <3>1
    <3>3. \A x \in Workers : work'[x].at # "idle" /\ work'[x].of = u => x = w
      BY <1>2, <3>2
    <3> QED
      BY <1>2, <1>4, <2>3, <3>2, <3>3
  <2> QED
    BY <2>2, <2>3
<1>9. TokenOnce'
  <2> SUFFICES ASSUME NEW u \in Scans \ (lossy \cup repeated)
               PROVE  /\ u \in sent' => u \notin asked \cup beat.made
                      /\ Busy(u)' => u \notin sent' \cup asked \cup beat.made
                      /\ \A v, x \in Workers :
                           At(v, "idle")' \/ At(x, "idle")' \/ work'[v].of # u \/ work'[x].of # u
                           \/ v = x
    BY <1>2 DEF TokenOnce
  <2> QED
    BY <1>8 DEF Busy, At
<1> QED
  BY <1>7, <1>9 DEF Token

LEMMA TokenNext ==
  ASSUME TypeOK, Lease, Calendar, Token, Next
  PROVE  Token'
<1> USE DEF hist, OutsideBeat
<1>1. /\ beat \in Beats
      /\ swept \in [recovered : SUBSET Scans, exhausted : SUBSET Scans, ready : SUBSET Scans]
  BY DEF TypeOK, Beats
<1>2. Resting.made = {} /\ Idle.at = "idle"
  BY RestingTypes
<1>3. CASE ListDue \/ MoveOn \/ \E h \in Hosts : SkipOverlap(h) \/ TakeDue(h)
  <2>1. UNCHANGED <<sent, work, swept, asked, lossy, repeated>>
    BY <1>3 DEF ListDue, MoveOn, SkipOverlap, TakeDue
  <2>2. beat'.made \subseteq beat.made
    BY <1>1, <1>2, <1>3, RestingTypes DEF ListDue, MoveOn, SkipOverlap, TakeDue, Beats
  <2>3. Swept' \subseteq lossy'
    BY <2>1 DEF Token, SweptIsLossy, Swept
  <2> QED
    BY <2>1, <2>2, <2>3, TokenFrame
<1>4. ASSUME NEW d \in beat.due, CreateScheduled(d)
      PROVE  Token'
  <2>1. d[1] \in Hosts /\ d[2] \in 0 .. MaxTime /\ d = <<d[1], d[2]>>
    BY <1>1 DEF Beats
  <2>2. PICK s \in Scans : s = Scheduled(d[1], d[2])
    BY <2>1 DEF Scheduled, Scans
  <2>3. UNCHANGED <<sent, work, swept, asked, lossy, repeated>>
        /\ (beat' = Resting \/ beat' = [beat EXCEPT !.at = "moving", !.made = @ \cup {s}])
    BY <1>4, <2>2 DEF CreateScheduled
  <2>4. beat'.made \subseteq beat.made \cup {s}
    BY <1>1, <1>2, <2>3 DEF Beats
  <2>5. s.trigger = "scheduled" /\ ~Begun(s) /\ s \notin asked
    <3>1. Ahead(s)
      BY <2>1, <2>2 DEF Ahead, Scheduled
    <3> QED
      BY <2>2, <3>1 DEF Calendar, NotBegunAhead, Token, AskedIsManual, Scheduled
  <2>6. AskedIsManual' /\ SweptIsLossy'
    BY <2>3 DEF Token, AskedIsManual, SweptIsLossy, Swept
  <2>7. TokenOnce'
    <3> SUFFICES ASSUME NEW u \in Scans \ (lossy \cup repeated)
                 PROVE  /\ u \in sent => u \notin asked \cup beat'.made
                        /\ Busy(u) => u \notin sent \cup asked \cup beat'.made
                        /\ \A v, x \in Workers :
                             ~At(v, "idle") /\ ~At(x, "idle") /\ work[v].of = u /\ work[x].of = u
                             => v = x
      BY <2>3 DEF TokenOnce, Busy, At
    <3>1. /\ u \in sent => u \notin asked \cup beat.made
          /\ Busy(u) => u \notin sent \cup asked \cup beat.made
          /\ \A v, x \in Workers :
               ~At(v, "idle") /\ ~At(x, "idle") /\ work[v].of = u /\ work[x].of = u => v = x
      BY DEF Token, TokenOnce
    <3>2. CASE u = s
      BY <2>5, <3>1, <3>2 DEF Begun
    <3>3. CASE u # s
      BY <2>4, <3>1, <3>3
    <3> QED
      BY <3>2, <3>3
  <2> QED
    BY <2>6, <2>7 DEF Token
<1>5. CASE SendMade
  <2>1. UNCHANGED <<work, swept, asked, lossy, repeated>>
    BY <1>5 DEF SendMade
  <2>2. Swept' \subseteq lossy'
    BY <2>1 DEF Token, SweptIsLossy, Swept
  <2>3. CASE beat.made = {}
    <3>1. beat' = Resting /\ sent' = sent
      BY <1>5, <2>3 DEF SendMade
    <3> QED
      BY <1>2, <2>1, <2>2, <3>1, TokenFrame
  <2>4. CASE beat.made # {}
    <3>1. PICK s \in beat.made :
            /\ sent' = sent \cup {s}
            /\ beat' = [beat EXCEPT !.at = "sending", !.made = @ \ {s}]
      BY <1>5, <2>4 DEF SendMade
    <3>2. beat'.made = beat.made \ {s} /\ s \in Scans /\ s.trigger = "scheduled"
      BY <1>1, <3>1 DEF Beats, Calendar, MadeMoved
    <3>3. s \notin asked
      BY <3>2 DEF Token, AskedIsManual
    <3>4. AskedIsManual' /\ SweptIsLossy'
      BY <2>1, <2>2 DEF Token, AskedIsManual, SweptIsLossy
    <3>5. TokenOnce'
      <4> SUFFICES ASSUME NEW u \in Scans \ (lossy \cup repeated)
                   PROVE  /\ u \in sent' => u \notin asked \cup beat'.made
                          /\ Busy(u) => u \notin sent' \cup asked \cup beat'.made
                          /\ \A v, x \in Workers :
                               ~At(v, "idle") /\ ~At(x, "idle") /\ work[v].of = u /\ work[x].of = u
                               => v = x
        BY <2>1 DEF TokenOnce, Busy, At
      <4>1. /\ u \in sent => u \notin asked \cup beat.made
            /\ Busy(u) => u \notin sent \cup asked \cup beat.made
            /\ \A v, x \in Workers :
                 ~At(v, "idle") /\ ~At(x, "idle") /\ work[v].of = u /\ work[x].of = u => v = x
        BY DEF Token, TokenOnce
      <4> QED
        BY <3>1, <3>2, <3>3, <4>1
    <3> QED
      BY <3>4, <3>5 DEF Token
  <2> QED
    BY <2>3, <2>4
<1>6. ASSUME NEW h \in Hosts, AskScan(h)
      PROVE  Token'
  <2>1. PICK s \in Scans : s = [host |-> h, trigger |-> "manual", minute |-> now]
    BY DEF Scans, TypeOK
  <2>2. /\ UNCHANGED <<sent, work, beat, swept, lossy>> /\ asked' \subseteq asked \cup {s}
        /\ repeated \subseteq repeated'
        /\ job[s].status = "queued" => s \in repeated'
        /\ job[s].status \notin {"absent", "queued"} => asked' = asked
    BY <1>6, <2>1 DEF AskScan
  <2>3. s.trigger = "manual" /\ s \notin beat.made
    BY <2>1 DEF Calendar, MadeMoved
  <2>4. AskedIsManual' /\ SweptIsLossy'
    BY <2>2, <2>3 DEF Token, AskedIsManual, SweptIsLossy, Swept
  <2>5. TokenOnce'
    <3> SUFFICES ASSUME NEW u \in Scans \ (lossy \cup repeated')
                 PROVE  /\ u \in sent => u \notin asked' \cup beat.made
                        /\ Busy(u) => u \notin sent \cup asked' \cup beat.made
                        /\ \A v, x \in Workers :
                             ~At(v, "idle") /\ ~At(x, "idle") /\ work[v].of = u /\ work[x].of = u
                             => v = x
      BY <2>2 DEF TokenOnce, Busy, At
    <3>1. u \in Scans \ (lossy \cup repeated)
      BY <2>2
    <3>2. /\ u \in sent => u \notin asked \cup beat.made
          /\ Busy(u) => u \notin sent \cup asked \cup beat.made
          /\ \A v, x \in Workers :
               ~At(v, "idle") /\ ~At(x, "idle") /\ work[v].of = u /\ work[x].of = u => v = x
      BY <3>1 DEF Token, TokenOnce
    <3>3. u = s => asked' = asked \/ (u \notin sent /\ ~Busy(u))
      BY <2>2 DEF Calendar, Known, Exists, Begun
    <3> QED
      BY <2>2, <3>2, <3>3
  <2> QED
    BY <2>4, <2>5 DEF Token
<1>7. ASSUME NEW h \in Hosts, SaveSchedule(h)
      PROVE  Token'
  <2>1. UNCHANGED <<sent, work, beat, swept, asked, lossy, repeated>>
    BY <1>7 DEF SaveSchedule
  <2>2. Swept' \subseteq lossy'
    BY <2>1 DEF Token, SweptIsLossy, Swept
  <2> QED
    BY <2>1, <2>2, TokenFrame
<1>8. ASSUME NEW s \in Scans, SendAsked(s)
      PROVE  Token'
  <2>1. /\ s \in asked /\ asked' = asked \ {s} /\ sent' = sent \cup {s}
        /\ UNCHANGED <<work, beat, swept, lossy, repeated>>
    BY <1>8 DEF SendAsked
  <2>2. s \notin beat.made
    BY <2>1 DEF Calendar, MadeMoved, Token, AskedIsManual
  <2>3. AskedIsManual' /\ SweptIsLossy'
    BY <2>1 DEF Token, AskedIsManual, SweptIsLossy, Swept
  <2>4. TokenOnce'
    <3> SUFFICES ASSUME NEW u \in Scans \ (lossy \cup repeated)
                 PROVE  /\ u \in sent' => u \notin asked' \cup beat.made
                        /\ Busy(u) => u \notin sent' \cup asked' \cup beat.made
                        /\ \A v, x \in Workers :
                             ~At(v, "idle") /\ ~At(x, "idle") /\ work[v].of = u /\ work[x].of = u
                             => v = x
      BY <2>1 DEF TokenOnce, Busy, At
    <3>1. /\ u \in sent => u \notin asked \cup beat.made
          /\ Busy(u) => u \notin sent \cup asked \cup beat.made
          /\ \A v, x \in Workers :
               ~At(v, "idle") /\ ~At(x, "idle") /\ work[v].of = u /\ work[x].of = u => v = x
      BY DEF Token, TokenOnce
    <3> QED
      BY <2>1, <2>2, <3>1
  <2> QED
    BY <2>3, <2>4 DEF Token
<1>9. ASSUME NEW s \in Scans, RecordSweep(s) \/ SendRecovered(s)
      PROVE  Token'
  <2>1. UNCHANGED <<work, beat, asked, lossy, repeated>>
    BY <1>9 DEF RecordSweep, SendRecovered
  <2>2. s \in lossy /\ Swept' \subseteq lossy' /\ sent' \subseteq sent \cup {s}
    <3>1. CASE RecordSweep(s)
      <4>1. s \in Swept /\ sent' = sent
        BY <3>1 DEF RecordSweep, Swept
      <4>2. Swept' \subseteq Swept \cup {s}
        BY <1>1, <3>1 DEF RecordSweep, Swept
      <4> QED
        BY <2>1, <4>1, <4>2 DEF Token, SweptIsLossy
    <3>2. CASE SendRecovered(s)
      <4>1. s \in Swept /\ sent' = sent \cup {s}
        BY <3>2 DEF SendRecovered, Swept
      <4>2. Swept' \subseteq Swept
        BY <1>1, <3>2 DEF SendRecovered, Swept
      <4> QED
        BY <2>1, <4>1, <4>2 DEF Token, SweptIsLossy
    <3> QED
      BY <1>9, <3>1, <3>2
  <2> QED
    BY <2>1, <2>2, TokenFrame
<1>10. CASE SenderDies
  <2>1. /\ UNCHANGED <<sent, work, lossy, repeated>> /\ asked' \subseteq asked
        /\ beat' = beat \/ beat' = Resting
    BY <1>10 DEF SenderDies
  <2>2. Swept' \subseteq lossy'
    <3>1. Swept' \subseteq Swept
      BY <1>10 DEF SenderDies, Swept
    <3> QED
      BY <2>1, <3>1 DEF Token, SweptIsLossy
  <2> QED
    BY <1>2, <2>1, <2>2, TokenFrame
<1>11. CASE Tick
  <2>1. UNCHANGED <<sent, work, beat, swept, asked, lossy, repeated>>
    BY <1>11 DEF Tick
  <2>2. Swept' \subseteq lossy'
    BY <2>1 DEF Token, SweptIsLossy, Swept
  <2> QED
    BY <2>1, <2>2, TokenFrame
<1>12. ASSUME NEW w \in Workers, TaskStep(w)
       PROVE  Token'
  BY <1>12, TaskToken
<1>13. ASSUME NEW w \in Workers, NEW s \in Scans, ClaimScan(w, s)
       PROVE  Token'
  <2>1. /\ s \in sent /\ sent' = sent \ {s}
        /\ UNCHANGED <<beat, swept, asked, lossy, repeated>>
        /\ \A v \in Workers : v # w => work'[v] = work[v]
        /\ work'[w] = work[w] \/ work'[w].of = s
        /\ At(w, "idle")
    BY <1>13, ClaimShape DEF OutsideWork
  <2>2. AskedIsManual' /\ SweptIsLossy'
    BY <2>1 DEF Token, AskedIsManual, SweptIsLossy, Swept
  <2>3. ASSUME NEW u \in Scans \ (lossy \cup repeated)
        PROVE  /\ u \in sent' => u \notin asked \cup beat.made
               /\ \A v \in Workers :
                    work'[v].at # "idle" /\ work'[v].of = u =>
                      /\ u \notin sent' \cup asked \cup beat.made
                      /\ \A x \in Workers : work'[x].at # "idle" /\ work'[x].of = u => x = v
    <3>1. /\ u \in sent => u \notin asked \cup beat.made
          /\ \A v \in Workers :
               work[v].at # "idle" /\ work[v].of = u =>
                 /\ u \notin sent \cup asked \cup beat.made
                 /\ \A x \in Workers : work[x].at # "idle" /\ work[x].of = u => x = v
      BY DEF Token, TokenOnce, Busy, At
    <3>2. CASE u # s
      BY <2>1, <3>1, <3>2
    <3>3. CASE u = s
      BY <2>1, <3>1, <3>3 DEF At
    <3> QED
      BY <3>2, <3>3
  <2>4. TokenOnce'
    <3> SUFFICES ASSUME NEW u \in Scans \ (lossy \cup repeated)
                 PROVE  /\ u \in sent' => u \notin asked \cup beat.made
                        /\ Busy(u)' => u \notin sent' \cup asked \cup beat.made
                        /\ \A v, x \in Workers :
                             At(v, "idle")' \/ At(x, "idle")' \/ work'[v].of # u
                             \/ work'[x].of # u \/ v = x
      BY <2>1 DEF TokenOnce
    <3> QED
      BY <2>3 DEF Busy, At
  <2> QED
    BY <2>2, <2>4 DEF Token
<1>14. CASE Sweep
  <2>1. /\ swept'.recovered = {s \in Scans : Lapsed(job[s], 0) /\ HasAttemptLeft(job[s])}
        /\ swept'.exhausted = {s \in Scans : Lapsed(job[s], 0) /\ ~HasAttemptLeft(job[s])}
        /\ swept'.ready = {}
        /\ UNCHANGED <<sent, work, beat, asked, lossy, repeated>>
    BY <1>14, SweepShape
  <2>2. ASSUME NEW s \in Scans, Lapsed(job[s], 0)
        PROVE  s \in lossy
    <3>1. job[s].expires \in Int
      BY NoLeaseIsInt DEF TypeOK, Row
    <3> QED
      BY <2>2, <3>1 DEF Lapsed, LeaseIsExpired, Lease, LeaseIsHeld
  <2>3. Swept' \subseteq lossy'
    BY <2>1, <2>2 DEF Swept
  <2> QED
    BY <2>1, <2>3, TokenFrame
<1>15. ASSUME NEW s \in Scans, Lapse(s)
       PROVE  Token'
  <2>1. UNCHANGED <<sent, work, beat, swept, asked, repeated>> /\ lossy' = lossy \cup {s}
    BY <1>15 DEF Lapse
  <2>2. Swept' \subseteq lossy'
    BY <2>1 DEF Token, SweptIsLossy, Swept
  <2> QED
    BY <2>1, <2>2, TokenFrame
<1>16. ASSUME NEW w \in Workers, Crash(w)
       PROVE  Token'
  <2> DEFINE s == work[w].of
  <2>1. /\ s \in Scans /\ work'[w].at = "idle"
        /\ \A v \in Workers : v # w => work'[v] = work[v]
        /\ sent' = sent \cup {s} /\ lossy' = lossy \cup {s}
        /\ UNCHANGED <<beat, swept, asked, repeated>>
    BY <1>2, <1>16, CrashShape
  <2> HIDE DEF s
  <2>2. AskedIsManual' /\ SweptIsLossy'
    BY <2>1 DEF Token, AskedIsManual, SweptIsLossy, Swept
  <2>3. TokenOnce'
    <3> SUFFICES ASSUME NEW u \in Scans \ (lossy' \cup repeated)
                 PROVE  /\ u \in sent' => u \notin asked \cup beat.made
                        /\ Busy(u)' => u \notin sent' \cup asked \cup beat.made
                        /\ \A v, x \in Workers :
                             At(v, "idle")' \/ At(x, "idle")' \/ work'[v].of # u
                             \/ work'[x].of # u \/ v = x
      BY <2>1 DEF TokenOnce
    <3>1. u \in Scans \ (lossy \cup repeated) /\ u # s
      BY <2>1
    <3>2. /\ u \in sent => u \notin asked \cup beat.made
          /\ \A v \in Workers :
               work[v].at # "idle" /\ work[v].of = u =>
                 /\ u \notin sent \cup asked \cup beat.made
                 /\ \A x \in Workers : work[x].at # "idle" /\ work[x].of = u => x = v
      BY <3>1 DEF Token, TokenOnce, Busy, At
    <3> QED
      BY <2>1, <3>1, <3>2 DEF Busy, At
  <2> QED
    BY <2>2, <2>3 DEF Token
<1> QED
  BY <1>3, <1>4, <1>5, <1>6, <1>7, <1>8, <1>9, <1>10, <1>11, <1>12, <1>13, <1>14, <1>15,
     <1>16, StepKinds DEF Outside, Dispatch

(* A step that changes no worker, and no untouched scan's job or record.   *)
LEMMA RecordFrame ==
  ASSUME TypeOK, RecordOK, UNCHANGED <<work, proposals>>,
         lossy \cup repeated \subseteq lossy' \cup repeated',
         \A s \in Scans \ (lossy' \cup repeated') :
           \/ job'[s] = job[s] /\ scan'[s] = scan[s]
           \/ job[s].status = "absent" /\ job'[s].status = "queued" /\ scan'[s] = "queued"
              /\ ~Busy(s)
  PROVE  RecordOK'
<1> SUFFICES ASSUME NEW s \in Scans \ (lossy' \cup repeated')
             PROVE  /\ ~Busy(s) /\ job'[s].status # "absent" => Agrees(s)'
                    /\ \A w \in Workers : work[w].of = s => Says(w, s)'
  BY DEF RecordOK, Busy, At, Exists
<1>1. s \in Scans \ (lossy \cup repeated)
  OBVIOUS
<1>2. /\ ~Busy(s) /\ job[s].status # "absent" => Agrees(s)
      /\ \A w \in Workers : work[w].of = s => Says(w, s)
  BY <1>1 DEF RecordOK, Exists
<1>3. CASE job'[s] = job[s] /\ scan'[s] = scan[s]
  BY <1>2, <1>3 DEF Agrees, Says
<1>4. CASE /\ job[s].status = "absent" /\ job'[s].status = "queued" /\ scan'[s] = "queued"
           /\ ~Busy(s)
  <2>1. \A w \in Workers : work[w].of = s => work[w].at = "idle"
    BY <1>4 DEF Busy, At
  <2> QED
    BY <1>4, <2>1 DEF Agrees, Says
<1> QED
  BY <1>3, <1>4

LEMMA TaskRecord ==
  ASSUME TypeOK, Lease, Token, RecordOK, NEW w \in Workers, TaskStep(w)
  PROVE  RecordOK'
<1> DEFINE s == work[w].of
<1>1. /\ s \in Scans /\ ~At(w, "idle") /\ OnlyAt(w, s)
      /\ \/ LetsGo(w, s) \/ SavesPhase(w, s) \/ MovesOn(w, s)
         \/ Completes(w, s) \/ Announces(w, s) \/ Fails(w, s) \/ RecordsFailure(w, s)
  BY TaskShapes DEF Lease
<1>2. /\ UNCHANGED <<lossy, repeated>>
      /\ \A v \in Workers : v # w => work'[v] = work[v]
      /\ \A u \in Scans : u # s => /\ job'[u] = job[u] /\ scan'[u] = scan[u]
                                  /\ proposals'[u] = proposals[u]
  BY <1>1 DEF OnlyAt, OutsideWork
<1>3. Idle.at = "idle"
  BY RestingTypes
<1>4. ASSUME Active(w), s \notin lossy
      PROVE  Owns(w)
  BY <1>4, HoldsAlone
<1>5. work'[w].of = s \/ work'[w].at = "idle"
  BY <1>1, <1>3 DEF LetsGo, SavesPhase, MovesOn, Completes, Announces, Fails, RecordsFailure
<1>8. Done(w) => job[s].status = "completed" /\ ~Owns(w)
  BY DEF Lease, DoneStays, Owns, HoldsLease
<1> HIDE DEF s
<1>6. work[w].of = s
  BY DEF s
<1>7. ASSUME NEW u \in Scans \ (lossy \cup repeated)
      PROVE  /\ \A v \in Workers : work'[v].of = u => Says(v, u)'
             /\ \/ \E v \in Workers : work'[v].at # "idle" /\ work'[v].of = u
                \/ job'[u].status = "absent" \/ Agrees(u)'
  <2>1. /\ \A v \in Workers : work[v].of = u => Says(v, u)
        /\ \/ \E v \in Workers : work[v].at # "idle" /\ work[v].of = u
           \/ job[u].status = "absent" \/ Agrees(u)
    BY DEF RecordOK, Exists, Busy, At
  <2>2. CASE u # s
    BY <1>2, <1>5, <1>6, <2>1, <2>2 DEF Says, Agrees
  <2>3. CASE u = s
    <3>1. \A v \in Workers : v # w => work[v].at = "idle" \/ work[v].of # u
      BY <1>1, <1>6, <2>3 DEF Token, TokenOnce, At
    <3>2. \A v \in Workers : v # w => work'[v].at = "idle" \/ work'[v].of # u
      BY <1>2, <3>1
    <3>3. CASE LetsGo(w, s)
      BY <1>4, <2>3, <3>3 DEF LetsGo
    <3>4. CASE SavesPhase(w, s)
      <4>1. work'[w].at \in {"starting", "analysing"} /\ work'[w].of = u
        BY <2>3, <3>4 DEF SavesPhase
      <4> QED
        BY <3>2, <4>1 DEF Says
    <3>5. CASE MovesOn(w, s)
      <4>1. /\ work'[w].of = u /\ work'[w].at \notin {"idle", "failed"}
            /\ work'[w].at = "completing" => scan'[u] = "completed"
            /\ work'[w].at # "attaching" /\ work'[w].row.status = "running"
        BY <2>3, <3>5 DEF MovesOn, At, Active
      <4> QED
        BY <3>2, <4>1 DEF Says
    <3>6. CASE Completes(w, s)
      <4>1. scan[u] = "completed"
        BY <1>6, <2>1, <2>3, <3>6 DEF Completes, At, Says
      <4>2. work'[w].at = "attaching" /\ work'[w].of = u /\ scan'[u] = "completed"
        BY <2>3, <3>6, <4>1 DEF Completes, At
      <4> QED
        BY <3>2, <4>2 DEF Says
    <3>9. CASE Announces(w, s)
      <4>1. scan[u] = "completed" /\ job[u].status = "completed"
        BY <1>6, <1>8, <2>1, <2>3, <3>9 DEF Announces, At, Says
      <4>2. job' = job /\ scan' = scan
        BY <3>9 DEF Announces
      <4>3. \/ work'[w].at = "idle"
            \/ work'[w].at = "raised" /\ work'[w].of = u /\ proposals'[u].soured
        BY <1>3, <2>3, <3>9 DEF Announces, At
      <4> QED
        BY <3>2, <4>1, <4>2, <4>3 DEF Says, Agrees
    <3>7. CASE Fails(w, s)
      <4>1. /\ work'[w].at = "failed" /\ work'[w].of = u /\ work'[w].row = job'[u]
            /\ proposals' = proposals
        BY <2>3, <3>7 DEF Fails, At
      <4>2. CASE Active(w)
        <5>1. job'[u].status \in {"queued", "failed"}
          BY <1>4, <2>3, <3>7, <4>2 DEF Fails
        <5> QED
          BY <3>2, <4>1, <5>1 DEF Says
      <4>3. CASE Done(w)
        <5>1. job'[u].status = "completed"
          BY <1>8, <2>3, <3>7, <4>3 DEF Fails
        <5>2. proposals'[u].soured
          BY <1>6, <2>1, <2>3, <3>7, <4>1, <4>3 DEF Fails, Done, At, Says
        <5> QED
          BY <3>2, <4>1, <5>1, <5>2 DEF Says
      <4> QED
        BY <3>7, <4>2, <4>3 DEF Fails
    <3>8. CASE RecordsFailure(w, s)
      <4>1. /\ work[w].row.status = job[u].status
            /\ \/ work[w].row.status \in {"queued", "failed"}
               \/ work[w].row.status = "completed" /\ proposals[u].soured
        BY <1>6, <2>1, <2>3, <3>8 DEF RecordsFailure, At, Says
      <4>2. /\ work'[w].at = "idle" /\ job'[u] = job[u] /\ proposals' = proposals
            /\ scan'[u] = IF work[w].row.status = "queued" THEN "queued" ELSE "failed"
        BY <1>3, <2>3, <3>8 DEF RecordsFailure
      <4> QED
        BY <3>2, <4>1, <4>2 DEF Says, Agrees
    <3> QED
      BY <1>1, <3>3, <3>4, <3>5, <3>6, <3>7, <3>8, <3>9
  <2> QED
    BY <2>2, <2>3
<1> QED
  BY <1>2, <1>7 DEF RecordOK, Exists, Busy, At

LEMMA RecordNext ==
  ASSUME TypeOK, Lease, Calendar, Token, RecordOK, Next
  PROVE  RecordOK'
<1> USE DEF hist, OutsideBeat
<1>1. CASE \/ ListDue \/ MoveOn \/ SendMade \/ SenderDies \/ Tick
           \/ \E h \in Hosts : SkipOverlap(h) \/ TakeDue(h) \/ SaveSchedule(h)
           \/ \E s \in Scans : SendAsked(s) \/ SendRecovered(s)
  <2>1. UNCHANGED <<job, scan, proposals, work, lossy, repeated>>
    BY <1>1 DEF ListDue, MoveOn, SendMade, SenderDies, Tick, SkipOverlap, TakeDue, SaveSchedule,
                SendAsked, SendRecovered
  <2> QED
    BY <2>1, RecordFrame
<1>2. ASSUME NEW d \in beat.due, CreateScheduled(d)
      PROVE  RecordOK'
  <2>1. PICK s \in Scans : s = Scheduled(d[1], d[2])
    BY DEF TypeOK, Scheduled, Scans
  <2>2. /\ UNCHANGED <<work, proposals, lossy, repeated>>
        /\ \/ UNCHANGED <<job, scan>>
           \/ /\ job[s].status = "absent" /\ job' = [job EXCEPT ![s] = NewRow("queued")]
              /\ scan' = [scan EXCEPT ![s] = "queued"]
    BY <1>2, <2>1 DEF CreateScheduled
  <2>3. job[s].status = "absent" => ~Busy(s)
    BY DEF Calendar, Known, Exists, Begun
  <2>4. \A u \in Scans :
          \/ job'[u] = job[u] /\ scan'[u] = scan[u]
          \/ job[u].status = "absent" /\ job'[u].status = "queued" /\ scan'[u] = "queued"
             /\ ~Busy(u)
    BY <2>2, <2>3, NewScan DEF TypeOK
  <2> QED
    BY <2>2, <2>4, RecordFrame
<1>3. ASSUME NEW h \in Hosts, AskScan(h)
      PROVE  RecordOK'
  <2>1. PICK s \in Scans : s = [host |-> h, trigger |-> "manual", minute |-> now]
    BY DEF TypeOK, Scans
  <2>2. /\ UNCHANGED <<work, proposals, lossy>> /\ repeated \subseteq repeated'
        /\ \/ UNCHANGED <<job, scan>>
           \/ /\ job[s].status = "absent" /\ job' = [job EXCEPT ![s] = NewRow("queued")]
              /\ scan' = [scan EXCEPT ![s] = "queued"]
    BY <1>3, <2>1 DEF AskScan
  <2>3. job[s].status = "absent" => ~Busy(s)
    BY DEF Calendar, Known, Exists, Begun
  <2>4. \A u \in Scans :
          \/ job'[u] = job[u] /\ scan'[u] = scan[u]
          \/ job[u].status = "absent" /\ job'[u].status = "queued" /\ scan'[u] = "queued"
             /\ ~Busy(u)
    BY <2>2, <2>3, NewScan DEF TypeOK
  <2> QED
    BY <2>2, <2>4, RecordFrame
<1>4. ASSUME NEW s \in Scans, RecordSweep(s)
      PROVE  RecordOK'
  <2>1. UNCHANGED <<job, work, proposals, lossy, repeated>> /\ s \in Swept
        /\ \A u \in Scans : u # s => scan'[u] = scan[u]
    BY <1>4 DEF RecordSweep, Swept, TypeOK
  <2>2. s \in lossy
    BY <2>1 DEF Token, SweptIsLossy
  <2> QED
    BY <2>1, <2>2, RecordFrame
<1>5. ASSUME NEW w \in Workers, TaskStep(w)
      PROVE  RecordOK'
  BY <1>5, TaskRecord
<1>6. ASSUME NEW w \in Workers, NEW s \in Scans, ClaimScan(w, s)
      PROVE  RecordOK'
  <2>1. /\ At(w, "idle") /\ UNCHANGED <<scan, proposals, lossy, repeated>>
        /\ \A u \in Scans : u # s => job'[u] = job[u]
        /\ \A v \in Workers : v # w => work'[v] = work[v]
        /\ \/ job' = job /\ work' = work
           \/ /\ Claimable(job[s], 0) /\ ~HasAttemptLeft(job[s]) /\ work' = work
           \/ /\ Claimable(job[s], 0) /\ work'[w].at = "claimed" /\ work'[w].of = s
    BY <1>6, ClaimShape DEF OutsideWork
  <2>2. CASE job' = job /\ work' = work
    BY <2>1, <2>2, RecordFrame
  <2>3. s \notin lossy /\ Claimable(job[s], 0) => job[s].status = "queued"
    <3>1. job[s].expires \in Int
      BY NoLeaseIsInt DEF TypeOK, Row
    <3> QED
      BY <3>1 DEF Claimable, Lapsed, LeaseIsExpired, Lease, LeaseIsHeld
  <2>4. CASE Claimable(job[s], 0) /\ ~HasAttemptLeft(job[s]) /\ work' = work
    <3>1. s \in lossy
      BY <2>3, <2>4 DEF Lease, RetriesLeft
    <3> QED
      BY <2>1, <2>4, <3>1, RecordFrame
  <2>5. CASE Claimable(job[s], 0) /\ work'[w].at = "claimed" /\ work'[w].of = s
    <3>1. ASSUME NEW u \in Scans \ (lossy \cup repeated)
          PROVE  /\ \A v \in Workers : work'[v].of = u => Says(v, u)'
                 /\ \/ \E v \in Workers : work'[v].at # "idle" /\ work'[v].of = u
                    \/ job'[u].status = "absent" \/ Agrees(u)'
      <4>1. /\ \A v \in Workers : work[v].of = u => Says(v, u)
            /\ \/ \E v \in Workers : work[v].at # "idle" /\ work[v].of = u
               \/ job[u].status = "absent" \/ Agrees(u)
        BY DEF RecordOK, Exists, Busy, At
      <4>2. CASE u # s
        BY <2>1, <2>5, <4>1, <4>2 DEF At, Says, Agrees
      <4>3. CASE u = s
        <5>1. \A v \in Workers : work[v].at = "idle" \/ work[v].of # u
          <6>1. s \in sent
            BY <1>6 DEF ClaimScan
          <6> QED
            BY <4>3, <6>1 DEF Token, TokenOnce, Busy, At
        <5> QED
          BY <2>1, <2>5, <4>3, <5>1 DEF Says
      <4> QED
        BY <4>2, <4>3
    <3> QED
      BY <2>1, <3>1 DEF RecordOK, Exists, Busy, At
  <2> QED
    BY <2>1, <2>2, <2>4, <2>5
<1>7. CASE Sweep
  <2>1. /\ \A s \in Scans : ~Lapsed(job[s], 0) => job'[s] = job[s]
        /\ UNCHANGED <<scan, proposals, work, lossy, repeated>>
    BY <1>7, SweepShape
  <2>2. ASSUME NEW s \in Scans \ lossy
        PROVE  job'[s] = job[s]
    <3>1. job[s].expires \in Int
      BY NoLeaseIsInt DEF TypeOK, Row
    <3>2. ~Lapsed(job[s], 0)
      BY <3>1 DEF Lease, LeaseIsHeld, Lapsed, LeaseIsExpired
    <3> QED
      BY <2>1, <3>2
  <2> QED
    BY <2>1, <2>2, RecordFrame
<1>8. ASSUME NEW s \in Scans, Lapse(s)
      PROVE  RecordOK'
  <2>1. /\ UNCHANGED <<scan, proposals, work, repeated>> /\ lossy' = lossy \cup {s}
        /\ job' = [job EXCEPT ![s].expires = 0]
    BY <1>8 DEF Lapse
  <2>2. \A u \in Scans : u # s => job'[u] = job[u]
    BY <2>1 DEF TypeOK
  <2> QED
    BY <2>1, <2>2, RecordFrame
<1>9. ASSUME NEW w \in Workers, Crash(w)
      PROVE  RecordOK'
  <2> DEFINE s == work[w].of
  <2>1. /\ s \in Scans /\ work'[w].at = "idle"
        /\ \A v \in Workers : v # w => work'[v] = work[v]
        /\ lossy' = lossy \cup {s} /\ UNCHANGED <<job, scan, proposals, repeated>>
    BY <1>9, CrashShape, RestingTypes
  <2>2. work[w].of = s
    OBVIOUS
  <2> HIDE DEF s
  <2>3. ASSUME NEW u \in Scans \ (lossy \cup {s} \cup repeated)
        PROVE  /\ \A v \in Workers : work'[v].of = u => Says(v, u)'
               /\ \/ \E v \in Workers : work'[v].at # "idle" /\ work'[v].of = u
                  \/ job[u].status = "absent" \/ Agrees(u)'
    <3>1. /\ \A v \in Workers : work[v].of = u => Says(v, u)
          /\ \/ \E v \in Workers : work[v].at # "idle" /\ work[v].of = u
             \/ job[u].status = "absent" \/ Agrees(u)
      BY DEF RecordOK, Exists, Busy, At
    <3> QED
      BY <2>1, <2>2, <3>1 DEF Says, Agrees
  <2> QED
    BY <2>1, <2>3 DEF RecordOK, Exists, Busy, At
<1> QED
  BY <1>1, <1>2, <1>3, <1>4, <1>5, <1>6, <1>7, <1>8, <1>9, StepKinds DEF Outside, Dispatch

-----------------------------------------------------------------------------
(* The inductive invariant, and what follows from it.                      *)

ScanIInv ==
  /\ TypeOK /\ Lease
  /\ ScheduledScansDoNotOverlap
  /\ RestingMadeNone /\ Expected
  /\ Calendar /\ Token /\ RecordOK

LEMMA ScanInit ==
  ASSUME Init
  PROVE  ScanIInv
<1>1. TypeOK
  BY InitTypes
<1>2. /\ Idle.at = "idle" /\ Resting.at = "resting" /\ Resting.made = {} /\ Resting.due = {}
      /\ Resting.time = 0
  BY RestingTypes
<1>3. /\ \A w \in Workers : work[w].at = "idle"
      /\ \A s \in Scans : job[s].status = "absent" /\ Standing(s) = 0
      /\ beat = Resting /\ now = 0 /\ sent = {} /\ asked = {} /\ Swept = {}
  BY <1>2 DEF Init, NoRow, Swept, Standing
<1>4. Lease
  BY <1>3 DEF Lease, OwnRow, RetriesLeft, LeaseIsHeld, WorkersHold, ProposedOnce, DoneStays,
              Active, Done
<1>5. ScheduledScansDoNotOverlap /\ Expected /\ RestingMadeNone
  BY <1>2, <1>3 DEF ScheduledScansDoNotOverlap, Expected, RestingMadeNone
<1>6. ASSUME NEW s \in Scans
      PROVE  ~Busy(s) /\ ~Begun(s) /\ ~Exists(s)
  BY <1>3 DEF Busy, Begun, Exists, At
<1>7. Calendar
  BY <1>2, <1>3, <1>6 DEF Calendar, OnTime, MadeMoved, Known, NotBegunAhead
<1>8. Token
  BY <1>2, <1>3, <1>6 DEF Token, AskedIsManual, SweptIsLossy, TokenOnce, At
<1>9. RecordOK
  BY <1>3, <1>6 DEF RecordOK, Says, At
<1> QED
  BY <1>1, <1>4, <1>5, <1>7, <1>8, <1>9 DEF ScanIInv

LEMMA ScanNext ==
  ASSUME ScanIInv, [Next]_vars
  PROVE  ScanIInv'
<1>1. CASE Next
  <2>1. OwnRow /\ AskedIsManual
    BY DEF ScanIInv, Lease, Token
  <2>2. TypeOK' /\ Lease' /\ ScheduledScansDoNotOverlap'
    BY <1>1, <2>1, TypesNext, LeaseNext, OverlapNext DEF ScanIInv
  <2>3. Expected' /\ RestingMadeNone'
    BY <1>1, <2>1, ExpectedNext DEF ScanIInv
  <2>4. Calendar' /\ Token' /\ RecordOK'
    BY <1>1, <2>1, CalendarNext, TokenNext, RecordNext DEF ScanIInv
  <2> QED
    BY <2>2, <2>3, <2>4 DEF ScanIInv
<1>2. CASE UNCHANGED vars
  <2> USE <1>2 DEF vars, hist
  <2>1. TypeOK'
    BY DEF ScanIInv, TypeOK
  <2>2. Lease'
    BY DEF ScanIInv, Lease, OwnRow, RetriesLeft, LeaseIsHeld, WorkersHold, ProposedOnce,
           DoneStays, Active, Done, Standing, At
  <2>3. ScheduledScansDoNotOverlap' /\ RestingMadeNone'
    BY DEF ScanIInv, ScheduledScansDoNotOverlap, RestingMadeNone
  <2>4. Expected'
    BY DEF ScanIInv, Expected, Waits, Returns, At
  <2>5. Calendar'
    BY DEF ScanIInv, Calendar, OnTime, MadeMoved, Known, NotBegunAhead, Ahead, Begun, Exists,
           Busy, At, Swept
  <2>6. Token'
    BY DEF ScanIInv, Token, AskedIsManual, SweptIsLossy, TokenOnce, Busy, At, Swept
  <2>7. RecordOK'
    BY DEF ScanIInv, RecordOK, Agrees, Says, Exists, Busy, At
  <2> QED
    BY <2>1, <2>2, <2>3, <2>4, <2>5, <2>6, <2>7 DEF ScanIInv
<1> QED
  BY <1>1, <1>2

(* The invariant that every step of dispatcher, operators, workers and     *)
(* recovery keeps; the parts above say why each is needed.                 *)
THEOREM ScansInductive == Spec => []ScanIInv
<1>1. Init => ScanIInv
  BY ScanInit
<1>2. ScanIInv /\ [Next]_vars => ScanIInv'
  BY ScanNext
<1> QED
  BY <1>1, <1>2, PTL DEF Spec

(* The state of every run is of its type.                                  *)
THEOREM ScanTypeCorrect == Spec => []TypeOK
<1>1. ScanIInv => TypeOK
  BY DEF ScanIInv
<1> QED
  BY <1>1, ScansInductive, PTL

(* skip_if_running (create_due_scan_jobs and create_scan_job): a host      *)
(* never has two scheduled scans queued or running.                        *)
THEOREM ScheduledOneAtATime == Spec => []ScheduledScansDoNotOverlap
<1>1. ScanIInv => ScheduledScansDoNotOverlap
  BY DEF ScanIInv
<1> QED
  BY <1>1, ScansInductive, PTL

(* process_scan: however often a scan is delivered or retried, it proposes *)
(* a second remediation only when the attempt behind the first met an      *)
(* exception after that save, or the scan a loss.                          *)
THEOREM ScanProposesOnce == Spec => []OneProposalPerScan
<1>1. ScanIInv => OneProposalPerScan
  BY DEF ScanIInv, Lease, ProposedOnce, OneProposalPerScan, Standing
<1> QED
  BY <1>1, ScansInductive, PTL

(* The record of a scan no worker holds says what its job says, unless a   *)
(* loss met it, or an exception after the job was completed: the handler   *)
(* then writes "failed" on the record of a completed job.                  *)
THEOREM RecordsAgree == Spec => []ScanRecordAgrees
<1>1. ScanIInv => ScanRecordAgrees
  BY DEF ScanIInv, RecordOK, Agrees, ScanRecordAgrees, Deserted, Busy, Exists
<1> QED
  BY <1>1, ScansInductive, PTL

(* A queued scan has a delivery, or a process that has still to send it.   *)
THEOREM QueuedScansAreExpected == Spec => []QueuedScanIsExpected
<1>1. ScanIInv => QueuedScanIsExpected
  BY DEF ScanIInv, Expected, Waits, Returns, QueuedScanIsExpected
<1> QED
  BY <1>1, ScansInductive, PTL

-----------------------------------------------------------------------------
(* The refinement: every step is a step of JobPromise.                     *)

(* A job that does not exist has no attempts, and the copy of a worker     *)
(* that holds its lease counts those of the row it will replace.           *)
Counts ==
  /\ \A s \in Scans : job[s].status = "absent" => job[s].attempts = 0
  /\ \A w \in Workers :
       Active(w) /\ Owns(w) => work[w].row.attempts = job[work[w].of].attempts

(* A step of one worker at one scan: if it changes the job, nobody else    *)
(* holds the lease after it.                                               *)
LEMMA CountsFrame ==
  ASSUME TypeOK, Counts, NEW w \in Workers, NEW s \in Scans,
         \A v \in Workers : v # w => work'[v] = work[v],
         \A u \in Scans : u # s => job'[u] = job[u],
         job'[s] = job[s] \/ job'[s].status # "absent",
         \A v \in Workers : v # w => job'[s] = job[s] \/ ~HoldsLease(job'[s], v, 0),
         Active(w)' /\ Owns(w)' => work'[w].row.attempts = job'[work'[w].of].attempts
  PROVE  Counts'
<1>1. \A u \in Scans : job'[u].status = "absent" => job'[u].attempts = 0
  BY DEF Counts
<1>2. ASSUME NEW v \in Workers, Active(v)', Owns(v)', v # w
      PROVE  work'[v].row.attempts = job'[work'[v].of].attempts
  <2>1. work'[v] = work[v] /\ work[v].of \in Scans
    BY <1>2 DEF TypeOK, Tasks
  <2>2. job'[work[v].of] = job[work[v].of]
    BY <1>2, <2>1 DEF Owns
  <2> QED
    BY <1>2, <2>1, <2>2 DEF Counts, Active, Owns
<1> QED
  BY <1>1, <1>2 DEF Counts

LEMMA CountsTask ==
  ASSUME TypeOK, OwnRow, Counts, NEW w \in Workers, TaskStep(w)
  PROVE  Counts'
<1> DEFINE s == work[w].of
<1>1. /\ s \in Scans /\ ~At(w, "idle") /\ OnlyAt(w, s)
      /\ \/ LetsGo(w, s) \/ SavesPhase(w, s) \/ MovesOn(w, s)
         \/ Completes(w, s) \/ Announces(w, s) \/ Fails(w, s) \/ RecordsFailure(w, s)
  BY TaskShapes
<1>2. Idle.at = "idle"
  BY RestingTypes
<1>3. /\ \A v \in Workers : v # w => work'[v] = work[v]
      /\ \A u \in Scans : u # s => job'[u] = job[u]
  BY <1>1 DEF OnlyAt
<1>4. CASE LetsGo(w, s) \/ Announces(w, s) \/ RecordsFailure(w, s)
  <2>1. job' = job /\ ~Active(w)'
    BY <1>2, <1>4 DEF LetsGo, Announces, RecordsFailure, Active, Done
  <2> HIDE DEF s
  <2> QED
    BY <1>1, <1>3, <2>1, CountsFrame
<1>5. CASE MovesOn(w, s)
  <2>1. job' = job /\ work'[w].of = s /\ work'[w].row = work[w].row /\ Active(w)
    BY <1>5 DEF MovesOn, Active, At
  <2>2. Owns(w)' => work'[w].row.attempts = job'[work'[w].of].attempts
    BY <2>1 DEF Counts, Owns
  <2> HIDE DEF s
  <2> QED
    BY <1>1, <1>3, <2>1, <2>2, CountsFrame
<1>6. CASE SavesPhase(w, s)
  <2>1. /\ work'[w].of = s /\ work'[w].row.attempts = job'[s].attempts
        /\ job'[s].status = "running" /\ job'[s].owner = w
    BY <1>6 DEF SavesPhase
  <2>2. \A v \in Workers : v # w => ~HoldsLease(job'[s], v, 0)
    BY <2>1 DEF HoldsLease
  <2> HIDE DEF s
  <2> QED
    BY <1>1, <1>3, <2>1, <2>2, CountsFrame
<1>7. CASE Completes(w, s) \/ Fails(w, s)
  <2>1. ~Active(w)'
    BY <1>7 DEF Completes, Fails, Active, At
  <2>2. job'[s] = job[s] \/ job'[s].status \in {"completed", "queued", "failed"}
    BY <1>7 DEF Completes, Fails
  <2>3. \A v \in Workers : job'[s] = job[s] \/ ~HoldsLease(job'[s], v, 0)
    BY <2>2 DEF HoldsLease
  <2> HIDE DEF s
  <2> QED
    BY <1>1, <1>3, <2>1, <2>2, <2>3, CountsFrame
<1> QED
  BY <1>1, <1>4, <1>5, <1>6, <1>7

LEMMA CountsNext ==
  ASSUME TypeOK, OwnRow, Counts, Next
  PROVE  Counts'
<1>1. ASSUME NEW w \in Workers, TaskStep(w)
      PROVE  Counts'
  BY <1>1, CountsTask
<1>2. ASSUME NEW w \in Workers, NEW s \in Scans, ClaimScan(w, s)
      PROVE  Counts'
  <2>1. /\ At(w, "idle")
        /\ \A u \in Scans : u # s => job'[u] = job[u]
        /\ \A v \in Workers : v # w => work'[v] = work[v]
        /\ \/ job' = job /\ work' = work
           \/ job'[s].status = "failed" /\ work' = work
           \/ /\ job'[s].status = "running" /\ job'[s].owner = w
              /\ work'[w].at = "claimed" /\ work'[w].of = s /\ work'[w].row = job'[s]
    BY <1>2, ClaimShape
  <2>2. Active(w)' => work'[w].row.attempts = job'[work'[w].of].attempts
    BY <2>1 DEF Active, At
  <2>3. /\ job'[s] = job[s] \/ job'[s].status # "absent"
        /\ \A v \in Workers : v # w => job'[s] = job[s] \/ ~HoldsLease(job'[s], v, 0)
    BY <2>1 DEF HoldsLease
  <2> QED
    BY <2>1, <2>2, <2>3, CountsFrame
<1>3. ASSUME NEW w \in Workers, Crash(w)
      PROVE  Counts'
  <2>1. /\ job' = job /\ \A v \in Workers : v # w => work'[v] = work[v]
        /\ ~Active(w)' /\ work[w].of \in Scans
    BY <1>3, CrashShape, RestingTypes DEF Active
  <2> QED
    BY <2>1, CountsFrame
<1>4. ASSUME work' = work,
             \A s \in Scans :
               \/ job'[s] = job[s]
               \/ /\ job'[s].status = "absent" => job'[s].attempts = 0
                  /\ \A v \in Workers : ~HoldsLease(job'[s], v, 0)
      PROVE  Counts'
  <2>1. \A s \in Scans : job'[s].status = "absent" => job'[s].attempts = 0
    BY <1>4 DEF Counts
  <2>2. ASSUME NEW v \in Workers, Active(v)', Owns(v)'
        PROVE  work'[v].row.attempts = job'[work'[v].of].attempts
    <3>1. work'[v] = work[v] /\ work[v].of \in Scans
      BY <1>4 DEF TypeOK, Tasks
    <3>2. job'[work[v].of] = job[work[v].of]
      BY <1>4, <2>2, <3>1 DEF Owns
    <3> QED
      BY <2>2, <3>1, <3>2 DEF Counts, Active, Owns
  <2> QED
    BY <2>1, <2>2 DEF Counts
<1>5. CASE Outside
  <2>1. Quiet
    BY <1>5, OutsideIsQuiet
  <2>2. \A s \in Scans : job'[s] = job[s] \/ job'[s].status = "queued"
    BY <2>1, NewScan DEF Quiet, TypeOK
  <2> QED
    BY <1>4, <2>1, <2>2 DEF Quiet, HoldsLease
<1>6. CASE Sweep
  <2>1. /\ work' = work
        /\ \A s \in Scans : job'[s] = job[s] \/ job'[s].status \in {"queued", "failed"}
    BY <1>6, SweepShape
  <2> QED
    BY <1>4, <2>1 DEF HoldsLease
<1>7. ASSUME NEW s \in Scans, Lapse(s)
      PROVE  Counts'
  <2>1. /\ work' = work /\ \A u \in Scans : u # s => job'[u] = job[u]
        /\ job'[s].status = "running" /\ job'[s].expires = 0
    BY <1>7 DEF Lapse, TypeOK, Row
  <2> QED
    BY <1>4, <2>1 DEF HoldsLease, LeaseIsExpired
<1> QED
  BY <1>1, <1>2, <1>3, <1>5, <1>6, <1>7, StepKinds

-----------------------------------------------------------------------------

LEMMA MappedFunctions ==
  /\ PromisedState = [s \in Scans |-> PromisedState[s]]
  /\ PromisedTries = [s \in Scans |-> PromisedTries[s]]
  /\ PromisedLive = [s \in Scans |-> PromisedLive[s]]
  /\ PromisedState' = [s \in Scans |-> PromisedState'[s]]
  /\ PromisedTries' = [s \in Scans |-> PromisedTries'[s]]
  /\ PromisedLive' = [s \in Scans |-> PromisedLive'[s]]
BY DEF PromisedState, PromisedTries, PromisedLive

LEMMA MappedValues ==
  ASSUME NEW s \in Scans
  PROVE  /\ PromisedState[s] = PromisedOf(job[s]) /\ PromisedState'[s] = PromisedOf(job'[s])
         /\ PromisedTries[s] = PromisedTriesOf(job[s])
         /\ PromisedTries'[s] = PromisedTriesOf(job'[s])
BY DEF PromisedState, PromisedTries

LEMMA EntitledOnly ==
  ASSUME NEW s \in Scans
  PROVE  /\ PromisedLive[s] = {w \in Workers : Entitled(w, s)}
         /\ PromisedLive'[s] = {w \in Workers : Entitled(w, s)'}
         /\ PromisedLive[s] \subseteq {job[s].owner}
         /\ job[s].status # "running" \/ LeaseIsExpired(job[s].expires, 0) => PromisedLive[s] = {}
         /\ PromisedLive'[s] \subseteq {job'[s].owner}
         /\ job'[s].status # "running" \/ LeaseIsExpired(job'[s].expires, 0) => PromisedLive'[s] = {}
BY DEF PromisedLive, Entitled, HoldsLease

(* The job of s moves, and a worker only to it or away from it.            *)
OnlyMoves(s) ==
  /\ \A u \in Scans : u # s => job'[u] = job[u]
  /\ \A v \in Workers : \/ work'[v] = work[v]
                        \/ /\ At(v, "idle") \/ work[v].of = s
                           /\ At(v, "idle")' \/ work'[v].of = s

LEMMA MappedMove ==
  ASSUME NEW s \in Scans, OnlyMoves(s)
  PROVE  /\ PromisedState' = [PromisedState EXCEPT ![s] = PromisedOf(job'[s])]
         /\ PromisedTries' = [PromisedTries EXCEPT ![s] = PromisedTriesOf(job'[s])]
         /\ PromisedLive' = [PromisedLive EXCEPT ![s] = PromisedLive'[s]]
<1>1. \A u \in Scans : u # s =>
        PromisedState'[u] = PromisedState[u] /\ PromisedTries'[u] = PromisedTries[u]
  BY DEF OnlyMoves, PromisedState, PromisedTries
<1>2. ASSUME NEW u \in Scans, u # s
      PROVE  PromisedLive'[u] = PromisedLive[u]
  <2>1. \A v \in Workers : Entitled(v, u)' <=> Entitled(v, u)
    BY <1>2 DEF OnlyMoves, Entitled, At
  <2> QED
    BY <2>1, EntitledOnly
<1> QED
  BY <1>1, <1>2, MappedValues, MappedFunctions, OneValueChanges

(* Steps that leave the jobs as they were and start nobody on one.         *)
LEMMA JobsStayPromised ==
  ASSUME job' = job,
         \A v \in Workers, u \in Scans : Entitled(v, u)' => Entitled(v, u)
  PROVE  Promise!PNext
<1>1. UNCHANGED <<PromisedState, PromisedTries>>
  BY DEF PromisedState, PromisedTries
<1>2. \A u \in Scans : PromisedLive'[u] \subseteq PromisedLive[u]
                       /\ PromisedLive'[u] \in SUBSET Workers
  BY EntitledOnly
<1>3. Promise!Lapse
  BY <1>1, <1>2, MappedFunctions DEF Promise!Lapse
<1> QED
  BY <1>3 DEF Promise!PNext

(* A lapsed job whose attempts are spent is given up by itself.            *)
LEMMA GivenUpAsPromised ==
  ASSUME TypeOK, NEW s \in Scans, OnlyMoves(s), Lapsed(job[s], 0), ~HasAttemptLeft(job[s]),
         job'[s].status = "failed"
  PROVE  Promise!Reclaim
<1>1. /\ PromisedState[s] = "held" /\ PromisedLive[s] = {} /\ PromisedLive'[s] = {}
      /\ PromisedTries[s] >= MaxAttempts /\ ~(PromisedTries[s] < MaxAttempts)
      /\ PromisedOf(job'[s]) = "dead" /\ PromisedTriesOf(job'[s]) = 0
  <2>1. job[s].attempts \in Nat /\ ~(job[s].attempts < MaxAttempts) /\ MaxAttempts \in Nat
    BY AttemptsAssumption DEF TypeOK, Row, HasAttemptLeft
  <2> QED
    BY <2>1, MappedValues, EntitledOnly DEF Lapsed, PromisedOf, PromisedTriesOf, Terminal
<1>2. /\ PromisedState' = [PromisedState EXCEPT ![s] = "dead"]
      /\ PromisedTries' = [PromisedTries EXCEPT ![s] = 0]
      /\ PromisedLive' = [PromisedLive EXCEPT ![s] = PromisedLive'[s]]
  BY <1>1, MappedMove
<1>3. /\ UNCHANGED PromisedLive
      /\ PromisedTries' = [u \in Scans |->
           IF u \in {s} /\ PromisedTries[u] >= MaxAttempts THEN 0 ELSE PromisedTries[u]]
  BY <1>1, <1>2, MappedFunctions
<1>4. PromisedState' = [u \in Scans |->
        IF u \notin {s} THEN PromisedState[u]
        ELSE IF PromisedTries[u] < MaxAttempts THEN "waiting" ELSE "dead"]
  BY <1>1, <1>2, MappedFunctions
<1>5. {s} \in SUBSET {u \in Scans : PromisedState[u] = "held" /\ PromisedLive[u] = {}}
  BY <1>1
<1> QED
  BY <1>3, <1>4, <1>5 DEF Promise!Reclaim

LEMMA ClaimAsPromised ==
  ASSUME TypeOK, RetriesLeft, NEW w \in Workers, NEW s \in Scans, ClaimScan(w, s)
  PROVE  [Promise!PNext]_Promise!pvars
<1>1. /\ At(w, "idle")
      /\ \A u \in Scans : u # s => job'[u] = job[u]
      /\ \A v \in Workers : v # w => work'[v] = work[v]
      /\ \/ job' = job /\ work' = work
         \/ /\ Claimable(job[s], 0) /\ ~HasAttemptLeft(job[s])
            /\ job'[s].status = "failed" /\ work' = work
         \/ /\ Claimable(job[s], 0) /\ HasAttemptLeft(job[s])
            /\ job'[s].status = "running" /\ job'[s].owner = w
            /\ job'[s].attempts = job[s].attempts + 1 /\ work'[w].of = s
  BY ClaimShape
<1>2. OnlyMoves(s)
  BY <1>1 DEF OnlyMoves
<1>3. CASE job' = job /\ work' = work
  BY <1>3, JobsStayPromised DEF Entitled, At
<1>4. CASE /\ Claimable(job[s], 0) /\ ~HasAttemptLeft(job[s])
           /\ job'[s].status = "failed"
  <2>1. Lapsed(job[s], 0)
    BY <1>4 DEF RetriesLeft, Claimable
  <2> QED
    BY <1>2, <1>4, <2>1, GivenUpAsPromised DEF Promise!PNext
<1>5. CASE /\ Claimable(job[s], 0) /\ HasAttemptLeft(job[s])
           /\ job'[s].status = "running" /\ job'[s].owner = w
           /\ job'[s].attempts = job[s].attempts + 1
  <2>1. /\ PromisedState[s] \in {"waiting", "held"} /\ PromisedLive[s] = {}
        /\ PromisedTries[s] = job[s].attempts
    BY <1>5, MappedValues, EntitledOnly
    DEF Claimable, Lapsed, PromisedOf, PromisedTriesOf, Terminal
  <2>2. PromisedOf(job'[s]) = "held" /\ PromisedTriesOf(job'[s]) = PromisedTries[s] + 1
    BY <1>5, <2>1 DEF PromisedOf, PromisedTriesOf, Terminal
  <2>3. /\ PromisedState' = [PromisedState EXCEPT ![s] = "held"]
        /\ PromisedTries' = [PromisedTries EXCEPT ![s] = @ + 1]
        /\ PromisedLive' = [PromisedLive EXCEPT ![s] = PromisedLive'[s]]
    BY <1>2, <2>2, MappedMove
  <2>4. PromisedLive'[s] \in SUBSET {w} /\ PromisedTries[s] < MaxAttempts
    BY <1>5, <2>1, EntitledOnly DEF HasAttemptLeft
  <2> QED
    BY <2>1, <2>3, <2>4 DEF Promise!Start, Promise!PNext
<1> QED
  BY <1>1, <1>3, <1>4, <1>5

LEMMA TaskAsPromised ==
  ASSUME TypeOK, OwnRow, DoneStays, Counts, NEW w \in Workers, TaskStep(w)
  PROVE  Promise!PNext
<1> DEFINE s == work[w].of
<1>1. /\ TypeOK' /\ s \in Scans /\ ~At(w, "idle") /\ OnlyAt(w, s)
      /\ \/ LetsGo(w, s) \/ SavesPhase(w, s) \/ MovesOn(w, s)
         \/ Completes(w, s) \/ Announces(w, s) \/ Fails(w, s) \/ RecordsFailure(w, s)
  BY TaskShapes
<1>2. Idle.at = "idle"
  BY RestingTypes
<1>3. /\ \A v \in Workers : v # w => work'[v] = work[v]
      /\ \A u \in Scans : u # s => job'[u] = job[u]
  BY <1>1 DEF OnlyAt
<1>4. ASSUME job' = job, work'[w] = Idle \/ work'[w].of = s
      PROVE  Promise!PNext
  <2>1. \A v \in Workers, u \in Scans : Entitled(v, u)' => Entitled(v, u)
    BY <1>1, <1>2, <1>3, <1>4 DEF Entitled, At
  <2> QED
    BY <1>4, <2>1, JobsStayPromised
<1>5. CASE \/ LetsGo(w, s) \/ MovesOn(w, s) \/ Announces(w, s) \/ RecordsFailure(w, s)
           \/ (Fails(w, s) /\ ~Owns(w))
  BY <1>4, <1>5 DEF LetsGo, MovesOn, Announces, RecordsFailure, Fails
<1>6. ASSUME Owns(w), Active(w)
      PROVE  /\ PromisedState[s] = "held" /\ PromisedLive[s] \subseteq {w}
             /\ PromisedTries[s] = work[w].row.attempts
  <2>1. job[s].status = "running" /\ job[s].owner = w /\ job[s].attempts = work[w].row.attempts
    BY <1>6 DEF Owns, HoldsLease, Counts
  <2> HIDE DEF s
  <2> QED
    BY <1>1, <2>1, MappedValues, EntitledOnly DEF PromisedOf, PromisedTriesOf, Terminal
<1>7. ASSUME work'[w] = Idle \/ work'[w].of = s
      PROVE  OnlyMoves(s)
  BY <1>2, <1>3, <1>7 DEF OnlyMoves, At
<1>10. ~At(w, "idle") /\ ~At(w, "failed") /\ Owns(w) => Active(w)
  BY DEF OwnRow, DoneStays, Owns, HoldsLease, At
<1> HIDE DEF s
<1>8. CASE SavesPhase(w, s)
  <2>1. /\ Owns(w) /\ Active(w) /\ work'[w].of = s
        /\ job'[s].status = "running" /\ job'[s].owner = w
        /\ job'[s].attempts = work[w].row.attempts
    BY <1>8, <1>10 DEF SavesPhase, At
  <2>2. PromisedOf(job'[s]) = PromisedState[s] /\ PromisedTriesOf(job'[s]) = PromisedTries[s]
    BY <1>6, <2>1 DEF PromisedOf, PromisedTriesOf, Terminal
  <2>3. /\ PromisedState' = [PromisedState EXCEPT ![s] = PromisedState[s]]
        /\ PromisedTries' = [PromisedTries EXCEPT ![s] = PromisedTries[s]]
        /\ PromisedLive' = [PromisedLive EXCEPT ![s] = PromisedLive'[s]]
    BY <1>1, <1>7, <2>1, <2>2, MappedMove
  <2>4. UNCHANGED <<PromisedState, PromisedTries>>
    BY <2>3, MappedFunctions
  <2>5. PromisedLive'[s] \in SUBSET {w}
    BY <1>1, <2>1, EntitledOnly
  <2> QED
    BY <1>1, <1>6, <2>1, <2>3, <2>4, <2>5 DEF Promise!Renew, Promise!PNext
<1>9. CASE Completes(w, s) \/ (Fails(w, s) /\ Owns(w))
  <2>1. /\ Owns(w) /\ Active(w)
        /\ work'[w] = Idle \/ work'[w].of = s
        /\ \/ job'[s].status \in {"completed", "failed"}
           \/ /\ job'[s].status = "queued" /\ HasAttemptLeft(job'[s])
              /\ job'[s].attempts = work[w].row.attempts
    BY <1>9, <1>10 DEF Completes, Fails, At
  <2> DEFINE ended == PromisedOf(job'[s])
  <2>2. /\ ended \in {"done", "dead", "waiting"}
        /\ PromisedTriesOf(job'[s]) = IF ended = "waiting" THEN PromisedTries[s] ELSE 0
        /\ ended = "waiting" => PromisedTries[s] < MaxAttempts
    BY <1>6, <2>1 DEF PromisedOf, PromisedTriesOf, Terminal, HasAttemptLeft
  <2>3. PromisedLive[s] \subseteq {w} /\ PromisedState[s] = "held" /\ PromisedLive'[s] = {}
    BY <1>1, <1>6, <2>1, EntitledOnly
  <2> HIDE DEF ended
  <2>4. /\ PromisedState' = [PromisedState EXCEPT ![s] = ended]
        /\ PromisedTries' = [PromisedTries EXCEPT ![s] = IF ended = "waiting" THEN @ ELSE 0]
        /\ PromisedLive' = [PromisedLive EXCEPT ![s] = {}]
    BY <1>1, <1>7, <2>1, <2>2, <2>3, MappedMove DEF ended
  <2>5. Promise!Settle(s, w)
    BY <2>2, <2>3, <2>4 DEF Promise!Settle
  <2> QED
    BY <1>1, <2>5 DEF Promise!PNext
<1> QED
  BY <1>1, <1>5, <1>8, <1>9

LEMMA QuietAsPromised ==
  ASSUME TypeOK, Counts, Quiet
  PROVE  Promise!PNext
<1>1. CASE job' = job
  BY <1>1, JobsStayPromised DEF Quiet, Entitled, At
<1>2. ASSUME NEW s \in Scans, job[s].status = "absent",
             job' = [job EXCEPT ![s] = NewRow("queued")]
      PROVE  Promise!Accept(s)
  <2>1. /\ job'[s].status = "queued" /\ job'[s].attempts = job[s].attempts
        /\ \A u \in Scans : u # s => job'[u] = job[u]
    BY <1>2 DEF TypeOK, Counts, NewRow, NoRow
  <2>2. OnlyMoves(s)
    BY <2>1 DEF OnlyMoves, Quiet
  <2>3. /\ PromisedState[s] = "absent" /\ PromisedOf(job'[s]) = "waiting"
        /\ PromisedTriesOf(job'[s]) = PromisedTries[s]
        /\ PromisedLive[s] = {} /\ PromisedLive'[s] = {}
    BY <1>2, <2>1, MappedValues, EntitledOnly DEF PromisedOf, PromisedTriesOf, Terminal
  <2>4. /\ PromisedState' = [PromisedState EXCEPT ![s] = "waiting"]
        /\ PromisedTries' = [PromisedTries EXCEPT ![s] = PromisedTries[s]]
        /\ PromisedLive' = [PromisedLive EXCEPT ![s] = PromisedLive'[s]]
    BY <2>2, <2>3, MappedMove
  <2>5. UNCHANGED <<PromisedTries, PromisedLive>>
    BY <2>3, <2>4, MappedFunctions
  <2> QED
    BY <2>3, <2>4, <2>5 DEF Promise!Accept
<1> QED
  BY <1>1, <1>2 DEF Quiet, Promise!PNext

LEMMA LapseAsPromised ==
  ASSUME TypeOK, NEW s \in Scans, Lapse(s)
  PROVE  Promise!Lapse
<1>1. /\ work' = work /\ \A u \in Scans : u # s => job'[u] = job[u]
      /\ job[s].status = "running" /\ job'[s].status = "running"
      /\ job'[s].attempts = job[s].attempts /\ job'[s].expires = 0
  BY DEF Lapse, TypeOK, Row
<1>2. OnlyMoves(s)
  BY <1>1 DEF OnlyMoves
<1>3. /\ PromisedOf(job'[s]) = PromisedState[s] /\ PromisedTriesOf(job'[s]) = PromisedTries[s]
      /\ PromisedLive'[s] = {}
  BY <1>1, MappedValues, EntitledOnly DEF PromisedOf, PromisedTriesOf, LeaseIsExpired
<1>4. /\ PromisedState' = [PromisedState EXCEPT ![s] = PromisedState[s]]
      /\ PromisedTries' = [PromisedTries EXCEPT ![s] = PromisedTries[s]]
      /\ PromisedLive' = [PromisedLive EXCEPT ![s] = PromisedLive'[s]]
  BY <1>2, <1>3, MappedMove
<1>5. \A u \in Scans : PromisedLive'[u] \subseteq PromisedLive[u]
  BY <1>3, <1>4, MappedFunctions
<1>6. \A u \in Scans : PromisedLive'[u] \in SUBSET Workers
  BY EntitledOnly
<1>7. UNCHANGED <<PromisedState, PromisedTries>>
  BY <1>4, MappedFunctions
<1> QED
  BY <1>5, <1>6, <1>7, MappedFunctions DEF Promise!Lapse

LEMMA SweepAsPromised ==
  ASSUME TypeOK, Sweep
  PROVE  Promise!Reclaim
<1> DEFINE lapsed == {s \in Scans : Lapsed(job[s], 0)}
<1>1. /\ work' = work
      /\ \A s \in Scans :
           IF s \in lapsed
           THEN IF HasAttemptLeft(job[s])
                THEN job'[s].status = "queued" /\ job'[s].attempts = job[s].attempts
                ELSE job'[s].status = "failed"
           ELSE job'[s] = job[s]
  BY SweepShape
<1>2. \A s \in lapsed : PromisedState[s] = "held" /\ PromisedLive[s] = {}
  BY MappedValues, EntitledOnly DEF Lapsed, PromisedOf
<1>3. ASSUME NEW s \in lapsed
      PROVE  /\ PromisedTries'[s] = IF PromisedTries[s] >= MaxAttempts THEN 0 ELSE PromisedTries[s]
             /\ PromisedState'[s] = IF PromisedTries[s] < MaxAttempts THEN "waiting" ELSE "dead"
             /\ PromisedLive'[s] = {}
  <2>1. PromisedTries[s] = job[s].attempts /\ job[s].attempts \in Nat
    BY MappedValues DEF Lapsed, PromisedTriesOf, Terminal, TypeOK, Row
  <2>2. MaxAttempts \in Nat
    BY AttemptsAssumption
  <2> QED
    BY <1>1, <2>1, <2>2, MappedValues, EntitledOnly
    DEF PromisedOf, PromisedTriesOf, Terminal, HasAttemptLeft
<1>4. \A s \in Scans : s \notin lapsed =>
        /\ PromisedTries'[s] = PromisedTries[s] /\ PromisedState'[s] = PromisedState[s]
        /\ PromisedLive'[s] = PromisedLive[s]
  BY <1>1 DEF PromisedState, PromisedTries, PromisedLive, Entitled, At
<1>5. \A s \in Scans : PromisedLive'[s] = PromisedLive[s]
  BY <1>2, <1>3, <1>4
<1>6. lapsed \in SUBSET {s \in Scans : PromisedState[s] = "held" /\ PromisedLive[s] = {}}
  BY <1>2
<1> HIDE DEF lapsed
<1>7. UNCHANGED PromisedLive
  BY <1>5, MappedFunctions
<1>8. PromisedTries' = [s \in Scans |->
        IF s \in lapsed /\ PromisedTries[s] >= MaxAttempts THEN 0 ELSE PromisedTries[s]]
  BY <1>3, <1>4, MappedFunctions
<1>9. PromisedState' = [s \in Scans |->
        IF s \notin lapsed THEN PromisedState[s]
        ELSE IF PromisedTries[s] < MaxAttempts THEN "waiting" ELSE "dead"]
  BY <1>3, <1>4, MappedFunctions
<1> QED
  BY <1>6, <1>7, <1>8, <1>9 DEF Promise!Reclaim

LEMMA StepAsPromised ==
  ASSUME TypeOK, Lease, Counts, [Next]_vars
  PROVE  [Promise!PNext]_Promise!pvars
<1>1. CASE UNCHANGED vars
  BY <1>1 DEF vars, Promise!pvars, PromisedState, PromisedTries, PromisedLive, Entitled, At
<1>2. ASSUME NEW w \in Workers, Crash(w)
      PROVE  Promise!PNext
  <2>1. job' = job /\ work'[w].at = "idle" /\ \A v \in Workers : v # w => work'[v] = work[v]
    BY <1>2, CrashShape, RestingTypes
  <2>2. \A v \in Workers, u \in Scans : Entitled(v, u)' => Entitled(v, u)
    BY <2>1 DEF Entitled, At
  <2> QED
    BY <2>1, <2>2, JobsStayPromised
<1>3. CASE Next
  BY <1>2, <1>3, StepKinds, OutsideIsQuiet, QuietAsPromised, TaskAsPromised, ClaimAsPromised,
     SweepAsPromised, LapseAsPromised DEF Lease, Promise!PNext
<1> QED
  BY <1>1, <1>3

LEMMA InitKeepsPromise == Init => Promise!PInit /\ Counts
<1> SUFFICES ASSUME Init PROVE Promise!PInit /\ Counts
  OBVIOUS
<1>1. \A w \in Workers : At(w, "idle") /\ ~Active(w)
  BY RestingTypes DEF Init, At, Active
<1>2. \A s \in Scans : job[s].status = "absent" /\ job[s].attempts = 0
  BY DEF Init, NoRow
<1>3. Counts
  BY <1>1, <1>2 DEF Counts
<1>4. Promise!PInit
  BY <1>1, <1>2 DEF Promise!PInit, PromisedState, PromisedTries, PromisedTriesOf, PromisedLive,
     Entitled, PromisedOf
<1> QED
  BY <1>3, <1>4

(* create_scan_job, process_scan, the sweep and every delivery, repeated,  *)
(* late or lost, keep the promise of the job layer: a scan is tried a      *)
(* bounded number of times, by one entitled worker at a time, and its      *)
(* outcome stays.                                                          *)
THEOREM ScansKeepThePromise == Spec => KeepsPromise
<1>1. ScanIInv => TypeOK /\ Lease /\ OwnRow
  BY DEF ScanIInv, Lease
<1>2. TypeOK /\ OwnRow /\ Counts /\ [Next]_vars => Counts'
  <2>1. UNCHANGED vars /\ Counts => Counts'
    BY DEF vars, Counts, Active, Owns
  <2> QED
    BY <2>1, CountsNext
<1>3. Spec => []Counts
  BY <1>1, <1>2, InitKeepsPromise, ScansInductive, PTL DEF Spec
<1>4. TypeOK /\ Lease /\ Counts /\ [Next]_vars => [Promise!PNext]_Promise!pvars
  BY StepAsPromised
<1> QED
  BY <1>1, <1>3, <1>4, InitKeepsPromise, ScansInductive, PTL
     DEF Spec, KeepsPromise, Promise!PSpec

-----------------------------------------------------------------------------
(* Analysis.                                                               *)

(* A response of the orchestrator, once validated.                         *)
Responses ==
  [scope : Scopes, risk : Severities, status : {"plan_ready", "insufficient_evidence"}]

Plans ==
  [scope : {"all", "security"}, risk : Severities,
   reboot : {"required", "required_after_patch", "unknown", "not_expected"},
   rollout : {"one_at_a_time", "canary_then_batches"}]

(* The plan comes last: reviews and rejections are complete by then.       *)
PlanIsLast == stage # "done" => plan = {}

AnalysisIInv ==
  AnalysisTypeOK /\ PlanIsLast /\ NoPlanOverConflict /\ RiskHasAFloor
                 /\ RebootIsAnnounced

LEMMA ClaimsOfAgents ==
  ASSUME NEW s
  PROVE  /\ LogClaims(s) \subseteq Claims
         /\ StateClaims(s) \subseteq Claims
BY DEF LogClaims, StateClaims, Claims

(* Whatever a provider answers, a review speaks of claims the other agent  *)
(* made.                                                                   *)
LEMMA PeerReviewType ==
  ASSUME NEW own \in SUBSET Claims, NEW other \in SUBSET Claims, NEW s,
         NEW answer \in AllReviewAnswers
  PROVE  PeerReview(own, other, s, answer) \in Messages
<1> DEFINE relevant == RelevantClaims(own, other, s)
           fallback == DeterministicReview(relevant)
<1>1. relevant \subseteq Claims
  BY DEF RelevantClaims
<1>2. fallback \in Messages
  BY <1>1 DEF DeterministicReview, Messages, Reviews
<1>3. ValidateReview(answer, relevant, fallback) \in Messages
  <2>1. fallback.response \in Reviews /\ fallback.claims \subseteq Claims
    BY <1>2 DEF Messages
  <2> QED
    BY <1>1, <2>1 DEF ValidateReview, Messages
<1> QED
  BY <1>2, <1>3 DEF PeerReview, Messages, Reviews

(* A conflict leaves the evidence insufficient, and the host's own scope   *)
(* has the last word.                                                      *)
LEMMA ResponseRules ==
  ASSUME NEW h \in AllPolicies, NEW s, NEW findings, NEW conflict \in BOOLEAN,
         NEW answer \in AllPlanAnswers
  PROVE  LET r == Response(h, s, findings, conflict, answer)
         IN  /\ r \in Responses
             /\ conflict => r.status = "insufficient_evidence"
             /\ h.mode # "orchestrator_decides" => r.scope = h.mode
<1> DEFINE decided == h.mode \in {"all", "security"}
           fallback ==
             [scope  |-> IF decided THEN h.mode
                         ELSE IF s.updates # {} THEN "all" ELSE "none",
              risk   |-> IF findings # {} THEN "high" ELSE "info",
              status |-> IF conflict THEN "insufficient_evidence" ELSE "plan_ready"]
           response == IF answer.status = "error" THEN fallback
                       ELSE ValidatePlan(answer, fallback)
<1>1. h.mode # "orchestrator_decides" => decided
  BY DEF AllPolicies
<1>2. fallback \in Responses /\ (conflict => fallback.status = "insufficient_evidence")
  BY DEF Responses, Scopes, Severities
<1>3. response \in Responses /\ (conflict => response.status = "insufficient_evidence")
  <2>1. CASE answer.status = "error"
    BY <1>2, <2>1
  <2>2. CASE answer.status # "error"
    <3>1. /\ fallback.scope \in Scopes /\ fallback.risk \in Severities
          /\ fallback.status \in {"plan_ready", "insufficient_evidence"}
      BY <1>2 DEF Responses
    <3>2. answer.status \in {"plan_ready", "insufficient_evidence", "other"}
      BY <2>2 DEF AllPlanAnswers
    <3>3. ValidatePlan(answer, fallback) \in Responses
      <4> HIDE DEF fallback
      <4> QED
        BY <3>1, <3>2 DEF ValidatePlan, Responses
    <3>4. conflict => ValidatePlan(answer, fallback).status = "insufficient_evidence"
      BY <1>2 DEF ValidatePlan
    <3> QED
      BY <2>2, <3>3, <3>4
  <2> QED
    BY <2>1, <2>2
<1>4. Response(h, s, findings, conflict, answer)
        = IF decided THEN [response EXCEPT !.scope = h.mode] ELSE response
  BY DEF Response
<1> HIDE DEF response
<1> QED
  BY <1>1, <1>3, <1>4 DEF Responses, Scopes

(* What the host asks for is a floor under the risk.                       *)
LEMMA RiskRules ==
  ASSUME NEW h \in AllPolicies, NEW s \in AllSnapshots, NEW requested \in Severities,
         NEW reboot
  PROVE  LET risk == EnforceRisk(h, s, requested, reboot)
         IN  /\ risk \in Severities
             /\ s.disk = "critical" => risk = "critical"
             /\ h.careful \/ s.failed \/ reboot \in {"required", "required_after_patch"}
                  => risk \in {"high", "critical"}
BY DEF EnforceRisk, Severities, Rank, AllPolicies, AllSnapshots

(* What a plan says of itself is true of the host it was made for.         *)
LEMMA PlanRules ==
  ASSUME NEW h \in AllPolicies, NEW s \in AllSnapshots, NEW r \in Responses,
         h.mode # "orchestrator_decides" => r.scope = h.mode,
         NEW p \in BuildPlan(h, s, r)
  PROVE  /\ r.status = "plan_ready"
         /\ p \in Plans
         /\ s.disk = "critical" => p.risk = "critical"
         /\ \/ s.failed \/ h.careful \/ s.marker
            \/ \E u \in Selected(s, p.scope) : u.reboots
            => p.risk \in {"high", "critical"}
         /\ p.risk \in {"high", "critical"} => p.rollout = "one_at_a_time"
         /\ h.mode # "orchestrator_decides" => p.scope = h.mode
         /\ p.reboot = "not_expected" =>
              ~s.marker /\ \A u \in s.updates : p.scope = "security" /\ ~u.security
         /\ p.reboot = "unknown" =>
              \A u \in s.updates : u.reboots => p.scope = "security" /\ ~u.security
<1> DEFINE reboot == AssessReboot(s, r.scope)
           risk == EnforceRisk(h, s, r.risk, reboot)
<1>1. /\ r.status = "plan_ready" /\ r.scope # "none"
      /\ p = [scope |-> r.scope, reboot |-> reboot, risk |-> risk,
              rollout |-> Rollout(h, risk)]
  BY DEF BuildPlan
<1>2. r.scope \in {"all", "security"} /\ r.risk \in Severities
  BY <1>1 DEF Responses, Scopes
<1>3. reboot \in {"required", "required_after_patch", "unknown", "not_expected"}
  BY DEF AssessReboot
<1>4. \/ s.marker \/ \E u \in Selected(s, r.scope) : u.reboots
      => reboot \in {"required", "required_after_patch"}
  BY DEF AssessReboot
<1>5. /\ reboot = "not_expected" => ~s.marker /\ Selected(s, r.scope) = {}
      /\ reboot = "unknown" => ~\E u \in Selected(s, r.scope) : u.reboots
  BY DEF AssessReboot
<1>6. Selected(s, r.scope) = {u \in s.updates : r.scope = "all" \/ u.security}
  BY DEF Selected
<1>7. /\ risk \in Severities
      /\ s.disk = "critical" => risk = "critical"
      /\ h.careful \/ s.failed \/ reboot \in {"required", "required_after_patch"}
           => risk \in {"high", "critical"}
  BY <1>2, RiskRules
<1>8. /\ Rollout(h, risk) \in {"one_at_a_time", "canary_then_batches"}
      /\ risk \in {"high", "critical"} => Rollout(h, risk) = "one_at_a_time"
  BY DEF Rollout
<1> HIDE DEF reboot, risk
<1>9. /\ p.scope = r.scope /\ p.reboot = reboot /\ p.risk = risk
      /\ p.rollout = Rollout(h, risk) /\ p \in Plans
  BY <1>1, <1>2, <1>3, <1>7, <1>8 DEF Plans
<1>10. /\ reboot = "not_expected" =>
            ~s.marker /\ \A u \in s.updates : r.scope = "security" /\ ~u.security
       /\ reboot = "unknown" =>
            \A u \in s.updates : u.reboots => r.scope = "security" /\ ~u.security
  BY <1>2, <1>5, <1>6
<1>11. p.risk \in {"high", "critical"} => p.rollout = "one_at_a_time"
  BY <1>8, <1>9
<1> QED
  BY <1>1, <1>4, <1>7, <1>9, <1>10, <1>11

LEMMA AnalysisInitInv == AnalysisInit => AnalysisIInv
BY AnalysisAssumption
   DEF AnalysisInit, AnalysisIInv, AnalysisTypeOK, PlanIsLast, NoPlanOverConflict,
       RiskHasAFloor, RebootIsAnnounced, Agents, NoMessage, Messages, Reviews

LEMMA ReviewPeersInv == AnalysisIInv /\ ReviewPeers => AnalysisIInv'
<1> SUFFICES ASSUME AnalysisIInv, ReviewPeers PROVE AnalysisIInv'
  OBVIOUS
<1>1. /\ stage' = "verifying" /\ plan = {} /\ plan' = {}
      /\ host' = host /\ seen' = seen /\ rejected' = rejected
  BY DEF ReviewPeers, AnalysisIInv, PlanIsLast
<1>2. review' \in [Agents -> Messages]
  <2>1. PICK ofLog \in ReviewAnswers, ofState \in ReviewAnswers :
          review' = [agent \in Agents |->
            IF agent = "log"
            THEN PeerReview(LogClaims(seen), StateClaims(seen), seen, ofLog)
            ELSE PeerReview(StateClaims(seen), LogClaims(seen), seen, ofState)]
    BY DEF ReviewPeers
  <2>2. ofLog \in AllReviewAnswers /\ ofState \in AllReviewAnswers
    BY AnalysisAssumption
  <2>3. /\ PeerReview(LogClaims(seen), StateClaims(seen), seen, ofLog) \in Messages
        /\ PeerReview(StateClaims(seen), LogClaims(seen), seen, ofState) \in Messages
    BY <2>2, ClaimsOfAgents, PeerReviewType
  <2> QED
    BY <2>1, <2>3
<1>3. AnalysisTypeOK'
  BY <1>1, <1>2 DEF AnalysisIInv, AnalysisTypeOK, AllClaims
<1> QED
  BY <1>1, <1>3
     DEF AnalysisIInv, PlanIsLast, NoPlanOverConflict, RiskHasAFloor, RebootIsAnnounced

LEMMA VerifyFindingsInv == AnalysisIInv /\ VerifyFindings => AnalysisIInv'
<1> SUFFICES ASSUME AnalysisIInv, VerifyFindings PROVE AnalysisIInv'
  OBVIOUS
<1>1. /\ stage' = "planning" /\ plan = {} /\ plan' = {}
      /\ host' = host /\ seen' = seen /\ review' = review
  BY DEF VerifyFindings, AnalysisIInv, PlanIsLast
<1>2. rejected' \subseteq AllClaims(seen')
  BY <1>1 DEF VerifyFindings, Rejected
<1>3. AnalysisTypeOK'
  BY <1>1, <1>2 DEF AnalysisIInv, AnalysisTypeOK
<1> QED
  BY <1>1, <1>3
     DEF AnalysisIInv, PlanIsLast, NoPlanOverConflict, RiskHasAFloor, RebootIsAnnounced

LEMMA SynthesizeInv == AnalysisIInv /\ Synthesize => AnalysisIInv'
<1> SUFFICES ASSUME AnalysisIInv, Synthesize PROVE AnalysisIInv'
  OBVIOUS
<1>1. /\ stage' = "done" /\ host' = host /\ seen' = seen
      /\ review' = review /\ rejected' = rejected
  BY DEF Synthesize
<1>2. PICK answer \in PlanAnswers :
        plan' = BuildPlan(host, seen,
                  Response(host, seen, AllClaims(seen) \ rejected, Disputed, answer))
  BY DEF Synthesize
<1> DEFINE r == Response(host, seen, AllClaims(seen) \ rejected, Disputed, answer)
<1>3. host \in AllPolicies /\ seen \in AllSnapshots
  BY DEF AnalysisIInv, AnalysisTypeOK
<1>4. answer \in AllPlanAnswers /\ Disputed \in BOOLEAN
  BY AnalysisAssumption DEF Disputed
<1>5. /\ r \in Responses
      /\ Disputed => r.status = "insufficient_evidence"
      /\ host.mode # "orchestrator_decides" => r.scope = host.mode
  BY <1>3, <1>4, ResponseRules
<1> HIDE DEF r
<1>6. ASSUME NEW p \in plan'
      PROVE  /\ r.status = "plan_ready"
             /\ p \in Plans
             /\ seen.disk = "critical" => p.risk = "critical"
             /\ \/ seen.failed \/ host.careful \/ seen.marker
                \/ \E u \in Selected(seen, p.scope) : u.reboots
                => p.risk \in {"high", "critical"}
             /\ p.risk \in {"high", "critical"} => p.rollout = "one_at_a_time"
             /\ host.mode # "orchestrator_decides" => p.scope = host.mode
             /\ p.reboot = "not_expected" =>
                  ~seen.marker /\ \A u \in seen.updates : p.scope = "security" /\ ~u.security
             /\ p.reboot = "unknown" =>
                  \A u \in seen.updates : u.reboots => p.scope = "security" /\ ~u.security
  <2>1. p \in BuildPlan(host, seen, r)
    BY <1>2, <1>6 DEF r
  <2> QED
    BY <1>3, <1>5, <2>1, PlanRules
<1>7. AnalysisTypeOK'
  BY <1>1, <1>6 DEF AnalysisIInv, AnalysisTypeOK, Plans
<1>8. NoPlanOverConflict'
  <2> SUFFICES ASSUME plan' # {} PROVE ~Disputed
    BY <1>1 DEF NoPlanOverConflict, Disputed, Conflicting
  <2> QED
    BY <1>5, <1>6
<1>9. RiskHasAFloor'
  BY <1>1, <1>6 DEF RiskHasAFloor, Selected
<1>10. RebootIsAnnounced'
  BY <1>1, <1>6 DEF RebootIsAnnounced
<1> QED
  BY <1>1, <1>7, <1>8, <1>9, <1>10 DEF AnalysisIInv, PlanIsLast

(* The invariant of the whole workflow, for any hosts, snapshots and       *)
(* provider answers.                                                       *)
THEOREM AnalysisInductive == AnalysisSpec => []AnalysisIInv
<1>1. AnalysisInit => AnalysisIInv
  BY AnalysisInitInv
<1>2. AnalysisIInv /\ [AnalysisNext]_analysisVars => AnalysisIInv'
  <2> SUFFICES ASSUME AnalysisIInv, [AnalysisNext]_analysisVars PROVE AnalysisIInv'
    OBVIOUS
  <2>1. CASE ReviewPeers
    BY <2>1, ReviewPeersInv
  <2>2. CASE VerifyFindings
    BY <2>2, VerifyFindingsInv
  <2>3. CASE Synthesize
    BY <2>3, SynthesizeInv
  <2>4. CASE UNCHANGED analysisVars
    BY <2>4 DEF analysisVars, AnalysisIInv, AnalysisTypeOK, PlanIsLast, NoPlanOverConflict,
       RiskHasAFloor, RebootIsAnnounced, AllClaims, LogClaims, StateClaims, Selected
  <2> QED
    BY <2>1, <2>2, <2>3, <2>4 DEF AnalysisNext
<1> QED
  BY <1>1, <1>2, PTL DEF AnalysisSpec

(* No provider gets a plan made over a claim that a review disputed or the *)
(* verifier rejected.                                                      *)
THEOREM ConflictsStopThePlan == AnalysisSpec => []NoPlanOverConflict
BY AnalysisInductive, PTL DEF AnalysisIInv

(* No provider talks a risk down below what the host, its disk, its failed *)
(* units or an expected reboot ask for.                                    *)
THEOREM RiskFloor == AnalysisSpec => []RiskHasAFloor
BY AnalysisInductive, PTL DEF AnalysisIInv

(* A plan keeps the host's own scope and announces the reboot its updates  *)
(* may bring.                                                              *)
THEOREM RebootAnnounced == AnalysisSpec => []RebootIsAnnounced
BY AnalysisInductive, PTL DEF AnalysisIInv

=============================================================================
