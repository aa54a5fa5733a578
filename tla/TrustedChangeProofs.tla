------------------------- MODULE TrustedChangeProofs -------------------------
(***************************************************************************)
(* TrustedChange, for every set of processes and contents: no interleaving *)
(* of unlocked saves makes the gate run a plan nobody confirmed.           *)
(***************************************************************************)
EXTENDS TrustedChange, TLAPS

(* An approval that is recorded anywhere, in the store or in the memory of *)
(* a process that may overwrite the store with it, was sent by an operator *)
(* for exactly the hash it names.                                          *)
Vouched(r) ==
  /\ r.approved # NoHash => r.approved \in confirmed
  /\ r.rebooted # NoHash => r.rebooted \in rebootConfirmed

AllVouched == Vouched(rem) /\ \A p \in Procs : Vouched(held[p])

(* A request that waits for its handler is on record.                      *)
RequestsRecorded ==
  \A p \in Procs :
    /\ op[p] \in {"approve_sent", "approve", "approve_checked"} =>
         req[p] \in confirmed
    /\ op[p] \in {"reboot_sent", "reboot", "reboot_checked"} =>
         req[p] \in rebootConfirmed

IInv ==
  TypeOK /\ AllVouched /\ RequestsRecorded /\ JobWasConfirmed
         /\ ExecutedPlanWasConfirmed

-----------------------------------------------------------------------------

LEMMA BlankType ==
  ASSUME rem \in Remediation
  PROVE  Blank \in Remediation /\ Blank.approved = NoHash /\ Blank.rebooted = NoHash
<1>1. PICK c \in Contents : c = CHOOSE d \in Contents : TRUE
  BY DEF Remediation
<1>2. Hash(1, c) \in Hashes
  BY <1>1 DEF Hash, Hashes
<1>3. Blank = NewPlan(c)
  BY <1>1 DEF Blank
<1> QED
  BY <1>2, <1>3 DEF NewPlan, Remediation

(* Reconciling keeps the type, and drops approvals or leaves them alone.   *)
LEMMA ReconciledType ==
  ASSUME NEW r \in Remediation
  PROVE  /\ Reconciled(r) \in Remediation
         /\ Reconciled(r).approved \in {r.approved, NoHash}
         /\ Reconciled(r).rebooted \in {r.rebooted, NoHash}
<1>1. r.version + 1 \in Nat /\ r.version \in Nat /\ r.content \in Contents
      /\ r.hash \in Hashes
  BY DEF Remediation
<1>2. Hash(r.version + 1, r.content) \in Hashes
  BY <1>1 DEF Hash, Hashes
<1> QED
  BY <1>1, <1>2 DEF Reconciled, Remediation

(* A policy that accepts a plan names it in the approvals it relies on.    *)
LEMMA TrustedIsVouched ==
  ASSUME NEW r \in Remediation, Vouched(r), ApprovalHolds(r)
  PROVE  /\ r.hash \in confirmed
         /\ r.hash.content \in Risky => r.hash \in rebootConfirmed
<1>1. r.hash \in Hashes /\ r.hash # NoHash
  BY NoHashAssumption DEF Remediation
<1>2. r.hash.content = r.content
  BY DEF ApprovalHolds, Current, Hash
<1> QED
  BY <1>1, <1>2 DEF Vouched, ApprovalHolds, RebootRisk

-----------------------------------------------------------------------------

LEMMA InitIInv == Init => IInv
<1> SUFFICES ASSUME Init PROVE IInv
  OBVIOUS
<1>1. PICK c \in Contents : rem = NewPlan(c)
  BY DEF Init
<1>2. Hash(1, c) \in Hashes
  BY DEF Hash, Hashes
<1>3. rem \in Remediation /\ rem.approved = NoHash /\ rem.rebooted = NoHash
  BY <1>1, <1>2 DEF NewPlan, Remediation
<1>4. Blank \in Remediation /\ Blank.approved = NoHash /\ Blank.rebooted = NoHash
  BY <1>3, BlankType
<1>5. Blank.hash \in Hashes
  BY <1>4 DEF Remediation
<1>6. TypeOK
  BY <1>3, <1>4, <1>5 DEF Init, TypeOK, Ops
<1>7. AllVouched
  BY <1>3, <1>4 DEF Init, AllVouched, Vouched
<1> QED
  BY <1>6, <1>7 DEF Init, IInv, RequestsRecorded, JobWasConfirmed,
                    ExecutedPlanWasConfirmed

(* The steps of a process that end with Done, and may save r.              *)
LEMMA DoneStep ==
  ASSUME IInv, NEW p \in Procs, Done(p), rem' \in Remediation,
         Vouched(rem)', UNCHANGED <<confirmed, rebootConfirmed>>
  PROVE  /\ op' \in [Procs -> Ops] /\ held' \in [Procs -> Remediation]
         /\ req' \in [Procs -> Hashes]
         /\ AllVouched' /\ RequestsRecorded'
<1>1. Blank \in Remediation /\ Blank.approved = NoHash /\ Blank.rebooted = NoHash
  BY BlankType DEF IInv, TypeOK
<1>2. Blank.hash \in Hashes
  BY <1>1 DEF Remediation
<1>3. /\ op' \in [Procs -> Ops] /\ held' \in [Procs -> Remediation]
      /\ req' \in [Procs -> Hashes]
  BY <1>1, <1>2 DEF Done, IInv, TypeOK, Ops
<1>4. AllVouched'
  <2>1. \A q \in Procs : held'[q] = IF q = p THEN Blank ELSE held[q]
    BY DEF Done, IInv, TypeOK
  <2>2. ASSUME NEW q \in Procs PROVE Vouched(held[q])'
    BY <1>1, <2>1 DEF IInv, AllVouched, Vouched
  <2> QED
    BY <2>2 DEF AllVouched
<1>5. RequestsRecorded'
  BY DEF Done, IInv, TypeOK, RequestsRecorded
<1> QED
  BY <1>3, <1>4, <1>5

(* The steps that change one process's held object to r and its op.        *)
LEMMA HoldStep ==
  ASSUME IInv, NEW p \in Procs, NEW r \in Remediation, NEW what \in Ops,
         op' = [op EXCEPT ![p] = what], held' = [held EXCEPT ![p] = r],
         Vouched(r), rem' \in Remediation, Vouched(rem)',
         UNCHANGED <<req, confirmed, rebootConfirmed>>,
         what \in {"approve", "approve_checked"} =>
           op[p] \in {"approve_sent", "approve"},
         what \in {"reboot", "reboot_checked"} =>
           op[p] \in {"reboot_sent", "reboot"},
         what \notin {"approve_sent", "reboot_sent"}
  PROVE  /\ op' \in [Procs -> Ops] /\ held' \in [Procs -> Remediation]
         /\ req' \in [Procs -> Hashes]
         /\ AllVouched' /\ RequestsRecorded'
<1>1. /\ op' \in [Procs -> Ops] /\ held' \in [Procs -> Remediation]
      /\ req' \in [Procs -> Hashes]
  BY DEF IInv, TypeOK
<1>2. ASSUME NEW q \in Procs PROVE Vouched(held[q])'
  <2>1. held'[q] = IF q = p THEN r ELSE held[q]
    BY DEF IInv, TypeOK
  <2> QED
    BY <2>1 DEF IInv, AllVouched, Vouched
<1>3. ASSUME NEW q \in Procs
      PROVE  /\ op'[q] \in {"approve_sent", "approve", "approve_checked"} =>
                  req'[q] \in confirmed'
             /\ op'[q] \in {"reboot_sent", "reboot", "reboot_checked"} =>
                  req'[q] \in rebootConfirmed'
  <2>1. op'[q] = IF q = p THEN what ELSE op[q]
    BY DEF IInv, TypeOK
  <2> QED
    BY <2>1 DEF IInv, RequestsRecorded, Ops
<1> QED
  BY <1>1, <1>2, <1>3 DEF AllVouched, RequestsRecorded

(* A step that leaves the jobs, the executions and the histories alone.    *)
LEMMA NothingExecuted ==
  ASSUME IInv, UNCHANGED <<jobs, executed>>, confirmed \subseteq confirmed',
         rebootConfirmed \subseteq rebootConfirmed'
  PROVE  JobWasConfirmed' /\ ExecutedPlanWasConfirmed'
  BY DEF IInv, JobWasConfirmed, ExecutedPlanWasConfirmed

LEMMA StepIInv == IInv /\ [Next]_vars => IInv'
<1> SUFFICES ASSUME IInv, [Next]_vars PROVE IInv'
  OBVIOUS
<1>t. TypeOK /\ AllVouched /\ RequestsRecorded
  BY DEF IInv
<1>1. CASE Edit
  <2>1. PICK c \in Contents : rem' = [rem EXCEPT !.content = c]
    BY <1>1 DEF Edit, Save
  <2>2. rem' \in Remediation /\ rem'.approved = rem.approved
        /\ rem'.rebooted = rem.rebooted
    BY <1>t, <2>1 DEF TypeOK, Remediation
  <2> QED
    BY <1>1, <1>t, <2>2, NothingExecuted
       DEF Edit, IInv, TypeOK, AllVouched, Vouched, RequestsRecorded
<1>2. CASE ChangePolicy
  BY <1>2, <1>t, NothingExecuted
     DEF ChangePolicy, IInv, TypeOK, AllVouched, Vouched, RequestsRecorded
<1>3. CASE Prepare
  <2>1. rem.hash \in confirmed
    BY <1>3, <1>t, TrustedIsVouched DEF Prepare, TypeOK, AllVouched, Trusted
  <2>2. jobs' \subseteq Hashes /\ jobs' \subseteq confirmed
    BY <1>3, <1>t, <2>1 DEF Prepare, TypeOK, Remediation, IInv, JobWasConfirmed
  <2> QED
    BY <1>3, <1>t, <2>2
       DEF Prepare, IInv, TypeOK, AllVouched, Vouched, RequestsRecorded,
           JobWasConfirmed, ExecutedPlanWasConfirmed
<1>4. ASSUME NEW p \in Procs, SendApproval(p) PROVE IInv'
  <2>1. rem.hash \in Hashes
    BY <1>t DEF TypeOK, Remediation
  <2>2. TypeOK'
    BY <1>4, <1>t, <2>1 DEF SendApproval, Start, TypeOK, Ops
  <2>3. AllVouched' /\ RequestsRecorded'
    BY <1>4, <1>t
       DEF SendApproval, Start, TypeOK, AllVouched, Vouched, RequestsRecorded
  <2> QED
    BY <1>4, <2>2, <2>3, NothingExecuted DEF SendApproval, IInv
<1>5. ASSUME NEW p \in Procs, SendReboot(p) PROVE IInv'
  <2>1. rem.hash \in Hashes
    BY <1>t DEF TypeOK, Remediation
  <2>2. TypeOK'
    BY <1>5, <1>t, <2>1 DEF SendReboot, Start, TypeOK, Ops
  <2>3. AllVouched' /\ RequestsRecorded'
    BY <1>5, <1>t
       DEF SendReboot, Start, TypeOK, AllVouched, Vouched, RequestsRecorded
  <2> QED
    BY <1>5, <2>2, <2>3, NothingExecuted DEF SendReboot, IInv
<1>6. ASSUME NEW p \in Procs, Handle(p) PROVE IInv'
  <2>1. PICK what \in {"approve", "reboot", "reject", "gate", "update"} :
          /\ op' = [op EXCEPT ![p] = what]
          /\ what = "approve" => op[p] = "approve_sent"
          /\ what = "reboot" => op[p] = "reboot_sent"
    BY <1>6 DEF Handle, Start
  <2>2. /\ op' \in [Procs -> Ops] /\ held' \in [Procs -> Remediation]
        /\ req' \in [Procs -> Hashes]
        /\ AllVouched' /\ RequestsRecorded'
    <3> DEFINE r == rem
    <3>1. r \in Remediation /\ Vouched(r) /\ what \in Ops
      BY <1>t DEF TypeOK, AllVouched, Ops
    <3>2. rem' \in Remediation /\ Vouched(rem)'
      BY <1>6, <1>t DEF Handle, TypeOK, AllVouched, Vouched
    <3>3. /\ held' = [held EXCEPT ![p] = r]
          /\ UNCHANGED <<req, confirmed, rebootConfirmed>>
      BY <1>6 DEF Handle
    <3> HIDE DEF r
    <3> QED
      BY <2>1, <3>1, <3>2, <3>3, HoldStep
  <2> QED
    BY <1>6, <1>t, <2>2, NothingExecuted DEF Handle, IInv, TypeOK
<1>7. ASSUME NEW p \in Procs, EnsureCurrentPlan(p) PROVE IInv'
  <2>1. PICK from \in {"approve", "reboot"}, to \in {"approve_checked", "reboot_checked"} :
          /\ EnsureCurrent(p, from, to)
          /\ to = "approve_checked" => from = "approve"
          /\ to = "reboot_checked" => from = "reboot"
    BY <1>7 DEF EnsureCurrentPlan
  <2> DEFINE r == Reconciled(held[p])
  <2>2. r \in Remediation /\ Vouched(r)
    BY <1>t, <2>1, ReconciledType DEF TypeOK, AllVouched, Vouched, EnsureCurrent
  <2>3. rem' \in Remediation /\ Vouched(rem)'
    <3>1. rem' \in {rem, r} /\ UNCHANGED <<confirmed, rebootConfirmed>>
      BY <2>1 DEF EnsureCurrent, Save
    <3> HIDE DEF r
    <3> QED
      BY <1>t, <2>2, <3>1 DEF TypeOK, AllVouched, Vouched
  <2>4. /\ op' \in [Procs -> Ops] /\ held' \in [Procs -> Remediation]
        /\ req' \in [Procs -> Hashes]
        /\ AllVouched' /\ RequestsRecorded'
    <3>1. /\ held' = [held EXCEPT ![p] = r] /\ op' = [op EXCEPT ![p] = to]
          /\ UNCHANGED <<req, confirmed, rebootConfirmed>>
          /\ op[p] = from /\ to \in Ops
      BY <2>1 DEF EnsureCurrent, Ops
    <3> HIDE DEF r
    <3> QED
      BY <2>1, <2>2, <2>3, <3>1, HoldStep
  <2> QED
    BY <1>t, <2>1, <2>3, <2>4, NothingExecuted DEF EnsureCurrent, IInv, TypeOK
<1>8. ASSUME NEW p \in Procs, ApprovePlan(p) PROVE IInv'
  <2>1. held[p] \in Remediation /\ Vouched(held[p]) /\ req[p] \in confirmed
    BY <1>8, <1>t DEF ApprovePlan, TypeOK, AllVouched, RequestsRecorded
  <2>2. CanApprove(held[p], req[p]) => Approved(held[p]).approved \in confirmed
    BY <2>1 DEF CanApprove, RequestNames, Approved, Remediation
  <2>3. /\ Approved(held[p]) \in Remediation
        /\ Approved(held[p]).rebooted = NoHash
    BY <2>1 DEF Approved, Remediation
  <2>4. rem' \in Remediation /\ Vouched(rem)'
    BY <1>8, <1>t, <2>2, <2>3 DEF ApprovePlan, Save, TypeOK, AllVouched, Vouched
  <2> QED
    BY <1>8, <1>t, <2>4, DoneStep, NothingExecuted DEF ApprovePlan, IInv, TypeOK
<1>9. ASSUME NEW p \in Procs, ApproveReboot(p) PROVE IInv'
  <2>1. /\ held[p] \in Remediation /\ Vouched(held[p])
        /\ req[p] \in rebootConfirmed
    BY <1>9, <1>t DEF ApproveReboot, TypeOK, AllVouched, RequestsRecorded
  <2> DEFINE approved == RebootApproved(held[p])
             blocked == [held[p] EXCEPT !.reboot = "blocked"]
  <2>2. CanApproveReboot(held[p], req[p]) => approved.rebooted \in rebootConfirmed
    BY <2>1 DEF CanApproveReboot, RequestNames, RebootApproved, Remediation
  <2>3. /\ approved \in Remediation /\ approved.approved = held[p].approved
        /\ blocked \in Remediation /\ blocked.approved = held[p].approved
        /\ blocked.rebooted = held[p].rebooted
    BY <2>1 DEF RebootApproved, Remediation
  <2>4. \/ rem' = held[p]
        \/ CanApproveReboot(held[p], req[p]) /\ rem' \in {approved, blocked}
    BY <1>9 DEF ApproveReboot, Save
  <2>5. rem' \in Remediation /\ Vouched(rem)'
    <3> HIDE DEF approved, blocked
    <3> QED
      BY <1>9, <1>t, <2>1, <2>2, <2>3, <2>4
         DEF ApproveReboot, TypeOK, AllVouched, Vouched
  <2> QED
    BY <1>9, <1>t, <2>5, DoneStep, NothingExecuted DEF ApproveReboot, IInv, TypeOK
<1>10. ASSUME NEW p \in Procs, RejectPlan(p) PROVE IInv'
  <2>1. held[p] \in Remediation /\ Vouched(held[p])
    BY <1>t DEF TypeOK, AllVouched
  <2>2. /\ Rejected(held[p]) \in Remediation
        /\ Rejected(held[p]).approved = held[p].approved
        /\ Rejected(held[p]).rebooted = held[p].rebooted
    BY <2>1 DEF Rejected, Remediation
  <2>3. rem' \in Remediation /\ Vouched(rem)'
    BY <1>10, <1>t, <2>1, <2>2 DEF RejectPlan, Save, TypeOK, AllVouched, Vouched
  <2> QED
    BY <1>10, <1>t, <2>3, DoneStep, NothingExecuted DEF RejectPlan, IInv, TypeOK
<1>11. ASSUME NEW p \in Procs, SaveExecutionState(p) PROVE IInv'
  <2>1. rem' \in Remediation /\ Vouched(rem)'
    BY <1>11, <1>t DEF SaveExecutionState, Save, TypeOK, AllVouched, Vouched
  <2> QED
    BY <1>11, <1>t, <2>1, DoneStep, NothingExecuted
       DEF SaveExecutionState, IInv, TypeOK
<1>12. ASSUME NEW p \in Procs, CheckGate(p) PROVE IInv'
  <2> DEFINE r == Reconciled(held[p])
  <2>1. r \in Remediation /\ Vouched(r)
    BY <1>12, <1>t, ReconciledType DEF TypeOK, AllVouched, Vouched, CheckGate
  <2>2. rem' \in Remediation /\ Vouched(rem)'
    <3>1. rem' \in {rem, r} /\ UNCHANGED <<confirmed, rebootConfirmed>>
      BY <1>12 DEF CheckGate, Save
    <3> HIDE DEF r
    <3> QED
      BY <1>t, <2>1, <3>1 DEF TypeOK, AllVouched, Vouched
  <2>3. UNCHANGED <<never, jobs, confirmed, rebootConfirmed, executed>>
    BY <1>12 DEF CheckGate
  <2>4. CASE r = held[p]
    <3>1. op' = [op EXCEPT ![p] = "gate_checked"] /\ UNCHANGED <<held, req>>
      BY <1>12, <2>4 DEF CheckGate
    <3> QED
      BY <1>t, <2>2, <2>3, <3>1, NothingExecuted
         DEF IInv, TypeOK, Ops, AllVouched, Vouched, RequestsRecorded
  <2>5. CASE r # held[p]
    <3>1. Done(p)
      BY <1>12, <2>5 DEF CheckGate
    <3> QED
      BY <1>t, <2>2, <2>3, <3>1, DoneStep, NothingExecuted DEF IInv, TypeOK
  <2> QED
    BY <2>4, <2>5
<1>13. ASSUME NEW p \in Procs, Execute(p) PROVE IInv'
  <2>1. held[p] \in Remediation /\ Vouched(held[p]) /\ held[p].hash \in Hashes
    BY <1>t DEF TypeOK, AllVouched, Remediation
  <2>2. rem' \in Remediation /\ Vouched(rem)'
    BY <1>13, <1>t DEF Execute, TypeOK, AllVouched, Vouched
  <2>3. \/ executed' = executed
        \/ /\ executed' = executed \cup {held[p].hash}
           /\ held[p].hash \in jobs /\ held[p].hash \in confirmed
           /\ held[p].hash.content \in Risky => held[p].hash \in rebootConfirmed
    BY <1>13, <2>1, TrustedIsVouched DEF Execute
  <2>4. JobWasConfirmed' /\ ExecutedPlanWasConfirmed' /\ executed' \subseteq Hashes
    BY <1>13, <1>t, <2>1, <2>3
       DEF Execute, IInv, TypeOK, JobWasConfirmed, ExecutedPlanWasConfirmed
  <2> QED
    BY <1>13, <1>t, <2>2, <2>4, DoneStep DEF Execute, IInv, TypeOK
<1>14. CASE UNCHANGED vars
  BY <1>14, <1>t DEF vars, IInv, TypeOK, AllVouched, Vouched, RequestsRecorded,
                     JobWasConfirmed, ExecutedPlanWasConfirmed
<1> QED
  BY <1>1, <1>2, <1>3, <1>4, <1>5, <1>6, <1>7, <1>8, <1>9, <1>10, <1>11,
     <1>12, <1>13, <1>14 DEF Next

(* The strengthened invariant holds in every reachable state.              *)
THEOREM InductiveInvariant == Spec => []IInv
  BY InitIInv, StepIInv, PTL DEF Spec

(* The stored plan, the copies held by processes and the histories keep    *)
(* their types.                                                            *)
THEOREM TypeCorrect == Spec => []TypeOK
<1>1. IInv => TypeOK
  BY DEF IInv
<1> QED
  BY InductiveInvariant, <1>1, PTL

(* The gate runs only what operators confirmed: exactly that version and   *)
(* hash, and a reboot only by its own confirmation, whatever the processes *)
(* and unlocked saves do to each other.                                    *)
THEOREM ConfirmationSafety == Spec => []ExecutedPlanWasConfirmed
<1>1. IInv => ExecutedPlanWasConfirmed
  BY DEF IInv
<1> QED
  BY InductiveInvariant, <1>1, PTL

(* Everything executed has a job, and every job a confirmation.            *)
THEOREM JobSafety == Spec => []JobWasConfirmed
<1>1. IInv => JobWasConfirmed
  BY DEF IInv
<1> QED
  BY InductiveInvariant, <1>1, PTL

=============================================================================
