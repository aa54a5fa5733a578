------------------------------- MODULE MCScans -------------------------------
(* Model checking instance of ScanSchedule and of Analysis, which is what  *)
(* a scan computes between its steps Collect and Propose.  They share no   *)
(* state, so each is explored with the other at rest: subject says which   *)
(* of the two moves.                                                       *)
EXTENDS ScanSchedule, Analysis, TLC

Symmetry == Permutations(Workers) \cup Permutations(Hosts)

VARIABLE subject

MCInit ==
  /\ Init /\ AnalysisInit /\ subject \in {"schedule", "analysis"}
  /\ subject = "schedule" => /\ host = CHOOSE p \in Policies : TRUE
                             /\ seen = CHOOSE s \in Snapshots : TRUE

MCNext ==
  \/ subject = "schedule" /\ Next /\ UNCHANGED <<analysisVars, subject>>
  \/ subject = "analysis" /\ AnalysisNext /\ UNCHANGED <<vars, subject>>

MCSpec == MCInit /\ [][MCNext]_<<vars, analysisVars, subject>>

MCBudgets ==
  {[requests |-> 1, losses |-> 0, deaths |-> 1],
   [requests |-> 0, losses |-> 1, deaths |-> 1]}

MCPolicies == {p \in AllPolicies : p.careful => p.mode = "orchestrator_decides"}

PlainUpdate == [security |-> FALSE, reboots |-> FALSE]

MCSnapshots ==
  [failed : BOOLEAN, auth : {FALSE}, kernel : BOOLEAN, held : BOOLEAN,
   disk : {"ample", "critical"}, marker : BOOLEAN,
   updates : {{}, {PlainUpdate}, {PlainUpdate, [security |-> TRUE, reboots |-> FALSE]},
              {PlainUpdate, [security |-> FALSE, reboots |-> TRUE]}}]

MCReviewAnswers ==
  [response : Reviews \cup {"error"}, claims : {{}, {"kernel_health", "patching"}}]

MCPlanAnswers ==
  [status : {"plan_ready"}, scope : Scopes, risk : {"info", "high"},
   conflicts : BOOLEAN]
  \cup [status : {"insufficient_evidence", "other", "error"}, scope : {"other"},
        risk : {"other"}, conflicts : {FALSE}]

=============================================================================
