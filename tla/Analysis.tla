------------------------------- MODULE Analysis -------------------------------
(***************************************************************************)
(* The agents' workflow on one host snapshot, from the findings of the two *)
(* specialists over their reviews of each other and the verifier to the    *)
(* plan of the orchestrator.  The policy is deterministic; the providers   *)
(* only answer, and may answer anything, or fail.                          *)
(*                                                                         *)
(* Texts, tokens and the answer cache are left out: a cached answer is an  *)
(* answer.  The names say "Analysis" where a module that EXTENDS this one  *)
(* beside ScanSchedule needs them to.                                      *)
(***************************************************************************)
EXTENDS Integers

CONSTANTS
  Policies,        \* what the hosts under study ask for
  Snapshots,       \* what the collector may have found on them
  ReviewAnswers,   \* what a provider may answer to a peer review
  PlanAnswers      \* what a provider may answer to the orchestrator

Severities == {"info", "low", "medium", "high", "critical"}
Rank == [info |-> 0, low |-> 1, medium |-> 2, high |-> 3, critical |-> 4]

Scopes == {"all", "security", "none"}

(* A package update: whether it fixes a security issue, and whether its    *)
(* name announces a reboot.                                                *)
Updates == [security : BOOLEAN, reboots : BOOLEAN]

(* What the policy tells apart: units that failed, login failures, kernel  *)
(* errors, packages on hold, how full the root is, the pending updates,    *)
(* and the reboot marker.                                                  *)
AllSnapshots ==
  [failed : BOOLEAN, auth : BOOLEAN, kernel : BOOLEAN, held : BOOLEAN,
   disk : {"ample", "low", "critical"}, updates : SUBSET Updates, marker : BOOLEAN]

(* careful: high criticality, or high availability.                        *)
AllPolicies ==
  [mode : {"orchestrator_decides", "all", "security"}, careful : BOOLEAN]

Claims == {"service_health", "authentication", "kernel_health",
           "patching", "capacity", "held"}

Reviews == {"confirm", "challenge", "request_evidence", "not_applicable"}

(* "error": no provider, a provider that failed, or an answer that is not  *)
(* of the form asked for.  "other" is any word that is not expected.       *)
AllReviewAnswers ==
  [response : Reviews \cup {"other", "error"}, claims : SUBSET Claims]

AllPlanAnswers ==
  [status : {"plan_ready", "insufficient_evidence", "other", "error"},
   scope : Scopes \cup {"other"}, risk : Severities \cup {"other"},
   conflicts : BOOLEAN]

ASSUME AnalysisAssumption ==
  /\ Policies \subseteq AllPolicies
  /\ Snapshots \subseteq AllSnapshots
  /\ ReviewAnswers \subseteq AllReviewAnswers
  /\ PlanAnswers \subseteq AllPlanAnswers

-----------------------------------------------------------------------------
(* The findings of the specialists.                                        *)

LogClaims(s) ==
  {c \in {"service_health", "authentication", "kernel_health"} :
     \/ c = "service_health" /\ s.failed
     \/ c = "authentication" /\ s.auth
     \/ c = "kernel_health" /\ s.kernel}

StateClaims(s) ==
  {c \in {"patching", "capacity", "held"} :
     \/ c = "patching" /\ s.updates # {}
     \/ c = "capacity" /\ s.disk # "ample"
     \/ c = "held" /\ s.held}

Severity(c, s) ==
  CASE c = "service_health" -> "high"
    [] c = "kernel_health" -> "critical"
    [] c = "capacity" -> IF s.disk = "critical" THEN "critical" ELSE "medium"
    [] c = "patching" -> IF \E u \in s.updates : u.security THEN "high" ELSE "medium"
    [] OTHER -> "medium"

Category(c) == IF c = "held" THEN "patching" ELSE c

(* What a finding cites, all of it collected on every scan.                *)
Cites(c) ==
  CASE c = "service_health" -> {"serviceSummary.failedUnits", "logs.journal"}
    [] c = "authentication" -> {"logs.auth"}
    [] c = "kernel_health" -> {"logs.kernel"}
    [] c = "patching" -> {"commands.upgradable_packages"}
    [] c = "capacity" -> {"systemSummary.diskUsagePercent"}
    [] OTHER -> {"commands.held_packages"}

EvidenceRegistry ==
  {"serviceSummary.failedUnits", "logs.journal", "logs.auth", "logs.kernel",
   "systemSummary.diskUsagePercent", "commands.upgradable_packages",
   "commands.held_packages"}

-----------------------------------------------------------------------------
(* The review of one specialist's claims by the other.                     *)

High(c, s) == Severity(c, s) \in {"high", "critical"}

RelevantClaims(own, other, s) ==
  {c \in other : /\ own # {}
                 /\ \/ \E d \in own : High(d, s) \/ Category(d) = Category(c)
                    \/ High(c, s)}

DeterministicReview(claims) ==
  LET uncited == {c \in claims : Cites(c) = {}}
  IN  IF uncited = {} THEN [response |-> "confirm", claims |-> claims]
      ELSE [response |-> "request_evidence", claims |-> uncited]

(* A provider cannot take back a request for evidence, and cannot speak of *)
(* claims it was not shown.                                                *)
ValidateReview(answer, relevant, fallback) ==
  [response |-> IF fallback.response # "request_evidence" /\ answer.response \in Reviews
                THEN answer.response ELSE fallback.response,
   claims |-> IF answer.claims \cap relevant # {} THEN answer.claims \cap relevant
              ELSE fallback.claims]

PeerReview(own, other, s, answer) ==
  LET relevant == RelevantClaims(own, other, s)
      fallback == DeterministicReview(relevant)
  IN  IF relevant = {} THEN [response |-> "not_applicable", claims |-> {}]
      ELSE IF answer.response = "error" THEN fallback
      ELSE ValidateReview(answer, relevant, fallback)

(* Mutant: only a challenge is a conflict.                                 *)
MutConflicting(message) == message.response = "challenge"

Conflicting(message) == message.response \in {"challenge", "request_evidence"}

(* DeterministicVerifier: every claim here has a known action and enough   *)
(* confidence, so its citations and the reviews decide.                    *)
Rejected(claims, messages) ==
  {c \in claims : \/ Cites(c) = {} \/ ~(Cites(c) \subseteq EvidenceRegistry)
                  \/ \E m \in messages : Conflicting(m) /\ c \in m.claims}

-----------------------------------------------------------------------------
(* The orchestrator.                                                       *)

(* validate_orchestrator_response.  Conflicts are only ever added, and any *)
(* of them leaves the evidence insufficient.                               *)
ValidatePlan(answer, fallback) ==
  [scope  |-> IF answer.scope \in Scopes THEN answer.scope ELSE fallback.scope,
   risk   |-> IF answer.risk \in Severities THEN answer.risk ELSE fallback.risk,
   status |-> IF fallback.status = "insufficient_evidence" \/ answer.conflicts
              THEN "insufficient_evidence"
              ELSE IF answer.status = "other" THEN fallback.status
              ELSE answer.status]

(* The response of synthesize, in which a host's own scope has the last    *)
(* word.                                                                   *)
Response(h, s, findings, conflict, answer) ==
  LET decided == h.mode \in {"all", "security"}
      fallback ==
        [scope  |-> IF decided THEN h.mode
                    ELSE IF s.updates # {} THEN "all" ELSE "none",
         risk   |-> IF findings # {} THEN "high" ELSE "info",
         status |-> IF conflict THEN "insufficient_evidence" ELSE "plan_ready"]
      response == IF answer.status = "error" THEN fallback
                  ELSE ValidatePlan(answer, fallback)
  IN  IF decided THEN [response EXCEPT !.scope = h.mode] ELSE response

Selected(s, scope) == {u \in s.updates : scope = "all" \/ u.security}

(* Mutant: the reboot hints of every pending update count, or of none.     *)
MutAssessReboot(s, scope) ==
  IF s.marker THEN "required"
  ELSE IF Selected(s, scope) = {} THEN "not_expected" ELSE "unknown"

AssessReboot(s, scope) ==
  IF s.marker THEN "required"
  ELSE IF \E u \in Selected(s, scope) : u.reboots THEN "required_after_patch"
  ELSE IF Selected(s, scope) # {} THEN "unknown"
  ELSE "not_expected"

(* Mutant: the risk a provider asks for is kept when it is a high one.     *)
MutEnforceRisk(h, s, requested, reboot) ==
  IF Rank[requested] >= Rank["high"] THEN requested
  ELSE IF s.disk = "critical" THEN "critical"
  ELSE IF \/ h.careful \/ s.failed
          \/ reboot \in {"required", "required_after_patch"} THEN "high"
  ELSE IF Rank[requested] >= Rank["medium"] THEN requested ELSE "medium"

EnforceRisk(h, s, requested, reboot) ==
  LET required == IF s.disk = "critical" THEN "critical"
                  ELSE IF \/ h.careful \/ s.failed
                          \/ reboot \in {"required", "required_after_patch"}
                  THEN "high" ELSE "medium"
  IN  IF Rank[requested] >= Rank[required] THEN requested ELSE required

Rollout(h, risk) ==
  IF h.careful \/ risk \in {"high", "critical"} THEN "one_at_a_time"
  ELSE "canary_then_batches"

(* _build_remediation: at most one plan.                                   *)
BuildPlan(h, s, response) ==
  IF \/ response.status # "plan_ready" \/ response.scope = "none"
     \/ s.updates = {}
  THEN {}
  ELSE LET reboot == AssessReboot(s, response.scope)
           risk == EnforceRisk(h, s, response.risk, reboot)
       IN  {[scope |-> response.scope, reboot |-> reboot, risk |-> risk,
             rollout |-> Rollout(h, risk)]}

-----------------------------------------------------------------------------
(* MultiAgentWorkflow.run.                                                 *)

VARIABLES
  stage,         \* how far the workflow is
  host,          \* the policy of the host it looks at
  seen,          \* the snapshot
  review,        \* what each agent said of the other's claims
  rejected,      \* the claims the verifier rejected
  plan           \* the plan of the orchestrator, if there is one

analysisVars == <<stage, host, seen, review, rejected, plan>>

Agents == {"log", "state"}

Messages == [response : Reviews, claims : SUBSET Claims]

NoMessage == [response |-> "not_applicable", claims |-> {}]

ClaimsOf(agent, s) == IF agent = "log" THEN LogClaims(s) ELSE StateClaims(s)
AllClaims(s) == LogClaims(s) \cup StateClaims(s)

AnalysisTypeOK ==
  /\ stage \in {"reviewing", "verifying", "planning", "done"}
  /\ host \in AllPolicies /\ seen \in AllSnapshots
  /\ review \in [Agents -> Messages]
  /\ rejected \subseteq AllClaims(seen)
  /\ plan \subseteq [scope : {"all", "security"}, risk : Severities,
                    reboot : {"required", "required_after_patch", "unknown",
                              "not_expected"},
                    rollout : {"one_at_a_time", "canary_then_batches"}]

AnalysisInit ==
  /\ stage = "reviewing"
  /\ host \in Policies /\ seen \in Snapshots
  /\ review = [agent \in Agents |-> NoMessage]
  /\ rejected = {} /\ plan = {}

(* Both agents review the other's claims, from the same two reports.       *)
ReviewPeers ==
  /\ stage = "reviewing" /\ stage' = "verifying"
  /\ \E ofLog, ofState \in ReviewAnswers :
       review' = [agent \in Agents |->
         IF agent = "log"
         THEN PeerReview(LogClaims(seen), StateClaims(seen), seen, ofLog)
         ELSE PeerReview(StateClaims(seen), LogClaims(seen), seen, ofState)]
  /\ UNCHANGED <<host, seen, rejected, plan>>

VerifyFindings ==
  /\ stage = "verifying" /\ stage' = "planning"
  /\ rejected' = Rejected(AllClaims(seen), {review[agent] : agent \in Agents})
  /\ UNCHANGED <<host, seen, review, plan>>

Disputed == rejected # {} \/ \E agent \in Agents : Conflicting(review[agent])

Synthesize ==
  /\ stage = "planning" /\ stage' = "done"
  /\ \E answer \in PlanAnswers :
       plan' = BuildPlan(host, seen,
                 Response(host, seen, AllClaims(seen) \ rejected, Disputed, answer))
  /\ UNCHANGED <<host, seen, review, rejected>>

AnalysisNext == ReviewPeers \/ VerifyFindings \/ Synthesize

AnalysisSpec == AnalysisInit /\ [][AnalysisNext]_analysisVars

-----------------------------------------------------------------------------
(* A plan is made only over evidence nobody disputes: whatever a provider  *)
(* says to the orchestrator, it cannot make one over a claim that a review *)
(* challenged, or asked evidence for.                                      *)
NoPlanOverConflict ==
  plan # {} =>
    /\ rejected = {}
    /\ \A agent \in Agents :
         review[agent].response \notin {"challenge", "request_evidence"}

(* No provider talks the risk of a plan down below what its host asks for: *)
(* a full disk, a failed unit, a reboot to expect, a host to be careful    *)
(* with.  And the risk decides how the plan is rolled out.                 *)
RiskHasAFloor ==
  \A p \in plan :
    /\ seen.disk = "critical" => p.risk = "critical"
    /\ \/ seen.failed \/ host.careful \/ seen.marker
       \/ \E u \in Selected(seen, p.scope) : u.reboots
       => p.risk \in {"high", "critical"}
    /\ p.risk \in {"high", "critical"} => p.rollout = "one_at_a_time"

(* A plan selects updates in the host's own scope, and announces the       *)
(* reboot they will need, whichever scope a provider preferred.            *)
RebootIsAnnounced ==
  \A p \in plan :
    /\ host.mode # "orchestrator_decides" => p.scope = host.mode
    /\ p.reboot = "not_expected" =>
         ~seen.marker /\ \A u \in seen.updates : p.scope = "security" /\ ~u.security
    /\ p.reboot = "unknown" =>
         \A u \in seen.updates : u.reboots => p.scope = "security" /\ ~u.security

=============================================================================
