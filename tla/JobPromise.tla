----------------------------- MODULE JobPromise -----------------------------
(***************************************************************************)
(* What the durable job layer promises its callers, with no clocks, leases *)
(* or copies: a job is worked on by at most one entitled worker at a time, *)
(* is attempted at most MaxAttempts times, and once it has an outcome      *)
(* keeps it.  tries[j] counts the attempts of a job that may have another; *)
(* one that has ended needs no count.                                      *)
(*                                                                         *)
(* live[j] is the set of workers entitled to act for job j right now.      *)
(* Entitlement ends by the passing of time or when the holder lets go; it  *)
(* is never taken away.                                                    *)
(***************************************************************************)
EXTENDS Integers

CONSTANTS Jobs, Workers, MaxAttempts

VARIABLES state, tries, live

pvars == <<state, tries, live>>

States == {"absent", "waiting", "held", "done", "dead", "canceled"}

PTypeOK ==
  /\ state \in [Jobs -> States]
  /\ tries \in [Jobs -> 0..MaxAttempts]
  /\ live \in [Jobs -> SUBSET Workers]

PInit ==
  /\ state = [j \in Jobs |-> "absent"]
  /\ tries = [j \in Jobs |-> 0]
  /\ live = [j \in Jobs |-> {}]

Accept(j) ==
  /\ state[j] = "absent"
  /\ state' = [state EXCEPT ![j] = "waiting"]
  /\ UNCHANGED <<tries, live>>

Withdraw(j) ==
  /\ state[j] = "waiting"
  /\ live[j] = {}
  /\ state' = [state EXCEPT ![j] = "canceled"]
  /\ tries' = [tries EXCEPT ![j] = 0]
  /\ UNCHANGED live

(* An attempt starts only when nobody is entitled to the job.              *)
Start(j, w) ==
  /\ state[j] \in {"waiting", "held"}
  /\ live[j] = {}
  /\ tries[j] < MaxAttempts
  /\ state' = [state EXCEPT ![j] = "held"]
  /\ tries' = [tries EXCEPT ![j] = @ + 1]
  /\ \E L \in SUBSET {w} : live' = [live EXCEPT ![j] = L]

(* The holder stays, or becomes again, entitled.                           *)
Renew(j, w) ==
  /\ state[j] = "held"
  /\ live[j] \subseteq {w}
  /\ \E L \in SUBSET {w} : live' = [live EXCEPT ![j] = L]
  /\ UNCHANGED <<state, tries>>

(* The holder ends its attempt.                                            *)
Settle(j, w) ==
  /\ state[j] = "held"
  /\ live[j] \subseteq {w}
  /\ \E s \in {"done", "dead", "waiting"} :
       /\ s = "waiting" => tries[j] < MaxAttempts
       /\ state' = [state EXCEPT ![j] = s]
       /\ tries' = [tries EXCEPT ![j] = IF s = "waiting" THEN @ ELSE 0]
  /\ live' = [live EXCEPT ![j] = {}]

(* Jobs whose holder is no longer entitled are taken from it, together.    *)
Reclaim ==
  /\ \E S \in SUBSET {j \in Jobs : state[j] = "held" /\ live[j] = {}} :
       /\ state' = [j \in Jobs |->
                      IF j \notin S THEN state[j]
                      ELSE IF tries[j] < MaxAttempts THEN "waiting" ELSE "dead"]
       /\ tries' = [j \in Jobs |->
                      IF j \in S /\ tries[j] >= MaxAttempts THEN 0 ELSE tries[j]]
  /\ UNCHANGED live

(* Time passes, or a worker forgets the job.                               *)
Lapse ==
  /\ UNCHANGED <<state, tries>>
  /\ live' \in [Jobs -> SUBSET Workers]
  /\ \A j \in Jobs : live'[j] \subseteq live[j]

PNext ==
  \/ Lapse
  \/ \E j \in Jobs : Accept(j) \/ Withdraw(j)
  \/ \E j \in Jobs, w \in Workers : Start(j, w) \/ Renew(j, w) \/ Settle(j, w)
  \/ Reclaim

PSpec == PInit /\ [][PNext]_pvars

=============================================================================
