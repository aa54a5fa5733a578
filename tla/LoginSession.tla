------------------------------ MODULE LoginSession ------------------------------
(***************************************************************************)
(* Logging in, the sessions that follow, and the limiter that counts the   *)
(* attempts of a client: in Redis with an expiry that a second call sets,  *)
(* or in the memory of the API where Redis does not answer.                *)
(*                                                                         *)
(* The API is one process and its handlers do not pause, so each is a      *)
(* step.  Time is counted down: every expiry is what is left of it.        *)
(***************************************************************************)
EXTENDS Integers

CONSTANTS
  Clients,          \* rate limit keys: an address and a user name
  Tokens,           \* session tokens; each is drawn once
  MaximumAttempts, Window, SessionTtl,
  MaxFaults         \* bound: calls to Redis that fail, and deaths of the API

ASSUME LoginAssumption ==
  /\ MaximumAttempts \in Nat \ {0} /\ Window \in Nat \ {0} /\ SessionTtl \in Nat \ {0}
  /\ MaxFaults \in Nat

(* An expiry that was never set.                                           *)
Forever == Window + 1

(* Counts above the limit are not told apart.                              *)
Over == MaximumAttempts + 1
Counters == [count : 0 .. Over, left : 0 .. Forever]
NoCounter == [count |-> 0, left |-> 0]

VARIABLES
  counter,       \* the counters in Redis; a count of 0 is no key
  memory,        \* the counters in the API
  session,       \* the stored sessions: who, and for how long yet
  drawn,         \* the tokens drawn so far
  cookie,        \* the token each client's browser holds, or none: a set
  faults,
  seen,          \* history: what an observer of each client has counted
  apart,         \* history: clients that memory counted beside Redis
  restarted      \* history: whether the API lost what its memory counted

loginVars == <<counter, memory, session, drawn, cookie, faults, seen, apart, restarted>>

Sessions == [of : Clients, token : Tokens, left : 0 .. SessionTtl]

(* An observer watches a client for as long as a window lasts, begun at    *)
(* any tick, and counts the wrong passwords checked since it began or the  *)
(* last login, by what let them through.                                   *)
Observers == [left : 1 .. Window, redis : Nat, memory : Nat]
Fresh(left) == [left |-> left, redis |-> 0, memory |-> 0]

LoginTypeOK ==
  /\ counter \in [Clients -> Counters]
  /\ memory \in [Clients -> Counters] /\ \A c \in Clients : memory[c].left # Forever
  /\ session \subseteq Sessions /\ drawn \subseteq Tokens
  /\ \A s, t \in session : s.token = t.token => s = t
  /\ \A s \in session : s.token \in drawn
  /\ cookie \in [Clients -> SUBSET drawn]
  /\ faults \in 0 .. MaxFaults
  /\ seen \in [Clients -> Observers] /\ apart \subseteq Clients
  /\ restarted \in BOOLEAN

LoginInit ==
  /\ counter = [c \in Clients |-> NoCounter] /\ memory = counter
  /\ session = {} /\ drawn = {} /\ cookie = [c \in Clients |-> {}]
  /\ faults = 0 /\ seen = [c \in Clients |-> Fresh(Window)] /\ apart = {}
  /\ restarted = FALSE

-----------------------------------------------------------------------------

OneMore(k) == IF k.count = Over THEN Over ELSE k.count + 1

(* Mutant: every attempt sets the expiry, not the first alone.             *)
MutCounted(k) == [count |-> OneMore(k), left |-> Window]

(* incr, and expire at the first attempt.                                  *)
Counted(k) == [count |-> OneMore(k), left |-> IF k.count = 0 THEN Window ELSE k.left]

(* incr alone: expire raises, or is never reached.                         *)
CountedForGood(k) == [Counted(k) EXCEPT !.left = IF k.count = 0 THEN Forever ELSE @]

(* _allow_memory.                                                          *)
Remembered(k) == IF k.left = 0 THEN [count |-> 1, left |-> Window]
                 ELSE [count |-> OneMore(k), left |-> k.left]

(* LoginRateLimiter.allow: Redis answers; it counts the first attempt and  *)
(* the expiry fails, so that memory counts it too; or nothing reaches it.  *)
Outcomes(c) == {"answers", "fails"} \cup (IF counter[c].count = 0 THEN {"counts"} ELSE {})

InRedis(c, redis) ==
  CASE redis = "answers" -> Counted(counter[c])
    [] redis = "counts" -> CountedForGood(counter[c])
    [] redis = "fails" -> counter[c]

InMemory(c, redis) == IF redis = "answers" THEN memory[c] ELSE Remembered(memory[c])

Allow(c, redis) ==
  LET k == IF redis = "answers" THEN InRedis(c, redis) ELSE InMemory(c, redis)
  IN  k.count <= MaximumAttempts

Unless(fine) == IF fine THEN UNCHANGED faults
                ELSE faults < MaxFaults /\ faults' = faults + 1

(* A wrong password that the limiter lets through is checked, and seen.    *)
Checked(c, redis) ==
  seen' = IF ~Allow(c, redis) THEN seen
          ELSE IF redis = "answers" THEN [seen EXCEPT ![c].redis = @ + 1]
          ELSE [seen EXCEPT ![c].memory = @ + 1]

CountedApart(c, redis) == apart' = IF redis = "answers" THEN apart ELSE apart \cup {c}

(* Mutant: the limiter is reset before the password is verified.           *)
MutRefuse(c) ==
  \E redis \in Outcomes(c) :
    /\ Unless(redis = "answers") /\ CountedApart(c, redis)
    /\ counter' = [counter EXCEPT ![c] = IF Allow(c, redis) THEN NoCounter
                                         ELSE InRedis(c, redis)]
    /\ memory' = [memory EXCEPT ![c] = InMemory(c, redis)]
    /\ Checked(c, redis)
    /\ UNCHANGED <<session, drawn, cookie, restarted>>

(* POST /auth/login that is refused, or whose password is wrong.           *)
Refuse(c) ==
  \E redis \in Outcomes(c) :
    /\ Unless(redis = "answers") /\ CountedApart(c, redis)
    /\ counter' = [counter EXCEPT ![c] = InRedis(c, redis)]
    /\ memory' = [memory EXCEPT ![c] = InMemory(c, redis)]
    /\ Checked(c, redis)
    /\ UNCHANGED <<session, drawn, cookie, restarted>>

(* POST /auth/login with the right password: the limiter is reset in       *)
(* memory, and in Redis if that answers, and a session is stored.          *)
Login(c) ==
  \E redis \in Outcomes(c), cleared \in BOOLEAN, t \in Tokens \ drawn :
    /\ Allow(c, redis)
    /\ Unless(redis = "answers" /\ cleared) /\ CountedApart(c, redis)
    /\ counter' = [counter EXCEPT ![c] = IF cleared THEN NoCounter ELSE InRedis(c, redis)]
    /\ memory' = [memory EXCEPT ![c] = NoCounter]
    /\ seen' = [seen EXCEPT ![c] = Fresh(seen[c].left)]
    /\ session' = session \cup {[of |-> c, token |-> t, left |-> SessionTtl]}
    /\ drawn' = drawn \cup {t} /\ cookie' = [cookie EXCEPT ![c] = {t}]
    /\ UNCHANGED restarted

(* _active_session: a session found expired is deleted.                    *)
Active(t) == {s \in session : s.token = t /\ s.left > 0}
Encounter(t) == session' = session \ {s \in session : s.token = t /\ s.left = 0}

(* A request the session is looked up for, and that changes nothing else.  *)
Request(c) ==
  /\ \E t \in cookie[c] : Encounter(t)
  /\ UNCHANGED <<counter, memory, drawn, cookie, faults, seen, apart, restarted>>

(* POST /auth/logout by a session that is still active.                    *)
Logout(c) ==
  /\ \E t \in cookie[c] : Active(t) # {} /\ session' = {s \in session : s.token # t}
  /\ cookie' = [cookie EXCEPT ![c] = {}]
  /\ UNCHANGED <<counter, memory, drawn, faults, seen, apart, restarted>>

(* The API dies and comes back: memory is empty, and the attempt it was at *)
(* may have been counted without an expiry.                                *)
Restart ==
  /\ Unless(FALSE) /\ restarted' = TRUE
  /\ memory' = [c \in Clients |-> NoCounter]
  /\ \/ \E c \in Clients : counter' = [counter EXCEPT ![c] = CountedForGood(@)]
     \/ UNCHANGED counter
  /\ UNCHANGED <<session, drawn, cookie, seen, apart>>

-----------------------------------------------------------------------------

Down(n) == IF n = 0 THEN 0 ELSE n - 1

(* An expired key is gone from Redis; memory and the stored sessions keep  *)
(* what has expired until it is looked at.                                 *)
Expire(k) == IF k.left = Forever THEN k
             ELSE IF k.left <= 1 THEN NoCounter ELSE [k EXCEPT !.left = @ - 1]

LoginTick ==
  /\ counter' = [c \in Clients |-> Expire(counter[c])]
  /\ memory' = [c \in Clients |-> [memory[c] EXCEPT !.left = Down(@)]]
  /\ session' = {[s EXCEPT !.left = Down(@)] : s \in session}
  /\ \E begun \in SUBSET Clients :
       seen' = [c \in Clients |-> IF c \in begun \/ seen[c].left = 1 THEN Fresh(Window)
                                 ELSE [seen[c] EXCEPT !.left = @ - 1]]
  /\ UNCHANGED <<drawn, cookie, faults, apart, restarted>>

LoginNext ==
  \/ \E c \in Clients : Refuse(c) \/ Login(c) \/ Request(c) \/ Logout(c)
  \/ Restart \/ LoginTick

LoginFairness == WF_loginVars(LoginTick)
LoginSpec == LoginInit /\ [][LoginNext]_loginVars /\ LoginFairness

-----------------------------------------------------------------------------
(* However the attempts are timed, fewer than twice the limit of wrong     *)
(* passwords are checked in any window, and fewer than four times where    *)
(* memory counted some of them, until a login succeeds or the API starts   *)
(* anew.                                                                   *)
GuessesAreBounded ==
  \A c \in Clients :
    ~restarted =>
      seen[c].redis + seen[c].memory < (IF c \in apart THEN 4 ELSE 2) * MaximumAttempts

(* A client that is locked out is let in again, even while it goes on      *)
(* asking, unless the expiry of its counter was lost.                      *)
LockoutEnds ==
  \A c \in Clients :
    /\ counter[c].count >= MaximumAttempts
         ~> \/ counter[c].count < MaximumAttempts
            \/ counter[c].left = Forever
    /\ memory[c].count >= MaximumAttempts /\ memory[c].left > 0
         ~> memory[c].count < MaximumAttempts \/ memory[c].left = 0

=============================================================================
