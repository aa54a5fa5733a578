---------------------------- MODULE InventoryProofs ----------------------------
(***************************************************************************)
(* For any number of hosts, credentials, connection tests and deaths of    *)
(* the API: a host that no late writer touched keeps its schedule and the  *)
(* snapshot credential its platform accepts.  At the end LoginSession: for *)
(* any clients, limit and window, the guesses that can be seen in a window *)
(* are bounded by what the counters of Redis and of memory let through.    *)
(***************************************************************************)
EXTENDS Inventory, LoginSession, TLAPS

TestsAreOfHosts == \A r \in testing : r.id \in everMade

(* Either both of host and schedule are there, or none.                    *)
Paired(h) == RowsOf(h) # {} <=> h \in scheduled

(* What validation made sure of when the row was written still holds.      *)
Valid(h) == \A r \in RowsOf(h) : ValidateHostInput(r.input)

Whole == \A h \in everMade \ undone : Paired(h) /\ Valid(h)

IInv == InventoryTypeOK /\ TestsAreOfHosts /\ Whole

LEMMA WholeHosts == Whole <=> HostsAreWhole
BY DEF Whole, Paired, Valid, HostsAreWhole, ValidateHostInput

LEMMA SavedRows ==
  ASSUME NEW h, NEW input, SaveHost(h, input)
  PROVE  /\ RowsOf(h)' = {[id |-> h, input |-> input]}
         /\ \A k : k # h => RowsOf(k)' = RowsOf(k)
BY DEF SaveHost, RowsOf

LEMMA DeletedRows ==
  ASSUME NEW h, host' = host \ RowsOf(h)
  PROVE  /\ RowsOf(h)' = {}
         /\ \A k : k # h => RowsOf(k)' = RowsOf(k)
BY DEF RowsOf

LEMMA SavedTypes ==
  ASSUME InventoryTypeOK, NEW h \in Hosts, NEW input \in HostInputs,
         SaveHost(h, input), h \in everMade', everMade \subseteq everMade'
  PROVE  /\ host' \subseteq Rows
         /\ \A r \in host' : r.id \in everMade'
         /\ \A r, q \in host' : r.id = q.id => r = q
BY DEF InventoryTypeOK, SaveHost, RowsOf, Rows

(* A validated input stays valid as long as its credential is kept.        *)
LEMMA KeptCredentials ==
  ASSUME UNCHANGED credential, NEW input
  PROVE  ValidateHostInput(input)' = ValidateHostInput(input)
BY DEF ValidateHostInput, Present

LEMMA SavedIsValid ==
  ASSUME NEW h, NEW input, SaveHost(h, input), UNCHANGED credential,
         ValidateHostInput(input)
  PROVE  RowsOf(h)' # {} /\ Valid(h)'
<1>1. RowsOf(h)' = {[id |-> h, input |-> input]}
  BY SavedRows
<1>2. ASSUME NEW r \in RowsOf(h)'
      PROVE  ValidateHostInput(r.input)'
  <2>1. r.input = input
    BY <1>1
  <2>2. ValidateHostInput(input)'
    BY KeptCredentials
  <2> QED
    BY <2>1, <2>2
<1> QED
  BY <1>1, <1>2 DEF Valid

-----------------------------------------------------------------------------

LEMMA CreateWhole ==
  ASSUME IInv, NEW h \in Hosts, NEW input \in HostInputs, CreateHost(h, input)
  PROVE  IInv'
<1> USE DEF IInv
<1>1. everMade' = everMade \cup {h} /\ SaveHost(h, input) /\ UNCHANGED credential
      /\ UNCHANGED <<listed, testing>>
  BY DEF CreateHost
<1>2. InventoryTypeOK' /\ TestsAreOfHosts'
  BY <1>1, SavedTypes, InventoryAssumption
     DEF CreateHost, Dies, InventoryTypeOK, TestsAreOfHosts
<1>3. ASSUME NEW k \in everMade' \ undone', k # h
      PROVE  Paired(k)' /\ Valid(k)'
  <2>1. k \in everMade \ undone /\ (k \in scheduled' <=> k \in scheduled)
    BY <1>1, <1>3 DEF CreateHost
  <2>2. RowsOf(k)' = RowsOf(k)
    BY <1>1, <1>3, SavedRows
  <2> QED
    BY <1>1, <2>1, <2>2, KeptCredentials DEF Whole, Paired, Valid
<1>4. ASSUME h \notin undone'
      PROVE  Paired(h)' /\ Valid(h)'
  <2>1. h \in scheduled'
    BY <1>4 DEF CreateHost
  <2>2. ValidateHostInput(input)
    BY DEF CreateHost
  <2> QED
    BY <1>1, <2>1, <2>2, SavedIsValid DEF Paired
<1> QED
  BY <1>1, <1>2, <1>3, <1>4 DEF Whole

LEMMA UpdateWhole ==
  ASSUME IInv, NEW h \in Hosts, NEW input \in HostInputs, UpdateHost(h, input)
  PROVE  IInv'
<1> USE DEF IInv
<1>1. /\ SaveHost(h, input) /\ ValidateHostInput(input) /\ RowsOf(h) # {}
      /\ UNCHANGED <<everMade, credential, scheduled, listed, testing, deaths>>
      /\ undone' = IF h \in scheduled THEN undone \ {h} ELSE undone
  BY DEF UpdateHost
<1>2. h \in everMade
  BY <1>1 DEF InventoryTypeOK, RowsOf
<1>3. InventoryTypeOK' /\ TestsAreOfHosts'
  BY <1>1, <1>2, SavedTypes DEF InventoryTypeOK, TestsAreOfHosts
<1>4. ASSUME NEW k \in everMade' \ undone', k # h
      PROVE  Paired(k)' /\ Valid(k)'
  <2>1. k \in everMade \ undone
    BY <1>1, <1>4
  <2>2. RowsOf(k)' = RowsOf(k)
    BY <1>1, <1>4, SavedRows
  <2> QED
    BY <1>1, <2>1, <2>2, KeptCredentials DEF Whole, Paired, Valid
<1>5. ASSUME h \notin undone'
      PROVE  Paired(h)' /\ Valid(h)'
  <2>1. h \in scheduled
    BY <1>1, <1>2, <1>5 DEF Whole, Paired
  <2> QED
    BY <1>1, <2>1, SavedIsValid DEF Paired
<1> QED
  BY <1>3, <1>4, <1>5 DEF Whole

LEMMA DeleteWhole ==
  ASSUME IInv, NEW h \in Hosts, DeleteHost(h)
  PROVE  IInv'
<1> USE DEF IInv
<1>1. /\ scheduled' = scheduled \ {h} /\ RowsOf(h) # {}
      /\ UNCHANGED <<everMade, credential, listed, testing>>
  BY DEF DeleteHost
<1>2. h \in everMade
  BY <1>1 DEF InventoryTypeOK, RowsOf
<1>3. InventoryTypeOK' /\ TestsAreOfHosts'
  BY <1>1, <1>2, InventoryAssumption
     DEF DeleteHost, Dies, InventoryTypeOK, TestsAreOfHosts
<1>4. ASSUME NEW k \in everMade' \ undone', k # h
      PROVE  Paired(k)' /\ Valid(k)'
  <2>1. k \in everMade \ undone /\ (k \in scheduled' <=> k \in scheduled)
    BY <1>1, <1>4 DEF DeleteHost
  <2>2. RowsOf(k)' = RowsOf(k)
    <3>1. CASE host' = host \ RowsOf(h)
      BY <1>4, <3>1, DeletedRows
    <3>2. CASE UNCHANGED host
      BY <3>2 DEF RowsOf
    <3> QED
      BY <3>1, <3>2 DEF DeleteHost
  <2> QED
    BY <1>1, <2>1, <2>2, KeptCredentials DEF Whole, Paired, Valid
<1>5. ASSUME h \notin undone'
      PROVE  Paired(h)' /\ Valid(h)'
  <2>1. host' = host \ RowsOf(h)
    BY <1>5 DEF DeleteHost
  <2> QED
    BY <1>1, <2>1, DeletedRows DEF Paired, Valid
<1> QED
  BY <1>3, <1>4, <1>5 DEF Whole

LEMMA TestWhole ==
  ASSUME IInv, NEW r \in testing, FinishTest(r)
  PROVE  IInv'
<1> USE DEF IInv
<1>1. UNCHANGED <<everMade, credential, scheduled, listed, deaths>>
      /\ testing' = testing \ {r}
  BY DEF FinishTest
<1>2. r \in Rows /\ r.id \in everMade /\ r.id \in Hosts /\ r.input \in HostInputs
      /\ r = [id |-> r.id, input |-> r.input]
  BY DEF InventoryTypeOK, TestsAreOfHosts, Rows
<1>3. CASE UNCHANGED <<host, undone>>
  <2>1. InventoryTypeOK' /\ TestsAreOfHosts'
    BY <1>1, <1>3 DEF InventoryTypeOK, TestsAreOfHosts
  <2>2. \A k : RowsOf(k)' = RowsOf(k)
    BY <1>3 DEF RowsOf
  <2> QED
    BY <1>1, <1>3, <2>1, <2>2, KeptCredentials DEF Whole, Paired, Valid
<1>4. CASE /\ SaveHost(r.id, r.input)
           /\ undone' = IF r \in host THEN undone ELSE undone \cup {r.id}
  <2>1. InventoryTypeOK' /\ TestsAreOfHosts'
    BY <1>1, <1>2, <1>4, SavedTypes DEF InventoryTypeOK, TestsAreOfHosts
  <2>2. ASSUME NEW k \in everMade' \ undone', k # r.id
        PROVE  Paired(k)' /\ Valid(k)'
    <3>1. k \in everMade \ undone /\ RowsOf(k)' = RowsOf(k)
      BY <1>1, <1>4, <2>2, SavedRows
    <3> QED
      BY <1>1, <3>1, KeptCredentials DEF Whole, Paired, Valid
  <2>3. ASSUME r.id \notin undone'
        PROVE  Paired(r.id)' /\ Valid(r.id)'
    <3>1. r \in RowsOf(r.id) /\ r.id \in everMade \ undone
      BY <1>2, <1>4, <2>3 DEF RowsOf
    <3>2. RowsOf(r.id)' = {r}
      BY <1>2, <1>4, SavedRows
    <3> QED
      BY <1>1, <3>1, <3>2, KeptCredentials DEF Whole, Paired, Valid
  <2> QED
    BY <2>1, <2>2, <2>3 DEF Whole
<1> QED
  BY <1>3, <1>4 DEF FinishTest

(* The credentials of platforms are of the types that are stored.          *)
LEMMA PlatformTypes ==
  ASSUME NEW p \in Platforms
  PROVE  /\ AllowedTypes[p] \subseteq CredentialTypes
         /\ "unused" \notin AllowedTypes[p] /\ "deleted" \notin AllowedTypes[p]
<1>1. p \in {"proxmox", "aws", "vmware", "libvirt"}
  BY InventoryAssumption DEF AllowedTypes
<1> QED
  BY <1>1 DEF AllowedTypes, CredentialTypes

LEMMA CredentialWhole ==
  ASSUME IInv, NEW c \in Credentials, SaveCredential(c) \/ DeleteCredential(c)
  PROVE  IInv'
<1> USE DEF IInv
<1>1. UNCHANGED <<host, everMade, scheduled, listed, testing, deaths, undone>>
  BY DEF SaveCredential, DeleteCredential
<1>2. PICK type \in CredentialTypes \cup {"unused", "deleted"} :
        credential' = [credential EXCEPT ![c] = type]
  BY DEF SaveCredential, DeleteCredential
<1>3. InventoryTypeOK' /\ TestsAreOfHosts'
  BY <1>1, <1>2 DEF InventoryTypeOK, TestsAreOfHosts
<1>4. \A k : RowsOf(k)' = RowsOf(k)
  BY <1>1 DEF RowsOf
<1>5. ASSUME NEW k \in everMade \ undone, NEW r \in RowsOf(k)
      PROVE  ValidateHostInput(r.input)'
  <2>0. r \in host /\ r.input \in HostInputs /\ ValidateHostInput(r.input)
    BY <1>5 DEF InventoryTypeOK, RowsOf, Rows, Whole, Valid
  <2>1. CASE r.input.platform = "none"
    BY <2>1 DEF ValidateHostInput
  <2>2. CASE r.input.platform # "none"
    <3> DEFINE s == r.input.snapshot
    <3>1. /\ r.input.platform \in Platforms
          /\ Present(s) /\ credential[s] \in AllowedTypes[r.input.platform]
      BY <2>0, <2>2 DEF HostInputs, ValidateHostInput
    <3>2. s # c
      <4>1. SaveCredential(c) => credential[c] = "unused"
        BY DEF SaveCredential
      <4>2. DeleteCredential(c) => s # c
        BY <2>0 DEF DeleteCredential
      <4> QED
        BY <3>1, <4>1, <4>2, PlatformTypes
    <3>3. s \in Credentials /\ credential'[s] = credential[s]
      BY <1>2, <3>1, <3>2 DEF Present, InventoryTypeOK
    <3> QED
      BY <3>1, <3>3 DEF ValidateHostInput, Present
  <2> QED
    BY <2>1, <2>2
<1> QED
  BY <1>1, <1>3, <1>4, <1>5 DEF Whole, Paired, Valid

LEMMA ScheduleWhole ==
  ASSUME IInv, ListDueSchedules \/ \E h \in Hosts : PutSchedule(h) \/ StartTest(h)
  PROVE  IInv'
<1> USE DEF IInv
<1>1. UNCHANGED <<host, everMade, credential, deaths, undone>>
  BY DEF ListDueSchedules, PutSchedule, StartTest
<1>2. \A k : RowsOf(k)' = RowsOf(k)
  BY <1>1 DEF RowsOf
<1>3. \A k : k \in scheduled' <=> k \in scheduled \/ (k \in scheduled' /\ RowsOf(k) # {})
  BY DEF ListDueSchedules, PutSchedule, StartTest
<1>4. InventoryTypeOK' /\ TestsAreOfHosts'
  BY <1>1 DEF ListDueSchedules, PutSchedule, StartTest, RowsOf, InventoryTypeOK,
              TestsAreOfHosts
<1> QED
  BY <1>1, <1>2, <1>3, <1>4, KeptCredentials DEF Whole, Paired, Valid

LEMMA SaveListedWhole ==
  ASSUME IInv, NEW h \in Hosts, SaveListed(h)
  PROVE  IInv'
<1> USE DEF IInv
<1>1. /\ UNCHANGED <<host, everMade, credential, testing, deaths>>
      /\ h \in listed /\ scheduled' = scheduled \cup {h} /\ listed' \subseteq listed
      /\ undone' = IF RowsOf(h) = {} THEN undone \cup {h} ELSE undone
  BY DEF SaveListed
<1>2. \A k : RowsOf(k)' = RowsOf(k)
  BY <1>1 DEF RowsOf
<1>3. InventoryTypeOK' /\ TestsAreOfHosts'
  BY <1>1 DEF InventoryTypeOK, TestsAreOfHosts
<1> QED
  BY <1>1, <1>2, <1>3, KeptCredentials DEF Whole, Paired, Valid

-----------------------------------------------------------------------------

LEMMA InitWhole == InventoryInit => IInv
BY InventoryAssumption DEF InventoryInit, IInv, InventoryTypeOK, TestsAreOfHosts, Whole

LEMMA StepWhole == IInv /\ [InventoryNext]_inventoryVars => IInv'
<1> SUFFICES ASSUME IInv, [InventoryNext]_inventoryVars PROVE IInv'
  OBVIOUS
<1>1. CASE InventoryNext
  BY <1>1, CreateWhole, UpdateWhole, DeleteWhole, TestWhole, CredentialWhole,
     ScheduleWhole, SaveListedWhole DEF InventoryNext
<1>2. CASE UNCHANGED inventoryVars
  <2>1. \A k : RowsOf(k)' = RowsOf(k)
    BY <1>2 DEF inventoryVars, RowsOf
  <2> QED
    BY <1>2, <2>1, KeptCredentials
       DEF inventoryVars, IInv, InventoryTypeOK, TestsAreOfHosts, Whole, Paired, Valid
<1> QED
  BY <1>1, <1>2

(* IInv holds in every reachable state: rows, schedules and tests are of   *)
(* hosts that were made, and what validation asked for still holds.        *)
THEOREM InductiveInvariant == InventorySpec => []IInv
<1> QED
  BY InitWhole, StepWhole, PTL DEF InventorySpec

(* create_host, update_host, delete_host and delete_credential_record keep *)
(* hosts whole: a credential is never deleted under the host whose         *)
(* snapshots need it, and host and schedule come and go together.          *)
THEOREM WholenessHolds == InventorySpec => []HostsAreWhole
<1>1. IInv => HostsAreWhole
  BY WholeHosts DEF IInv
<1> QED
  BY <1>1, InductiveInvariant, PTL

(* Its first conjunct: hosts, rows, schedules and tests are of their types. *)
THEOREM InventoryTypesHold == InventorySpec => []InventoryTypeOK
<1>1. IInv => InventoryTypeOK
  BY DEF IInv
<1> QED
  BY <1>1, InductiveInvariant, PTL

-----------------------------------------------------------------------------
(* Logins.  An observer has seen a number of wrong passwords let through   *)
(* by a counter.  A counter that ends before the observer's window began   *)
(* before it, and counted all of them; one that outlasts it may have been  *)
(* preceded by another, which let through fewer than the limit.            *)
Fits(k, left, n) ==
  /\ k.left > 0 => k.count > 0
  /\ k.left < left => /\ n <= MaximumAttempts - 1
                      /\ k.left > 0 => n <= k.count - 1
  /\ k.left >= left => /\ n <= MaximumAttempts - 1 + k.count
                       /\ n <= 2 * MaximumAttempts - 1

(* A key of Redis is there exactly as long as its expiry runs.             *)
Live(k) == k.count = 0 <=> k.left = 0

RedisFits(c) == Live(counter[c]) /\ Fits(counter[c], seen[c].left, seen[c].redis)

(* Memory lets through nothing for a client it did not count.              *)
MemoryFits(c) ==
  /\ ~restarted => Fits(memory[c], seen[c].left, seen[c].memory)
  /\ c \notin apart => seen[c].memory = 0

LInv == LoginTypeOK /\ \A c \in Clients : RedisFits(c) /\ MemoryFits(c)

LEMMA CounterTypes ==
  ASSUME NEW k \in Counters
  PROVE  /\ k.count \in 0 .. MaximumAttempts + 1 /\ k.left \in 0 .. Window + 1
         /\ OneMore(k) \in 1 .. MaximumAttempts + 1
         /\ Counted(k) \in Counters /\ CountedForGood(k) \in Counters
         /\ Remembered(k) \in Counters /\ NoCounter \in Counters
         /\ Expire(k) \in Counters /\ [k EXCEPT !.left = Down(@)] \in Counters
<1>1. k.count \in 0 .. MaximumAttempts + 1 /\ k.left \in 0 .. Window + 1
  BY DEF Counters, Over, Forever
<1>2. OneMore(k) \in 1 .. MaximumAttempts + 1
  BY <1>1, LoginAssumption DEF OneMore, Over
<1>3. Counted(k) \in Counters /\ Remembered(k) \in Counters /\ NoCounter \in Counters
  BY <1>1, <1>2, LoginAssumption
     DEF Counted, Remembered, NoCounter, Counters, Over, Forever
<1>4. CountedForGood(k) = [count |-> OneMore(k),
                           left |-> IF k.count = 0 THEN Forever ELSE k.left]
  BY DEF CountedForGood, Counted
<1>5. CountedForGood(k) \in Counters
  BY <1>1, <1>2, <1>4, LoginAssumption DEF Counters, Over, Forever
<1>6. Down(k.left) \in 0 .. Window + 1
  BY <1>1, LoginAssumption DEF Down
<1>7. Expire(k) \in Counters /\ [k EXCEPT !.left = Down(@)] \in Counters
  BY <1>1, <1>3, <1>6, LoginAssumption DEF Expire, Counters, Forever
<1> QED
  BY <1>1, <1>2, <1>3, <1>5, <1>7

LEMMA NoCounterTypes ==
  /\ NoCounter \in Counters /\ NoCounter.left # Forever /\ Live(NoCounter)
  /\ NoCounter.left > 0 => NoCounter.count > 0
BY LoginAssumption DEF NoCounter, Counters, Over, Forever, Live

LEMMA LiveCounts ==
  ASSUME NEW k \in Counters, Live(k)
  PROVE  k.left > 0 => k.count > 0
<1>1. k.count \in 0 .. MaximumAttempts + 1 /\ k.left \in 0 .. Window + 1
  BY CounterTypes
<1> QED
  BY <1>1, LoginAssumption DEF Live

(* Memory never keeps a counter for good.                                  *)
LEMMA RememberedIsLive ==
  ASSUME NEW k \in Counters
  PROVE  /\ Live(Remembered(k))
         /\ k.left # Forever => Remembered(k).left # Forever
<1>1. /\ k.left \in 0 .. Window + 1 /\ OneMore(k) \in 1 .. MaximumAttempts + 1
  BY CounterTypes
<1>2. CASE k.left = 0
  <2>1. Remembered(k).count = 1 /\ Remembered(k).left = Window
    BY <1>2 DEF Remembered
  <2> QED
    BY <2>1, LoginAssumption DEF Live, Forever
<1>3. CASE k.left # 0
  <2>1. Remembered(k).count = OneMore(k) /\ Remembered(k).left = k.left
    BY <1>3 DEF Remembered
  <2> QED
    BY <1>1, <1>3, <2>1, LoginAssumption DEF Live
<1> QED
  BY <1>2, <1>3

(* Where expiry and count agree, Redis and memory count alike.             *)
LEMMA CountedAlike ==
  ASSUME NEW k \in Counters, Live(k)
  PROVE  Counted(k) = Remembered(k)
<1>1. k.count = 0 => OneMore(k) = 1
  BY LoginAssumption DEF OneMore, Over
<1> QED
  BY <1>1 DEF Live, Counted, Remembered

(* An attempt that the counter lets through, or refuses.                   *)
LEMMA RememberedFits ==
  ASSUME NEW k \in Counters, NEW left \in 1 .. Window, NEW n \in Nat, Fits(k, left, n)
  PROVE  LET next == Remembered(k)
         IN  /\ next.left > 0
             /\ Fits(next, left, IF next.count <= MaximumAttempts THEN n + 1 ELSE n)
<1>1. k.count \in 0 .. MaximumAttempts + 1 /\ k.left \in 0 .. Window + 1
  BY CounterTypes
<1>2. CASE k.left = 0
  <2>1. Remembered(k).count = 1 /\ Remembered(k).left = Window
    BY <1>2 DEF Remembered
  <2> QED
    BY <1>1, <1>2, <2>1, LoginAssumption DEF Fits
<1>3. CASE k.left # 0
  <2>1. Remembered(k).count = OneMore(k) /\ Remembered(k).left = k.left
    BY <1>3 DEF Remembered
  <2>2. OneMore(k) = IF k.count = MaximumAttempts + 1 THEN MaximumAttempts + 1
                     ELSE k.count + 1
    BY DEF OneMore, Over
  <2> QED
    BY <1>1, <1>3, <2>1, <2>2, LoginAssumption DEF Fits
<1> QED
  BY <1>2, <1>3

(* An attempt counted without an expiry, that memory decides.              *)
LEMMA CountedForGoodFits ==
  ASSUME NEW k \in Counters, NEW left \in 1 .. Window, NEW n \in Nat,
         Fits(k, left, n), Live(k)
  PROVE  Live(CountedForGood(k)) /\ Fits(CountedForGood(k), left, n)
<1>1. k.count \in 0 .. MaximumAttempts + 1 /\ k.left \in 0 .. Window + 1
  BY CounterTypes
<1>2. /\ CountedForGood(k).count = OneMore(k)
      /\ CountedForGood(k).left = IF k.count = 0 THEN Window + 1 ELSE k.left
  BY DEF CountedForGood, Counted, Forever
<1>3. OneMore(k) = IF k.count = MaximumAttempts + 1 THEN MaximumAttempts + 1
                   ELSE k.count + 1
  BY DEF OneMore, Over
<1> QED
  BY <1>1, <1>2, <1>3, LoginAssumption DEF Fits, Live

(* An observer who has seen nothing fits every counter.                    *)
LEMMA NothingFits ==
  ASSUME NEW k \in Counters, NEW left \in 1 .. Window, k.left > 0 => k.count > 0
  PROVE  Fits(k, left, 0)
<1>1. k.count \in 0 .. MaximumAttempts + 1 /\ k.left \in 0 .. Window + 1
  BY CounterTypes
<1> QED
  BY <1>1, LoginAssumption DEF Fits

(* Time passes for the counter and its observer alike.                     *)
LEMMA TickFits ==
  ASSUME NEW k \in Counters, NEW left \in 1 .. Window, NEW n \in Nat, Fits(k, left, n)
  PROVE  /\ Live(k) => Live(Expire(k))
         /\ Expire(k).left > 0 => Expire(k).count > 0
         /\ left # 1 => Fits(Expire(k), left - 1, n)
         /\ k.left # Forever => /\ Down(k.left) > 0 => k.count > 0
                                /\ left # 1 => Fits([k EXCEPT !.left = Down(@)], left - 1, n)
<1>1. k.count \in 0 .. MaximumAttempts + 1 /\ k.left \in 0 .. Window + 1
  BY CounterTypes
<1>2. CASE k.left = Forever
  BY <1>1, <1>2, LoginAssumption DEF Expire, Fits, Live, Forever
<1>3. CASE k.left # Forever
  <2>1. /\ Expire(k).count = IF k.left <= 1 THEN 0 ELSE k.count
        /\ Expire(k).left = IF k.left <= 1 THEN 0 ELSE k.left - 1
    BY <1>1, <1>3 DEF Expire, NoCounter, Counters
  <2>2. Down(k.left) = IF k.left = 0 THEN 0 ELSE k.left - 1
    BY DEF Down
  <2>3. /\ [k EXCEPT !.left = Down(@)].count = k.count
        /\ [k EXCEPT !.left = Down(@)].left = Down(k.left)
    BY DEF Counters
  <2>4. (Live(k) => Live(Expire(k))) /\ (Expire(k).left > 0 => Expire(k).count > 0)
    BY <1>1, <2>1, LoginAssumption DEF Live, Fits
  <2>5. left # 1 => Fits(Expire(k), left - 1, n)
    BY <1>1, <2>1, LoginAssumption DEF Fits
  <2>6. Down(k.left) > 0 => k.count > 0
    BY <1>1, <2>2 DEF Fits
  <2>7. left # 1 => Fits([k EXCEPT !.left = Down(@)], left - 1, n)
    BY <1>1, <2>2, <2>3, LoginAssumption DEF Fits
  <2> QED
    BY <2>4, <2>5, <2>6, <2>7
<1> QED
  BY <1>2, <1>3

-----------------------------------------------------------------------------

(* The types of a counter, its twin in memory and the observer of both.    *)
LEMMA ClientTypes ==
  ASSUME LoginTypeOK, NEW c \in Clients
  PROVE  /\ counter[c] \in Counters /\ memory[c] \in Counters
         /\ seen[c] \in Observers /\ seen[c].left \in 1 .. Window
         /\ seen[c].redis \in Nat /\ seen[c].memory \in Nat
         /\ memory[c].left # Forever
BY DEF LoginTypeOK, Observers

(* What a step leaves alone of a client still fits.                        *)
LEMMA StillFits ==
  ASSUME NEW c \in Clients, RedisFits(c), MemoryFits(c),
         counter[c]' = counter[c], memory[c]' = memory[c], seen[c]' = seen[c],
         UNCHANGED restarted, c \in apart' <=> c \in apart
  PROVE  RedisFits(c)' /\ MemoryFits(c)'
BY DEF RedisFits, MemoryFits, Live, Fits

(* The limiter's half of an attempt, whatever Redis does.                  *)
LEMMA AttemptFits ==
  ASSUME LInv, NEW c \in Clients, NEW redis \in Outcomes(c)
  PROVE  LET k == InRedis(c, redis)
             m == InMemory(c, redis)
             o == seen[c]
             allowed == Allow(c, redis)
             byRedis == redis = "answers"
         IN  /\ k \in Counters /\ m \in Counters /\ m.left # Forever
             /\ Live(k)
             /\ Fits(k, o.left, IF allowed /\ byRedis THEN o.redis + 1 ELSE o.redis)
             /\ ~restarted =>
                  Fits(m, o.left, IF allowed /\ ~byRedis THEN o.memory + 1 ELSE o.memory)
<1> USE DEF LInv
<1>1. /\ counter[c] \in Counters /\ memory[c] \in Counters /\ seen[c].left \in 1 .. Window
      /\ seen[c].redis \in Nat /\ seen[c].memory \in Nat /\ memory[c].left # Forever
  BY ClientTypes
<1>2. /\ Live(counter[c]) /\ Fits(counter[c], seen[c].left, seen[c].redis)
      /\ ~restarted => Fits(memory[c], seen[c].left, seen[c].memory)
  BY DEF RedisFits, MemoryFits
<1>3. Remembered(memory[c]) \in Counters /\ Remembered(memory[c]).left # Forever
  BY <1>1, CounterTypes, RememberedIsLive
<1>4. CASE redis = "answers"
  <2>1. /\ InRedis(c, redis) = Remembered(counter[c]) /\ InMemory(c, redis) = memory[c]
        /\ Allow(c, redis) <=> Remembered(counter[c]).count <= MaximumAttempts
    BY <1>1, <1>2, <1>4, CountedAlike DEF InRedis, InMemory, Allow
  <2>2. Live(Remembered(counter[c]))
    BY <1>1, RememberedIsLive
  <2> QED
    BY <1>1, <1>2, <1>4, <2>1, <2>2, CounterTypes, RememberedFits
<1>5. CASE redis # "answers"
  <2>1. /\ InMemory(c, redis) = Remembered(memory[c])
        /\ Allow(c, redis) <=> Remembered(memory[c]).count <= MaximumAttempts
    BY <1>5 DEF InMemory, Allow
  <2>2. InRedis(c, redis) \in {counter[c], CountedForGood(counter[c])}
    BY <1>5 DEF InRedis, Outcomes
  <2>3. /\ InRedis(c, redis) \in Counters /\ Live(InRedis(c, redis))
        /\ Fits(InRedis(c, redis), seen[c].left, seen[c].redis)
    BY <1>1, <1>2, <2>2, CounterTypes, CountedForGoodFits
  <2> QED
    BY <1>1, <1>2, <1>3, <1>5, <2>1, <2>3, RememberedFits
<1> QED
  BY <1>4, <1>5

LEMMA RefuseFits ==
  ASSUME LInv, NEW c \in Clients, Refuse(c)
  PROVE  LInv'
<1> USE DEF LInv
<1>1. PICK redis \in Outcomes(c) :
        /\ Unless(redis = "answers") /\ CountedApart(c, redis)
        /\ counter' = [counter EXCEPT ![c] = InRedis(c, redis)]
        /\ memory' = [memory EXCEPT ![c] = InMemory(c, redis)]
        /\ Checked(c, redis)
        /\ UNCHANGED <<session, drawn, cookie, restarted>>
  BY DEF Refuse
<1>2. /\ counter \in [Clients -> Counters] /\ memory \in [Clients -> Counters]
      /\ seen \in [Clients -> Observers] /\ apart \subseteq Clients
      /\ faults \in 0 .. MaxFaults
  BY DEF LoginTypeOK
<1> DEFINE let == Allow(c, redis)
           byRedis == redis = "answers"
<1>3. /\ counter[c]' = InRedis(c, redis) /\ memory[c]' = InMemory(c, redis)
      /\ \A d \in Clients \ {c} : counter[d]' = counter[d] /\ memory[d]' = memory[d]
  BY <1>1, <1>2
<1>4. /\ seen' \in [Clients -> Observers]
      /\ seen[c].left' = seen[c].left
      /\ seen[c].redis' = IF let /\ byRedis THEN seen[c].redis + 1 ELSE seen[c].redis
      /\ seen[c].memory' = IF let /\ ~byRedis THEN seen[c].memory + 1 ELSE seen[c].memory
      /\ \A d \in Clients \ {c} : seen[d]' = seen[d]
  <2>1. CASE ~let
    BY <1>1, <1>2, <2>1 DEF Checked
  <2>2. CASE let /\ byRedis
    BY <1>1, <1>2, <2>2 DEF Checked, Observers
  <2>3. CASE let /\ ~byRedis
    BY <1>1, <1>2, <2>3 DEF Checked, Observers
  <2> QED
    BY <2>1, <2>2, <2>3
<1>5. /\ apart' \subseteq Clients /\ (byRedis => apart' = apart) /\ (~byRedis => c \in apart')
      /\ \A d \in Clients \ {c} : d \in apart' <=> d \in apart
  BY <1>1, <1>2 DEF CountedApart
<1>6. faults' \in 0 .. MaxFaults
  BY <1>1, <1>2, LoginAssumption DEF Unless
<1>7. /\ InRedis(c, redis) \in Counters /\ InMemory(c, redis) \in Counters
      /\ InMemory(c, redis).left # Forever /\ Live(InRedis(c, redis))
      /\ Fits(InRedis(c, redis), seen[c].left, seen[c].redis')
      /\ ~restarted => Fits(InMemory(c, redis), seen[c].left, seen[c].memory')
  BY <1>4, AttemptFits
<1>8. LoginTypeOK'
  BY <1>1, <1>2, <1>3, <1>4, <1>5, <1>6, <1>7 DEF LoginTypeOK
<1>9. RedisFits(c)' /\ MemoryFits(c)'
  <2>1. RedisFits(c)'
    BY <1>3, <1>4, <1>7 DEF RedisFits, Live, Fits
  <2>2. ~restarted' => Fits(memory[c], seen[c].left, seen[c].memory)'
    BY <1>1, <1>3, <1>4, <1>7 DEF Fits
  <2>3. c \notin apart' => seen[c].memory' = 0
    BY <1>4, <1>5 DEF MemoryFits
  <2> QED
    BY <2>1, <2>2, <2>3 DEF MemoryFits
<1>10. \A d \in Clients \ {c} : RedisFits(d)' /\ MemoryFits(d)'
  BY <1>1, <1>3, <1>4, <1>5, StillFits
<1> QED
  BY <1>8, <1>9, <1>10

LEMMA LoginFits ==
  ASSUME LInv, NEW c \in Clients, Login(c)
  PROVE  LInv'
<1> USE DEF LInv
<1>1. PICK redis \in Outcomes(c), cleared \in BOOLEAN, t \in Tokens \ drawn :
        /\ Unless(redis = "answers" /\ cleared) /\ CountedApart(c, redis)
        /\ counter' = [counter EXCEPT ![c] = IF cleared THEN NoCounter
                                             ELSE InRedis(c, redis)]
        /\ memory' = [memory EXCEPT ![c] = NoCounter]
        /\ seen' = [seen EXCEPT ![c] = Fresh(seen[c].left)]
        /\ session' = session \cup {[of |-> c, token |-> t, left |-> SessionTtl]}
        /\ drawn' = drawn \cup {t} /\ cookie' = [cookie EXCEPT ![c] = {t}]
        /\ UNCHANGED restarted
  BY DEF Login
<1>2. /\ counter \in [Clients -> Counters] /\ memory \in [Clients -> Counters]
      /\ seen \in [Clients -> Observers] /\ apart \subseteq Clients
      /\ faults \in 0 .. MaxFaults
  BY DEF LoginTypeOK
<1>3. InRedis(c, redis) \in Counters /\ Live(InRedis(c, redis))
  BY AttemptFits
<1>4. InRedis(c, redis).left > 0 => InRedis(c, redis).count > 0
  BY <1>3, LiveCounts
<1>5. NoCounter \in Counters /\ NoCounter.left # Forever
  BY NoCounterTypes
<1>6. /\ counter' \in [Clients -> Counters] /\ memory' \in [Clients -> Counters]
      /\ counter[c]' = (IF cleared THEN NoCounter ELSE InRedis(c, redis))
      /\ memory[c]' = NoCounter
      /\ \A d \in Clients \ {c} : counter[d]' = counter[d] /\ memory[d]' = memory[d]
  BY <1>1, <1>2, <1>3, <1>5
<1>7. /\ seen' \in [Clients -> Observers]
      /\ seen[c].left' = seen[c].left /\ seen[c].redis' = 0 /\ seen[c].memory' = 0
      /\ \A d \in Clients \ {c} : seen[d]' = seen[d]
  BY <1>1, <1>2 DEF Fresh, Observers
<1>8. apart' \subseteq Clients /\ \A d \in Clients \ {c} : d \in apart' <=> d \in apart
  BY <1>1, <1>2 DEF CountedApart
<1>9. faults' \in 0 .. MaxFaults
  BY <1>1, <1>2, LoginAssumption DEF Unless
<1>10. /\ session' \subseteq Sessions /\ drawn' \subseteq Tokens
       /\ \A s, u \in session' : s.token = u.token => s = u
       /\ \A s \in session' : s.token \in drawn'
  BY <1>1, LoginAssumption DEF LoginTypeOK, Sessions
<1>11. cookie' \in [Clients -> SUBSET drawn']
  BY <1>1 DEF LoginTypeOK
<1>12. LoginTypeOK'
  BY <1>1, <1>2, <1>5, <1>6, <1>7, <1>8, <1>9, <1>10, <1>11 DEF LoginTypeOK
<1>13. RedisFits(c)' /\ MemoryFits(c)'
  <2>1. seen[c].left \in 1 .. Window
    BY ClientTypes
  <2>2. /\ Live(counter[c]') /\ Fits(counter[c]', seen[c].left, 0)
        /\ Fits(memory[c]', seen[c].left, 0)
    BY <1>3, <1>4, <1>5, <1>6, <2>1, NothingFits, NoCounterTypes
  <2> QED
    BY <1>7, <2>2 DEF RedisFits, MemoryFits, Live, Fits
<1>14. \A d \in Clients \ {c} : RedisFits(d)' /\ MemoryFits(d)'
  BY <1>1, <1>6, <1>7, <1>8, StillFits
<1> QED
  BY <1>12, <1>13, <1>14

(* Requests and logouts touch the sessions alone.                          *)
LEMMA SessionFits ==
  ASSUME LInv, NEW c \in Clients, Request(c) \/ Logout(c)
  PROVE  LInv'
<1> USE DEF LInv
<1>1. /\ session' \subseteq session
      /\ UNCHANGED <<counter, memory, drawn, faults, seen, apart, restarted>>
      /\ cookie' \in {cookie, [cookie EXCEPT ![c] = {}]}
  BY DEF Request, Logout, Encounter
<1>2. LoginTypeOK'
  BY <1>1 DEF LoginTypeOK
<1>3. \A d \in Clients : RedisFits(d)' /\ MemoryFits(d)'
  BY <1>1, StillFits
<1> QED
  BY <1>2, <1>3

LEMMA RestartFits ==
  ASSUME LInv, Restart
  PROVE  LInv'
<1> USE DEF LInv
<1>1. /\ restarted' /\ memory' = [c \in Clients |-> NoCounter]
      /\ UNCHANGED <<session, drawn, cookie, seen, apart>>
  BY DEF Restart
<1>2. /\ counter \in [Clients -> Counters]
      /\ \A c \in Clients : counter[c]' \in {counter[c], CountedForGood(counter[c])}
      /\ counter' \in [Clients -> Counters]
  <2>1. counter \in [Clients -> Counters]
    BY DEF LoginTypeOK
  <2>2. CASE UNCHANGED counter
    BY <2>1, <2>2
  <2>3. ASSUME NEW c \in Clients, counter' = [counter EXCEPT ![c] = CountedForGood(@)]
        PROVE  /\ counter' \in [Clients -> Counters]
               /\ \A d \in Clients : counter[d]' \in {counter[d], CountedForGood(counter[d])}
    <3>1. CountedForGood(counter[c]) \in Counters
      BY <2>1, CounterTypes
    <3> QED
      BY <2>1, <2>3, <3>1
  <2> QED
    BY <2>1, <2>2, <2>3 DEF Restart
<1>3. NoCounter \in Counters /\ NoCounter.left # Forever
  BY NoCounterTypes
<1>4. faults' \in 0 .. MaxFaults
  BY LoginAssumption DEF Restart, Unless, LoginTypeOK
<1>5. LoginTypeOK'
  BY <1>1, <1>2, <1>3, <1>4 DEF LoginTypeOK
<1>6. ASSUME NEW c \in Clients
      PROVE  RedisFits(c)' /\ MemoryFits(c)'
  <2>1. counter[c] \in Counters /\ seen[c].left \in 1 .. Window /\ seen[c].redis \in Nat
    BY ClientTypes
  <2>2. Live(counter[c]') /\ Fits(counter[c]', seen[c].left, seen[c].redis)
    BY <1>2, <2>1, CountedForGoodFits DEF RedisFits
  <2> QED
    BY <1>1, <2>2 DEF RedisFits, MemoryFits, Live, Fits
<1> QED
  BY <1>5, <1>6

LEMMA TickKeepsFits ==
  ASSUME LInv, LoginTick
  PROVE  LInv'
<1> USE DEF LInv
<1>1. PICK begun \in SUBSET Clients :
        seen' = [c \in Clients |-> IF c \in begun \/ seen[c].left = 1 THEN Fresh(Window)
                                  ELSE [seen[c] EXCEPT !.left = @ - 1]]
  BY DEF LoginTick
<1>2. /\ counter' = [c \in Clients |-> Expire(counter[c])]
      /\ memory' = [c \in Clients |-> [memory[c] EXCEPT !.left = Down(@)]]
      /\ session' = {[s EXCEPT !.left = Down(@)] : s \in session}
      /\ UNCHANGED <<drawn, cookie, faults, apart, restarted>>
  BY DEF LoginTick
<1>3. /\ session' \subseteq Sessions
      /\ \A s, t \in session' : s.token = t.token => s = t
      /\ \A s \in session' : s.token \in drawn'
  <2>1. \A s \in session : /\ s \in Sessions /\ [s EXCEPT !.left = Down(@)].token = s.token
                           /\ [s EXCEPT !.left = Down(@)] \in Sessions
    BY LoginAssumption DEF LoginTypeOK, Sessions, Down
  <2>2. ASSUME NEW s \in session', NEW t \in session', s.token = t.token
        PROVE  s = t
    <3>1. PICK s0 \in session, t0 \in session :
            s = [s0 EXCEPT !.left = Down(@)] /\ t = [t0 EXCEPT !.left = Down(@)]
      BY <1>2
    <3>2. s0 = t0
      BY <2>1, <2>2, <3>1 DEF LoginTypeOK
    <3> QED
      BY <3>1, <3>2
  <2>3. ASSUME NEW s \in session'
        PROVE  s \in Sessions /\ s.token \in drawn
    <3>1. PICK s0 \in session : s = [s0 EXCEPT !.left = Down(@)]
      BY <1>2
    <3> QED
      BY <2>1, <3>1 DEF LoginTypeOK
  <2> QED
    BY <1>2, <2>2, <2>3
<1>4. \A c \in Clients : seen[c]' \in Observers
  BY <1>1, ClientTypes, LoginAssumption DEF Observers, Fresh
<1>5. \A c \in Clients : memory[c]' \in Counters /\ memory[c].left' # Forever
  BY <1>2, ClientTypes, CounterTypes, LoginAssumption DEF Down, Forever, Counters
<1>6. LoginTypeOK'
  <2>1. counter' \in [Clients -> Counters]
    BY <1>2, ClientTypes, CounterTypes
  <2> QED
    BY <1>1, <1>2, <1>3, <1>4, <1>5, <2>1 DEF LoginTypeOK
<1>7. ASSUME NEW c \in Clients
      PROVE  RedisFits(c)' /\ MemoryFits(c)'
  <2>1. /\ counter[c] \in Counters /\ memory[c] \in Counters /\ seen[c].left \in 1 .. Window
        /\ seen[c].redis \in Nat /\ seen[c].memory \in Nat /\ memory[c].left # Forever
    BY ClientTypes
  <2> DEFINE k == Expire(counter[c])
             m == [memory[c] EXCEPT !.left = Down(@)]
  <2>2. /\ Live(k) /\ (k.left > 0 => k.count > 0) /\ k \in Counters /\ m \in Counters
        /\ seen[c].left # 1 => Fits(k, seen[c].left - 1, seen[c].redis)
    BY <2>1, CounterTypes, TickFits DEF RedisFits
  <2>3. ~restarted => /\ m.left > 0 => m.count > 0
                      /\ seen[c].left # 1 => Fits(m, seen[c].left - 1, seen[c].memory)
    <3>1. m.left = Down(memory[c].left) /\ m.count = memory[c].count
      BY <2>1 DEF Counters
    <3> QED
      BY <2>1, <3>1, TickFits DEF MemoryFits
  <2>4. counter[c]' = k /\ memory[c]' = m
    BY <1>2
  <2>5. CASE c \in begun \/ seen[c].left = 1
    <3>1. seen[c].left' = Window /\ seen[c].redis' = 0 /\ seen[c].memory' = 0
      BY <1>1, <2>5 DEF Fresh
    <3>2. Fits(k, Window, 0) /\ (~restarted => Fits(m, Window, 0))
      <4> HIDE DEF k, m
      <4>1. Window \in 1 .. Window
        BY LoginAssumption
      <4> QED
        BY <2>2, <2>3, <4>1, NothingFits
    <3> QED
      BY <1>2, <2>2, <2>4, <3>1, <3>2 DEF RedisFits, MemoryFits, Live, Fits
  <2>6. CASE ~(c \in begun \/ seen[c].left = 1)
    <3>1. /\ seen[c].left' = seen[c].left - 1
          /\ seen[c].redis' = seen[c].redis /\ seen[c].memory' = seen[c].memory
      BY <1>1, <2>6, ClientTypes DEF Observers
    <3> QED
      BY <1>2, <2>2, <2>3, <2>4, <2>6, <3>1 DEF RedisFits, MemoryFits, Live, Fits
  <2> QED
    BY <2>5, <2>6
<1> QED
  BY <1>6, <1>7

-----------------------------------------------------------------------------

LEMMA LoginInitFits == LoginInit => LInv
<1> SUFFICES ASSUME LoginInit PROVE LInv
  OBVIOUS
<1>1. NoCounter \in Counters /\ NoCounter.left # Forever /\ Live(NoCounter)
  BY NoCounterTypes
<1>2. Fresh(Window) \in Observers
  BY LoginAssumption DEF Fresh, Observers
<1>3. LoginTypeOK
  <2>1. counter \in [Clients -> Counters] /\ memory \in [Clients -> Counters]
    BY <1>1 DEF LoginInit
  <2>2. \A c \in Clients : memory[c].left # Forever
    BY <1>1 DEF LoginInit
  <2>3. faults \in 0 .. MaxFaults
    BY LoginAssumption DEF LoginInit
  <2>4. cookie \in [Clients -> SUBSET drawn] /\ apart \subseteq Clients
        /\ restarted \in BOOLEAN /\ session = {} /\ drawn = {}
        /\ seen \in [Clients -> Observers]
    BY <1>2 DEF LoginInit
  <2> QED
    BY <2>1, <2>2, <2>3, <2>4 DEF LoginTypeOK
<1>4. Fits(NoCounter, Window, 0)
  <2>1. Window \in 1 .. Window
    BY LoginAssumption
  <2> QED
    BY <2>1, NoCounterTypes, NothingFits
<1> QED
  BY <1>1, <1>3, <1>4 DEF LInv, LoginInit, RedisFits, MemoryFits, Fresh

LEMMA LoginStepFits == LInv /\ [LoginNext]_loginVars => LInv'
<1> SUFFICES ASSUME LInv, [LoginNext]_loginVars PROVE LInv'
  OBVIOUS
<1>1. CASE LoginNext
  BY <1>1, RefuseFits, LoginFits, SessionFits, RestartFits, TickKeepsFits DEF LoginNext
<1>2. CASE UNCHANGED loginVars
  <2>1. LoginTypeOK'
    BY <1>2 DEF loginVars, LInv, LoginTypeOK
  <2>2. \A c \in Clients : RedisFits(c)' /\ MemoryFits(c)'
    BY <1>2, StillFits DEF loginVars, LInv
  <2> QED
    BY <2>1, <2>2 DEF LInv
<1> QED
  BY <1>1, <1>2

LEMMA LoginInvariant == LoginSpec => []LInv
<1> QED
  BY LoginInitFits, LoginStepFits, PTL DEF LoginSpec

(* Counters, sessions, tokens and cookies are of their types: every token  *)
(* names one session, and a browser holds only tokens that were drawn.     *)
THEOREM LoginTypesHold == LoginSpec => []LoginTypeOK
<1>1. LInv => LoginTypeOK
  BY DEF LInv
<1> QED
  BY <1>1, LoginInvariant, PTL

(* LoginRateLimiter.allow bounds the guesses of every window, however the  *)
(* attempts are timed and however often Redis fails: fewer than twice the  *)
(* limit by one counter, fewer than four times by both.                    *)
THEOREM GuessesHold == LoginSpec => []GuessesAreBounded
<1>1. LInv => GuessesAreBounded
  <2> SUFFICES ASSUME LInv, NEW c \in Clients, ~restarted
               PROVE  seen[c].redis + seen[c].memory
                        < (IF c \in apart THEN 4 ELSE 2) * MaximumAttempts
    BY DEF GuessesAreBounded
  <2>1. /\ counter[c] \in Counters /\ memory[c] \in Counters /\ seen[c].left \in 1 .. Window
        /\ seen[c].redis \in Nat /\ seen[c].memory \in Nat
    BY ClientTypes DEF LInv
  <2>2. /\ counter[c].left \in 0 .. Window + 1 /\ memory[c].left \in 0 .. Window + 1
    BY <2>1, CounterTypes
  <2>3. /\ seen[c].redis <= 2 * MaximumAttempts - 1
        /\ seen[c].memory <= 2 * MaximumAttempts - 1
    BY <2>1, <2>2, LoginAssumption DEF LInv, RedisFits, MemoryFits, Fits
  <2>4. c \notin apart => seen[c].memory = 0
    BY DEF LInv, MemoryFits
  <2> QED
    BY <2>1, <2>3, <2>4, LoginAssumption
<1> QED
  BY <1>1, LoginInvariant, PTL

=============================================================================
