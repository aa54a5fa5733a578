------------------------------- MODULE Inventory -------------------------------
(***************************************************************************)
(* The hosts, the credentials they refer to, and their schedules, under    *)
(* the handlers of the API.                                                *)
(*                                                                         *)
(* The API is one process and its handlers do not pause, so each is a      *)
(* step, apart from the connection test, which waits for the host between  *)
(* reading and saving it.  The dispatcher is another process: it lists the *)
(* due schedules and saves them later.  Rows have no foreign keys.         *)
(***************************************************************************)
EXTENDS Integers, FiniteSets

CONSTANTS
  Hosts,         \* host ids; one is made at random for a host and not reused
  Credentials,   \* credential ids, likewise
  Platforms,     \* the snapshot platforms a host may be configured for
  NoCredential,
  MaxTests,      \* bound: connection tests that wait at a time
  MaxDeaths      \* bound: how often the API dies in a handler

(* SNAPSHOT_CREDENTIAL_TYPES.                                              *)
AllowedTypes ==
  [proxmox |-> {"proxmox_token"}, aws |-> {"aws_access_key", "aws_role"},
   vmware |-> {"vmware_secret"}, libvirt |-> {"libvirt_ssh"}]

CredentialTypes == {"ssh_private_key"} \cup UNION {AllowedTypes[p] : p \in Platforms}

ASSUME InventoryAssumption ==
  /\ Platforms \subseteq DOMAIN AllowedTypes /\ NoCredential \notin Credentials
  /\ MaxTests \in Nat /\ MaxDeaths \in Nat

Attachable == Credentials \cup {NoCredential}

(* What these handlers look at of the fields an operator fills in; the     *)
(* target of a snapshot, the host key and the connection status are stored *)
(* with them and read elsewhere.                                           *)
HostInputs ==
  [ssh : Attachable, platform : Platforms \cup {"none"}, snapshot : Attachable]

VARIABLES
  host,          \* the stored hosts: a set of at most one row per id
  everMade,      \* ids given to hosts
  credential,    \* the stored credentials and their types
  scheduled,     \* hosts with a stored schedule
  listed,        \* hosts whose schedule the dispatcher holds a copy of
  testing,       \* the rows that connection tests have read
  deaths,
  undone         \* history: hosts that a late writer, or a death, left as no
                 \* handler would

inventoryVars == <<host, everMade, credential, scheduled, listed, testing,
                   deaths, undone>>

Rows == [id : Hosts, input : HostInputs]

InventoryTypeOK ==
  /\ host \subseteq Rows /\ everMade \subseteq Hosts
  /\ \A r \in host : r.id \in everMade
  /\ \A r, q \in host : r.id = q.id => r = q
  /\ credential \in [Credentials -> CredentialTypes \cup {"unused", "deleted"}]
  /\ scheduled \subseteq everMade /\ listed \subseteq everMade
  /\ testing \subseteq Rows
  /\ deaths \in 0 .. MaxDeaths /\ undone \subseteq everMade

InventoryInit ==
  /\ host = {} /\ everMade = {} /\ scheduled = {} /\ listed = {} /\ testing = {}
  /\ credential = [c \in Credentials |-> "unused"]
  /\ deaths = 0 /\ undone = {}

-----------------------------------------------------------------------------

RowsOf(h) == {r \in host : r.id = h}

SaveHost(h, input) == host' = (host \ RowsOf(h)) \cup {[id |-> h, input |-> input]}

(* get_credential_record finds it.                                         *)
Present(c) == c \in Credentials /\ credential[c] \in CredentialTypes

(* _validate_host_input looks at the snapshot credential only.             *)
ValidateHostInput(input) ==
  input.platform # "none" =>
    /\ Present(input.snapshot)
    /\ credential[input.snapshot] \in AllowedTypes[input.platform]

Dies == deaths < MaxDeaths /\ deaths' = deaths + 1

(* save_host, then save_schedule: two transactions.                        *)
CreateHost(h, input) ==
  /\ h \notin everMade /\ ValidateHostInput(input)
  /\ everMade' = everMade \cup {h}
  /\ SaveHost(h, input)
  /\ \/ scheduled' = scheduled \cup {h} /\ UNCHANGED <<deaths, undone>>
     \/ Dies /\ undone' = undone \cup {h} /\ UNCHANGED scheduled
  /\ UNCHANGED <<credential, listed, testing>>

UpdateHost(h, input) ==
  /\ RowsOf(h) # {} /\ ValidateHostInput(input)
  /\ SaveHost(h, input)
  /\ undone' = IF h \in scheduled THEN undone \ {h} ELSE undone
  /\ UNCHANGED <<everMade, credential, scheduled, listed, testing, deaths>>

(* delete_schedule, then delete_host.                                      *)
DeleteHost(h) ==
  /\ RowsOf(h) # {}
  /\ scheduled' = scheduled \ {h}
  /\ \/ host' = host \ RowsOf(h) /\ undone' = undone \ {h} /\ UNCHANGED deaths
     \/ Dies /\ undone' = undone \cup {h} /\ UNCHANGED host
  /\ UNCHANGED <<everMade, credential, listed, testing>>

(* test_connection has read the host, and waits for the collector.         *)
StartTest(h) ==
  /\ Cardinality(testing) < MaxTests
  /\ \E r \in RowsOf(h) : testing' = testing \cup {r}
  /\ UNCHANGED <<host, everMade, credential, scheduled, listed, deaths, undone>>

(* The host answers.  When the operator confirms its key, the copy that    *)
(* was read is saved, key and status added; otherwise nothing is.          *)
FinishTest(r) ==
  /\ r \in testing /\ testing' = testing \ {r}
  /\ \/ /\ SaveHost(r.id, r.input)
        /\ undone' = IF r \in host THEN undone ELSE undone \cup {r.id}
     \/ UNCHANGED <<host, undone>>
  /\ UNCHANGED <<everMade, credential, scheduled, listed, deaths>>

SaveCredential(c) ==
  /\ credential[c] = "unused"
  /\ \E type \in CredentialTypes : credential' = [credential EXCEPT ![c] = type]
  /\ UNCHANGED <<host, everMade, scheduled, listed, testing, deaths, undone>>

(* Mutant: only the SSH credential of the hosts is looked at.              *)
MutDeleteCredential(c) ==
  /\ Present(c) /\ \A r \in host : r.input.ssh # c
  /\ credential' = [credential EXCEPT ![c] = "deleted"]
  /\ UNCHANGED <<host, everMade, scheduled, listed, testing, deaths, undone>>

DeleteCredential(c) ==
  /\ Present(c)
  /\ \A r \in host : c \notin {r.input.ssh, r.input.snapshot}
  /\ credential' = [credential EXCEPT ![c] = "deleted"]
  /\ UNCHANGED <<host, everMade, scheduled, listed, testing, deaths, undone>>

(* PUT /hosts/{id}/schedule.                                               *)
PutSchedule(h) ==
  /\ RowsOf(h) # {} /\ h \notin scheduled
  /\ scheduled' = scheduled \cup {h}
  /\ UNCHANGED <<host, everMade, credential, listed, testing, deaths, undone>>

(* create_due_scan_jobs lists what is due; it saves each schedule it       *)
(* listed at the end of that host's turn, and an upsert brings a deleted   *)
(* one back.                                                               *)
ListDueSchedules ==
  /\ listed = {} /\ \E due \in SUBSET scheduled : due # {} /\ listed' = due
  /\ UNCHANGED <<host, everMade, credential, scheduled, testing, deaths, undone>>

SaveListed(h) ==
  /\ h \in listed
  /\ scheduled' = scheduled \cup {h}
  /\ undone' = IF RowsOf(h) = {} THEN undone \cup {h} ELSE undone
  \* The scan of a host that is gone raises, which ends the run, unless an
  \* earlier one is still active.
  /\ \/ listed' = listed \ {h}
     \/ RowsOf(h) = {} /\ listed' = {}
  /\ UNCHANGED <<host, everMade, credential, testing, deaths>>

InventoryNext ==
  \/ \E h \in Hosts : \/ DeleteHost(h) \/ StartTest(h) \/ PutSchedule(h)
                      \/ SaveListed(h)
                      \/ \E input \in HostInputs :
                           CreateHost(h, input) \/ UpdateHost(h, input)
  \/ \E r \in testing : FinishTest(r)
  \/ \E c \in Credentials : SaveCredential(c) \/ DeleteCredential(c)
  \/ ListDueSchedules

InventorySpec == InventoryInit /\ [][InventoryNext]_inventoryVars

-----------------------------------------------------------------------------
(* A host that asks for a snapshot has a credential to take it with, of a  *)
(* type its platform accepts, whatever was deleted or edited since; and a  *)
(* host and its schedule come and go together.  Not so where a connection  *)
(* test saved the host it had read over a change, the dispatcher brought   *)
(* back the schedule of a deleted host, or the API died between two saves. *)
HostsAreWhole ==
  \A h \in everMade \ undone :
    /\ RowsOf(h) # {} <=> h \in scheduled
    /\ \A r \in RowsOf(h) :
         r.input.platform # "none" =>
           /\ Present(r.input.snapshot)
           /\ credential[r.input.snapshot] \in AllowedTypes[r.input.platform]

=============================================================================
