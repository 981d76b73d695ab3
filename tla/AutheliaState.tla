---------------------------- MODULE AutheliaState ----------------------------
(***************************************************************************)
(* The state that roles/authelia keeps on a host between deploy runs, and  *)
(* the two checksums that tell a run what to renew:                        *)
(*                                                                         *)
(*   .oidc_<id>_hash, .oidc_<id>_secret.sha256     per OIDC client: the    *)
(*      hash of its secret, and the checksum of the secret it was made of  *)
(*   db.sqlite3, .storage_encryption_key.sha256    the database (2FA       *)
(*      registrations), and the checksum of the key it is encrypted with   *)
(*                                                                         *)
(* Each pair is written by separate tasks of a run that can be cut off     *)
(* anywhere, while the operator rotates secrets between runs and Docker    *)
(* restarts Authelia at any time.  Secrets and keys are numbered in the    *)
(* order they are made; a checksum or a hash is the value it is made of.   *)
(*                                                                         *)
(* Every run loads the secrets: without them the OIDC assert or the        *)
(* template of configuration.yml, which has no default for them, fails     *)
(* before anything here is written.                                        *)
(***************************************************************************)
EXTENDS Naturals, FiniteSets

CONSTANTS
  Clients,    \* ids of authelia_oidc_clients
  MaxValue,   \* bound: secrets and keys are 0 .. MaxValue
  MaxEdits,   \* bound: edits of secrets.yml
  MaxFaults,  \* bound: runs that are cut off
  Rollback,   \* may secrets.yml return to an earlier secret or key?
  None        \* the file does not exist

Values == 0 .. MaxValue

ASSUME AutheliaAssumption ==
  /\ MaxValue \in Nat /\ MaxEdits \in Nat /\ MaxFaults \in Nat
  /\ Rollback \in BOOLEAN
  /\ None \notin Nat /\ IsFiniteSet(Clients)

VARIABLES
  secret, key,     \* secrets.yml: client secrets, storage_encryption_key
  hash, sum,       \* the two files per client
  config, cfgHash, \* configuration.yml: its key, its client hashes
  db, marker,      \* key of db.sqlite3; .storage_encryption_key.sha256
  started,         \* does the container exist?
  at,              \* next task of the run, "idle" between runs
  reset,           \* authelia_reset_db_on_key_change
  fresh, left,     \* clients hashed anew; those not stored yet
  changed,         \* register of configuration.yml
  dbSeen, keyChanged, \* _authelia_db_stat, _authelia_key_changed
  edits, faults

site == <<secret, key>>
clientFiles == <<hash, sum>>
conf == <<config, cfgHash>>
database == <<db, marker>>
registers == <<fresh, left, changed, dbSeen, keyChanged>>
vars == <<site, clientFiles, conf, database, started, at, reset, registers,
          edits, faults>>

Tasks == {"generate", "hash", "sum", "config", "stat", "judge", "remove",
          "record", "deploy"}
Rendered == {"stat", "judge", "remove", "record", "deploy"}

-----------------------------------------------------------------------------
(* Between runs                                                            *)

MayBecome(old, new) == new # old /\ (Rollback \/ new > old)

EditSecret ==
  /\ at = "idle" /\ edits < MaxEdits
  /\ \E c \in Clients, s \in Values :
       MayBecome(secret[c], s) /\ secret' = [secret EXCEPT ![c] = s]
  /\ edits' = edits + 1
  /\ UNCHANGED <<key, clientFiles, conf, database, started, at, reset,
                 registers, faults>>

\* Not before the first run after an upgrade has recorded the key in use.
EditKey ==
  /\ at = "idle" /\ edits < MaxEdits
  /\ db # None => marker # None
  /\ \E k \in Values : MayBecome(key, k) /\ key' = k
  /\ edits' = edits + 1
  /\ UNCHANGED <<secret, clientFiles, conf, database, started, at, reset,
                 registers, faults>>

Created == IF db = None THEN config ELSE db

\* Docker restarts the container; Authelia creates a missing database with the
\* key of the configuration that is on disk now.
AutheliaStarts ==
  /\ started /\ db = None
  /\ db' = Created
  /\ UNCHANGED <<site, clientFiles, conf, marker, started, at, reset, registers,
                 edits, faults>>

-----------------------------------------------------------------------------
(* A run                                                                   *)

Start ==
  /\ at = "idle" /\ at' = "generate"
  /\ reset' \in BOOLEAN
  /\ UNCHANGED <<site, clientFiles, conf, database, started, registers, edits, faults>>

\* Mutant: every run hashes every secret again.
EverySecret == Clients

\* Mutant: only a missing hash file counts.
NoHashYet == {c \in Clients : hash[c] = None}

\* Clients without a hash, or whose secret is not the one of the checksum.
Outdated == {c \in Clients : hash[c] = None \/ sum[c] # secret[c]}

Generate ==
  /\ at = "generate" /\ at' = "hash"
  /\ fresh' = Outdated /\ left' = Outdated
  /\ UNCHANGED <<site, clientFiles, conf, database, started, reset, changed,
                 dbSeen, keyChanged, edits, faults>>

StoreHash ==
  /\ at = "hash"
  /\ \E c \in left :
       /\ hash' = [hash EXCEPT ![c] = secret[c]]
       /\ left' = left \ {c}
  /\ UNCHANGED <<site, sum, conf, database, started, at, reset, fresh, changed,
                 dbSeen, keyChanged, edits, faults>>

AllHashesStored ==
  /\ at = "hash" /\ left = {}
  /\ at' = "sum" /\ left' = fresh
  /\ UNCHANGED <<site, clientFiles, conf, database, started, reset, fresh,
                 changed, dbSeen, keyChanged, edits, faults>>

StoreSum ==
  /\ at = "sum"
  /\ \E c \in left :
       /\ sum' = [sum EXCEPT ![c] = secret[c]]
       /\ left' = left \ {c}
  /\ UNCHANGED <<site, hash, conf, database, started, at, reset, fresh, changed,
                 dbSeen, keyChanged, edits, faults>>

AllSumsStored ==
  /\ at = "sum" /\ left = {} /\ at' = "config"
  /\ UNCHANGED <<site, clientFiles, conf, database, started, reset, registers,
                 edits, faults>>

\* The hashes are read back from their files.
DeployConfiguration ==
  /\ at = "config" /\ at' = "stat"
  /\ config' = key /\ cfgHash' = hash
  /\ changed' = (conf' # conf)
  /\ UNCHANGED <<site, clientFiles, database, started, reset, fresh, left,
                 dbSeen, keyChanged, edits, faults>>

\* Mutant: a key change is looked for only when the configuration changed.
KeyDiffersNow == changed /\ db # None /\ marker # None /\ marker # key

KeyDiffers == db # None /\ marker # None /\ marker # key

Detect ==
  /\ at = "stat" /\ at' = "judge"
  /\ dbSeen' = (db # None)
  /\ keyChanged' = KeyDiffers
  /\ UNCHANGED <<site, clientFiles, conf, database, started, reset, fresh, left,
                 changed, edits, faults>>

\* "Abort - storage encryption key changed, DB cannot be reused"
Abort ==
  /\ at = "judge" /\ keyChanged /\ ~reset
  /\ at' = "idle"
  /\ UNCHANGED <<site, clientFiles, conf, database, started, reset, registers,
                 edits, faults>>

Pass ==
  /\ at = "judge" /\ (keyChanged => reset)
  /\ at' = "remove"
  /\ UNCHANGED <<site, clientFiles, conf, database, started, reset, registers,
                 edits, faults>>

RemoveDb ==
  /\ at = "remove" /\ at' = "record"
  /\ db' = IF keyChanged THEN None ELSE db
  /\ UNCHANGED <<site, clientFiles, conf, marker, started, reset, registers,
                 edits, faults>>

RecordKey ==
  /\ at = "record" /\ at' = "deploy"
  /\ marker' = IF ~dbSeen \/ marker = None \/ keyChanged THEN key ELSE marker
  /\ UNCHANGED <<site, clientFiles, conf, db, started, reset, registers, edits, faults>>

\* compose up creates the container, or it is recreated for its configuration.
Deploy ==
  /\ at = "deploy" /\ at' = "idle"
  /\ started' = TRUE
  /\ db' = IF changed \/ ~started THEN Created ELSE db
  /\ UNCHANGED <<site, clientFiles, conf, marker, reset, registers, edits, faults>>

\* --tags secrets,auth
NoDeploy ==
  /\ at = "deploy" /\ at' = "idle"
  /\ UNCHANGED <<site, clientFiles, conf, database, started, reset, registers,
                 edits, faults>>

\* A task fails or the connection breaks: the run ends where it is.
Cut ==
  /\ at # "idle" /\ faults < MaxFaults
  /\ at' = "idle" /\ faults' = faults + 1
  /\ UNCHANGED <<site, clientFiles, conf, database, started, reset, registers, edits>>

-----------------------------------------------------------------------------
NoClient == [c \in Clients |-> None]

\* A new host, or one of a release that kept no checksums: its hash may be of
\* an earlier secret, its configuration and its database have the current key.
Fresh == config = None /\ db = None /\ hash = NoClient /\ ~started
Upgraded ==
  /\ config = key /\ db = key /\ started
  /\ \A c \in Clients : hash[c] \in Values /\ hash[c] <= secret[c]

Init ==
  /\ secret \in [Clients -> Values] /\ key \in Values
  /\ hash \in [Clients -> Values \cup {None}]
  /\ config \in {None, key} /\ db \in {None, key} /\ started \in BOOLEAN
  /\ Fresh \/ Upgraded
  /\ sum = NoClient /\ marker = None /\ cfgHash = hash
  /\ at = "idle" /\ reset = FALSE
  /\ fresh = {} /\ left = {} /\ changed = FALSE
  /\ dbSeen = FALSE /\ keyChanged = FALSE
  /\ edits = 0 /\ faults = 0

Role ==
  \/ Start \/ Generate \/ StoreHash \/ AllHashesStored \/ StoreSum
  \/ AllSumsStored \/ DeployConfiguration \/ Detect \/ Abort \/ Pass
  \/ RemoveDb \/ RecordKey \/ Deploy \/ NoDeploy

Next == Role \/ Cut \/ EditSecret \/ EditKey \/ AutheliaStarts

Spec == Init /\ [][Next]_vars

-----------------------------------------------------------------------------
(* Properties                                                              *)

TypeOK ==
  /\ secret \in [Clients -> Values] /\ key \in Values
  /\ hash \in [Clients -> Values \cup {None}]
  /\ sum \in [Clients -> Values \cup {None}]
  /\ cfgHash \in [Clients -> Values \cup {None}]
  /\ config \in Values \cup {None} /\ db \in Values \cup {None}
  /\ marker \in Values \cup {None}
  /\ at \in Tasks \cup {"idle"} /\ started \in BOOLEAN /\ reset \in BOOLEAN
  /\ changed \in BOOLEAN /\ dbSeen \in BOOLEAN /\ keyChanged \in BOOLEAN
  /\ left \subseteq fresh /\ fresh \subseteq Clients
  /\ edits \in 0 .. MaxEdits /\ faults \in 0 .. MaxFaults

\* "The hash must follow the plain secret" (main.yml:72): the configuration a
\* run renders has, for every client, the hash of its current secret.
HashFollowsSecret == at \in Rendered => cfgHash = secret

\* "Unchanged secret = unchanged hash" (main.yml:75): as long as no run was cut
\* off, a hash of the current secret is not made again, unless it had no checksum.
HashStaysStable ==
  [][StoreHash /\ faults = 0 =>
       \A c \in left \ left' : hash[c] # secret[c] \/ sum[c] = None]_vars

\* A run that ends well leaves a database that the key it rendered can read.
DbMatchesKey == at = "deploy" => db \in {None, config}

=============================================================================
