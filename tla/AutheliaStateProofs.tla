------------------------- MODULE AutheliaStateProofs -------------------------
(***************************************************************************)
(* What is proved about Authelia.  Of the checksums of roles/authelia, for *)
(* every set of clients and any number of edits and cut runs:              *)
(*  - the rendered hashes follow the secrets, if no secret ever returns to *)
(*    an earlier value, or if no run is ever cut off;                      *)
(*  - a run that ends well leaves a readable database, if no key returns.  *)
(* The run authelia_rollback shows that the first condition is needed.     *)
(* Of the checks of stack.yaml, for every file, request and address width: *)
(*  - the five invariants of StackCheck.  What a run has accepted is       *)
(*    carried along (CheckInv); the rest is about one stack.yaml and what  *)
(*    is rendered from it.                                                 *)
(***************************************************************************)
EXTENDS AutheliaState, StackCheck, FiniteSetTheorems, WellFoundedInduction, TLAPS

USE AutheliaAssumption

\* Every step keeps the type invariant.
LEMMA TypeStep == ASSUME TypeOK, [Next]_vars PROVE TypeOK'
<1> USE DEF TypeOK, Tasks, site, clientFiles, conf, database, registers
<1>1. CASE EditSecret
  <2>1. secret' \in [Clients -> Values]
    BY <1>1 DEF EditSecret
  <2>2. edits' \in 0 .. MaxEdits
    BY <1>1 DEF EditSecret
  <2> QED BY <1>1, <2>1, <2>2 DEF EditSecret
<1>2. CASE EditKey
  <2>1. edits' \in 0 .. MaxEdits
    BY <1>2 DEF EditKey
  <2> QED BY <1>2, <2>1 DEF EditKey
<1>3. CASE AutheliaStarts
  BY <1>3 DEF AutheliaStarts, Created
<1>4. CASE Start
  BY <1>4 DEF Start
<1>5. CASE Generate
  BY <1>5 DEF Generate, Outdated
<1>6. CASE StoreHash
  BY <1>6 DEF StoreHash
<1>7. CASE AllHashesStored
  BY <1>7 DEF AllHashesStored
<1>8. CASE StoreSum
  BY <1>8 DEF StoreSum
<1>9. CASE AllSumsStored
  BY <1>9 DEF AllSumsStored
<1>10. CASE DeployConfiguration
  BY <1>10 DEF DeployConfiguration
<1>11. CASE Detect
  BY <1>11 DEF Detect, KeyDiffers
<1>12. CASE Abort \/ Pass
  BY <1>12 DEF Abort, Pass
<1>13. CASE RemoveDb
  BY <1>13 DEF RemoveDb
<1>14. CASE RecordKey
  BY <1>14 DEF RecordKey
<1>15. CASE Deploy \/ NoDeploy
  BY <1>15 DEF Deploy, NoDeploy, Created
<1>16. CASE Cut
  <2>1. faults' \in 0 .. MaxFaults
    BY <1>16 DEF Cut
  <2> QED BY <1>16, <2>1 DEF Cut
<1>17. CASE UNCHANGED vars
  BY <1>17 DEF vars
<1> QED BY <1>1, <1>2, <1>3, <1>4, <1>5, <1>6, <1>7, <1>8, <1>9, <1>10, <1>11,
           <1>12, <1>13, <1>14, <1>15, <1>16, <1>17 DEF Next, Role

\* The initial states have the right types.
LEMMA TypeInit == ASSUME Init PROVE TypeOK
<1>1. edits \in 0 .. MaxEdits /\ faults \in 0 .. MaxFaults
  BY DEF Init
<1>2. NoClient \in [Clients -> Values \cup {None}]
  BY DEF NoClient
<1> QED BY <1>1, <1>2 DEF Init, TypeOK

\* The files of the watched role always have the forms their comments name.
THEOREM TypeCorrect == Spec => []TypeOK
<1>1. Init => TypeOK
  BY TypeInit
<1>2. TypeOK /\ [Next]_vars => TypeOK'
  BY TypeStep
<1> QED BY <1>1, <1>2, PTL DEF Spec

-----------------------------------------------------------------------------
(* Client secrets                                                          *)

Trusted == ~Rollback \/ MaxFaults = 0

\* Secrets that only move forward leave the checksums behind.
SumsBehind == ~Rollback => \A c \in Clients : sum[c] # None => sum[c] <= secret[c]

\* Without cut runs, checksum and hash of a client are of the same secret,
\* except while a run renews them.
SumsPaired ==
  MaxFaults = 0 =>
    \A c \in Clients :
      sum[c] # None /\ (at \in {"hash", "sum"} => c \notin fresh) => hash[c] = sum[c]

\* A checksum of the current secret vouches for the hash.
SumsHonest ==
  Trusted => \A c \in Clients : sum[c] # None /\ sum[c] = secret[c] => hash[c] = secret[c]

\* The loops: what has left the first one has its hash, what has left the
\* second one its checksum.
Renewed ==
  /\ Trusted /\ at = "hash" => \A c \in Clients \ left : hash[c] = secret[c]
  /\ Trusted /\ at \in {"sum", "config"} => \A c \in Clients : hash[c] = secret[c]
  /\ at = "sum" => \A c \in fresh \ left : sum[c] = secret[c]
  /\ at = "hash" => left \subseteq fresh

HashInv ==
  SumsBehind /\ SumsPaired /\ SumsHonest /\ Renewed
  /\ (Trusted => HashFollowsSecret)

hashVars == <<secret, hash, sum, cfgHash, at, fresh, left>>

\* Steps that leave the files alone and enter neither loop nor rendering.
LEMMA HashIdle ==
  ASSUME HashInv, UNCHANGED <<secret, hash, sum, cfgHash, fresh, left>>,
         \/ at' = at
         \/ at' \in {"idle", "generate"} /\ at \notin {"hash", "sum"}
         \/ at' \in Rendered /\ at \in Rendered
  PROVE  HashInv'
<1> USE DEF HashInv, SumsBehind, SumsPaired, SumsHonest, Renewed,
            HashFollowsSecret, Rendered
<1>1. CASE at' = at
  BY <1>1
<1>2. CASE at' \in {"idle", "generate"} /\ at \notin {"hash", "sum"}
  BY <1>2
<1>3. CASE at' \in Rendered /\ at \in Rendered
  BY <1>3
<1> QED BY <1>1, <1>2, <1>3

\* Every step keeps the relations between secrets, hashes and checksums.
LEMMA HashStep == ASSUME TypeOK, HashInv, [Next]_vars PROVE HashInv'
<1> USE DEF site, clientFiles, conf, database, registers
<1>1. CASE EditSecret
  <2>1. at = "idle" /\ UNCHANGED <<hash, sum, cfgHash, at, fresh, left>>
    BY <1>1 DEF EditSecret
  <2>2. PICK c \in Clients, v \in Values :
          MayBecome(secret[c], v) /\ secret' = [secret EXCEPT ![c] = v]
    BY <1>1 DEF EditSecret
  <2>3. \A d \in Clients : secret'[d] = IF d = c THEN v ELSE secret[d]
    BY <2>2 DEF TypeOK
  <2>4. ~Rollback => v > secret[c]
    BY <2>2 DEF MayBecome
  <2>5. SumsBehind' /\ (~Rollback /\ sum[c] # None => sum[c] # v)
    BY <2>1, <2>3, <2>4 DEF HashInv, SumsBehind, TypeOK, Values
  <2>6. SumsPaired'
    BY <2>1 DEF HashInv, SumsPaired
  <2>7. SumsHonest'
    <3> SUFFICES ASSUME Trusted, NEW d \in Clients, sum[d] # None, sum[d] = secret'[d]
                 PROVE  hash[d] = secret'[d]
      BY <2>1 DEF SumsHonest, Trusted
    <3>1. CASE MaxFaults = 0
      BY <3>1, <2>1 DEF HashInv, SumsPaired
    <3>2. CASE ~Rollback
      BY <3>2, <2>3, <2>5 DEF HashInv, SumsHonest, Trusted
    <3> QED BY <3>1, <3>2 DEF Trusted
  <2>8. Renewed' /\ (Trusted => HashFollowsSecret)'
    BY <2>1 DEF Renewed, HashFollowsSecret, Rendered, Trusted
  <2> QED BY <2>5, <2>6, <2>7, <2>8 DEF HashInv, Trusted
<1>2. CASE EditKey \/ AutheliaStarts \/ Start \/ Abort \/ NoDeploy \/ Deploy
  BY <1>2, HashIdle DEF EditKey, AutheliaStarts, Start, Abort, NoDeploy, Deploy, Rendered
<1>3. CASE Detect \/ Pass \/ RemoveDb \/ RecordKey
  BY <1>3, HashIdle DEF Detect, Pass, RemoveDb, RecordKey, Rendered
<1>4. CASE Generate
  <2>1. \A c \in Clients \ Outdated : sum[c] # None => sum[c] = secret[c]
    BY DEF Outdated
  <2>2. \A c \in Clients \ Outdated : Trusted => hash[c] = secret[c]
    BY DEF Outdated, HashInv, SumsHonest, TypeOK, Values
  <2> QED BY <1>4, <2>2 DEF Generate, HashInv, SumsBehind, SumsPaired, SumsHonest,
             Renewed, HashFollowsSecret, Rendered, Trusted
<1>5. CASE StoreHash
  <2>1. PICK c \in left : hash' = [hash EXCEPT ![c] = secret[c]] /\ left' = left \ {c}
    BY <1>5 DEF StoreHash
  <2>2. /\ at = "hash" /\ c \in fresh /\ c \in Clients
        /\ UNCHANGED <<secret, sum, cfgHash, at, fresh>>
    BY <1>5, <2>1 DEF StoreHash, HashInv, Renewed, TypeOK
  <2>3. \A d \in Clients : hash'[d] = IF d = c THEN secret[d] ELSE hash[d]
    BY <2>1, <2>2 DEF TypeOK
  <2> QED BY <2>1, <2>2, <2>3 DEF HashInv, SumsBehind, SumsPaired, SumsHonest,
             Renewed, HashFollowsSecret, Rendered, Trusted
<1>6. CASE AllHashesStored
  BY <1>6 DEF AllHashesStored, HashInv, SumsBehind, SumsPaired, SumsHonest,
              Renewed, HashFollowsSecret, Rendered, Trusted
<1>7. CASE StoreSum
  <2>1. PICK c \in left : sum' = [sum EXCEPT ![c] = secret[c]] /\ left' = left \ {c}
    BY <1>7 DEF StoreSum
  <2>2. /\ at = "sum" /\ c \in fresh /\ c \in Clients
        /\ UNCHANGED <<secret, hash, cfgHash, at, fresh>>
    BY <1>7, <2>1 DEF StoreSum, TypeOK
  <2>3. \A d \in Clients : sum'[d] = IF d = c THEN secret[d] ELSE sum[d]
    BY <2>1, <2>2 DEF TypeOK
  <2>4. SumsBehind'
    BY <2>2, <2>3 DEF HashInv, SumsBehind, TypeOK, Values
  <2>5. SumsPaired' /\ SumsHonest' /\ Renewed' /\ (Trusted => HashFollowsSecret)'
    BY <2>1, <2>2, <2>3 DEF HashInv, SumsPaired, SumsHonest, Renewed,
       HashFollowsSecret, Rendered, Trusted, TypeOK
  <2> QED BY <2>4, <2>5 DEF HashInv
<1>8. CASE AllSumsStored
  BY <1>8 DEF AllSumsStored, HashInv, SumsBehind, SumsPaired, SumsHonest,
              Renewed, HashFollowsSecret, Rendered, Trusted, TypeOK
<1>9. CASE DeployConfiguration
  <2>1. Trusted => hash = secret
    BY <1>9 DEF DeployConfiguration, HashInv, Renewed, TypeOK
  <2> QED BY <1>9, <2>1 DEF DeployConfiguration, HashInv, SumsBehind, SumsPaired,
             SumsHonest, Renewed, HashFollowsSecret, Rendered, Trusted
<1>10. CASE Cut
  <2>1. MaxFaults # 0
    BY <1>10 DEF Cut, TypeOK
  <2> QED BY <1>10, <2>1 DEF Cut, HashInv, SumsBehind, SumsPaired, SumsHonest,
             Renewed, HashFollowsSecret, Rendered, Trusted
<1>11. CASE UNCHANGED vars
  BY <1>11, HashIdle DEF vars
<1> QED BY <1>1, <1>2, <1>3, <1>4, <1>5, <1>6, <1>7, <1>8, <1>9, <1>10, <1>11
        DEF Next, Role

\* If secrets never return, or no run is cut off, every configuration a run
\* renders has the hashes of the current secrets.
THEOREM HashesFollow == Spec => [](Trusted => HashFollowsSecret)
<1>1. Init => HashInv
  BY DEF Init, NoClient, HashInv, SumsBehind, SumsPaired, SumsHonest, Renewed,
         HashFollowsSecret, Rendered
<1>2. TypeOK /\ HashInv /\ [Next]_vars => HashInv'
  BY HashStep
<1>3. HashInv => (Trusted => HashFollowsSecret)
  BY DEF HashInv
<1> QED BY <1>1, <1>2, <1>3, TypeCorrect, PTL DEF Spec

\* As long as no run was cut off, the two files of a client are of the same
\* secret, except between the two loops that renew them; and what the first
\* loop has left is out of date.
StableInv ==
  faults = 0 =>
    /\ at \notin {"hash", "sum"} => \A c \in Clients : sum[c] # None => hash[c] = sum[c]
    /\ at = "hash" =>
         /\ \A c \in Clients \ (fresh \ left) : sum[c] # None => hash[c] = sum[c]
         /\ \A c \in fresh \ left : hash[c] = secret[c]
         /\ \A c \in left : hash[c] = None \/ sum[c] # secret[c]
    /\ at = "sum" =>
         /\ \A c \in Clients \ left : sum[c] # None => hash[c] = sum[c]
         /\ \A c \in left : hash[c] = secret[c]

\* Every step keeps the files of a client paired.
LEMMA StableStep == ASSUME TypeOK, StableInv, [Next]_vars PROVE StableInv'
<1> USE DEF site, clientFiles, conf, database, registers
<1>1. left \subseteq fresh /\ fresh \subseteq Clients /\ faults \in Nat
  BY DEF TypeOK
<1>2. CASE EditSecret
  BY <1>2 DEF EditSecret, StableInv
<1>3. CASE Generate
  BY <1>3 DEF Generate, Outdated, StableInv
<1>4. CASE StoreHash
  <2>1. PICK c \in left : hash' = [hash EXCEPT ![c] = secret[c]] /\ left' = left \ {c}
    BY <1>4 DEF StoreHash
  <2>2. at = "hash" /\ UNCHANGED <<secret, sum, at, fresh, faults>>
    BY <1>4 DEF StoreHash
  <2>3. hash'[c] = secret[c] /\ \A d \in Clients \ {c} : hash'[d] = hash[d]
    BY <1>1, <2>1 DEF TypeOK
  <2>4. fresh \ left' = (fresh \ left) \cup {c}
    BY <1>1, <2>1
  <2> QED BY <1>1, <2>1, <2>2, <2>3, <2>4 DEF StableInv
<1>5. CASE AllHashesStored
  BY <1>1, <1>5 DEF AllHashesStored, StableInv
<1>6. CASE StoreSum
  <2>1. PICK c \in left : sum' = [sum EXCEPT ![c] = secret[c]] /\ left' = left \ {c}
    BY <1>6 DEF StoreSum
  <2>2. at = "sum" /\ UNCHANGED <<secret, hash, at, fresh, faults>>
    BY <1>6 DEF StoreSum
  <2>3. sum'[c] = secret[c] /\ \A d \in Clients \ {c} : sum'[d] = sum[d]
    BY <1>1, <2>1 DEF TypeOK
  <2> QED BY <1>1, <2>1, <2>2, <2>3 DEF StableInv
<1>7. CASE AllSumsStored
  BY <1>7 DEF AllSumsStored, StableInv
<1>8. CASE Cut
  BY <1>1, <1>8 DEF Cut, StableInv
<1>9. CASE \/ AutheliaStarts \/ EditKey \/ UNCHANGED vars
  BY <1>9 DEF AutheliaStarts, EditKey, vars, StableInv
<1>10. CASE Start \/ DeployConfiguration \/ Detect \/ Abort \/ Pass \/ RemoveDb \/ RecordKey
            \/ Deploy \/ NoDeploy
  <2>1. UNCHANGED <<secret, hash, sum, fresh, left, faults>>
        /\ at \notin {"hash", "sum"} /\ at' \notin {"hash", "sum"}
    BY <1>10 DEF Start, DeployConfiguration, Detect, Abort, Pass, RemoveDb, RecordKey, Deploy, NoDeploy
  <2> QED BY <2>1 DEF StableInv
<1> QED BY <1>2, <1>3, <1>4, <1>5, <1>6, <1>7, <1>8, <1>9, <1>10 DEF Next, Role

\* As long as no run was cut off, a hash of the current secret is not made
\* again, for any clients, edits and secrets that return.
THEOREM HashesAreStable == Spec => HashStaysStable
<1>1. Init => StableInv
  BY DEF Init, NoClient, StableInv
<1>2. ASSUME TypeOK, StableInv, StoreHash, faults = 0, NEW c \in left \ left'
      PROVE  hash[c] # secret[c] \/ sum[c] = None
  <2>1. at = "hash" /\ c \in left /\ left \subseteq fresh /\ fresh \subseteq Clients
    BY <1>2 DEF StoreHash, TypeOK
  <2>2. hash[c] = None \/ sum[c] # secret[c]
    BY <1>2, <2>1 DEF StableInv
  <2>3. sum[c] # None => hash[c] = sum[c]
    BY <1>2, <2>1 DEF StableInv
  <2>4. secret[c] # None
    <3>1. secret[c] \in Nat
      BY <1>2, <2>1 DEF TypeOK, Values
    <3> QED BY <3>1
  <2> QED BY <2>2, <2>3, <2>4
<1>3. TypeOK /\ StableInv /\ [Next]_vars => StableInv'
  BY StableStep
<1>4. TypeOK /\ StableInv /\ [Next]_vars
      => [StoreHash /\ faults = 0 => \A c \in left \ left' : hash[c] # secret[c] \/ sum[c] = None]_vars
  BY <1>2
<1> QED BY <1>1, <1>3, <1>4, TypeCorrect, PTL DEF Spec, HashStaysStable

-----------------------------------------------------------------------------
(* The storage encryption key                                              *)

Readable == db \in {None, key}

\* The marker is never ahead of the key, and where it is level with it, the
\* configuration and the database are too.
MarkerLevel ==
  /\ marker # None => marker <= key
  /\ marker = key => config = key /\ Readable
  /\ at \in Rendered => config = key

\* Only an upgraded host has a database without a marker, and its first run
\* sees the key it was made with.
NoMarkerYet == marker = None => Readable /\ (started => db # None)

\* What a run has found out about the database, until the marker is written.
Verdict ==
  /\ at \in {"judge", "remove", "record"} =>
       /\ ~dbSeen => Readable
       /\ dbSeen /\ ~keyChanged => marker \in {None, key}
       /\ keyChanged => marker # None
  /\ at = "record" /\ keyChanged => Readable
  /\ at = "deploy" => marker = key

KeyInv == MarkerLevel /\ NoMarkerYet /\ Verdict

\* Every step keeps them, if keys never return.
LEMMA KeyStep == ASSUME ~Rollback, TypeOK, KeyInv, [Next]_vars PROVE KeyInv'
<1> USE DEF site, clientFiles, conf, database, registers
<1>1. CASE EditKey
  <2>1. /\ at = "idle" /\ key' > key /\ key' \in Values
        /\ UNCHANGED <<config, db, marker, started, at>>
    BY <1>1 DEF EditKey, MayBecome
  <2>2. marker # None => marker < key'
    BY <2>1 DEF KeyInv, MarkerLevel, TypeOK, Values
  <2>3. marker' # key' /\ (marker' # None => marker' <= key')
    BY <2>1, <2>2 DEF TypeOK, Values
  <2>4. marker = None => db = None
    BY <1>1 DEF EditKey
  <2>5. NoMarkerYet'
    BY <2>1, <2>4 DEF KeyInv, NoMarkerYet, Readable
  <2> QED BY <2>1, <2>3, <2>5 DEF KeyInv, MarkerLevel, Verdict, Rendered
<1>2. CASE AutheliaStarts
  BY <1>2 DEF AutheliaStarts, Created, KeyInv, MarkerLevel, NoMarkerYet, Verdict,
              Readable, Rendered
<1>3. CASE \/ EditSecret \/ Start \/ Generate \/ StoreHash \/ AllHashesStored
           \/ StoreSum \/ AllSumsStored \/ Abort \/ Pass \/ NoDeploy \/ Cut
  <2>1. UNCHANGED <<key, config, db, marker, started>>
    BY <1>3 DEF EditSecret, Start, Generate, StoreHash, AllHashesStored, StoreSum,
                AllSumsStored, Abort, Pass, NoDeploy, Cut
  <2>2. UNCHANGED <<dbSeen, keyChanged>>
    BY <1>3 DEF EditSecret, Start, Generate, StoreHash, AllHashesStored, StoreSum,
                AllSumsStored, Abort, Pass, NoDeploy, Cut
  <2>3. \/ at' = at
        \/ at' \in {"idle", "generate", "hash", "sum", "config"}
        \/ at = "judge" /\ at' = "remove"
    BY <1>3 DEF EditSecret, Start, Generate, StoreHash, AllHashesStored, StoreSum,
                AllSumsStored, Abort, Pass, NoDeploy, Cut
  <2> QED BY <2>1, <2>2, <2>3 DEF KeyInv, MarkerLevel, NoMarkerYet, Verdict, Readable, Rendered
<1>4. CASE DeployConfiguration
  BY <1>4 DEF DeployConfiguration, KeyInv, MarkerLevel, NoMarkerYet, Verdict,
              Readable, Rendered
<1>5. CASE Detect
  BY <1>5 DEF Detect, KeyDiffers, KeyInv, MarkerLevel, NoMarkerYet, Verdict,
              Readable, Rendered
<1>6. CASE RemoveDb
  <2>1. /\ at = "remove" /\ at' = "record"
        /\ db' = IF keyChanged THEN None ELSE db
        /\ UNCHANGED <<key, config, marker, started, dbSeen, keyChanged>>
    BY <1>6 DEF RemoveDb
  <2>2. MarkerLevel' /\ Verdict'
    BY <2>1 DEF KeyInv, MarkerLevel, Verdict, Readable, Rendered
  <2> QED BY <2>1, <2>2 DEF KeyInv, NoMarkerYet, Verdict, Readable
<1>7. CASE RecordKey
  <2>1. at = "record" /\ marker' = key
    BY <1>7 DEF RecordKey, KeyInv, Verdict
  <2>2. Readable
    BY <1>7 DEF RecordKey, KeyInv, MarkerLevel, NoMarkerYet, Verdict, Readable
  <2> QED BY <1>7, <2>1, <2>2 DEF RecordKey, KeyInv, MarkerLevel, NoMarkerYet, Verdict,
             Readable, Rendered, TypeOK, Values
<1>8. CASE Deploy
  BY <1>8 DEF Deploy, Created, KeyInv, MarkerLevel, NoMarkerYet, Verdict, Readable,
              Rendered, TypeOK, Values
<1>9. CASE UNCHANGED vars
  BY <1>9 DEF vars, KeyInv, MarkerLevel, NoMarkerYet, Verdict, Readable, Rendered
<1> QED BY <1>1, <1>2, <1>3, <1>4, <1>5, <1>6, <1>7, <1>8, <1>9 DEF Next, Role

\* If keys never return, a run that ends well leaves no database, or one that
\* the key it rendered can read.
THEOREM DatabaseReadable == Spec => [](~Rollback => DbMatchesKey)
<1> DEFINE Inv == ~Rollback => KeyInv
<1>1. Init => Inv
  BY DEF Init, Fresh, Upgraded, KeyInv, MarkerLevel, NoMarkerYet, Verdict, Readable,
         Rendered, Values
<1>2. TypeOK /\ Inv /\ [Next]_vars => Inv'
  BY KeyStep
<1>3. Inv => (~Rollback => DbMatchesKey)
  BY DEF KeyInv, MarkerLevel, Verdict, Readable, Rendered, DbMatchesKey
<1> QED BY <1>1, <1>2, <1>3, TypeCorrect, PTL DEF Spec

------------------------------------------------------------------------------
(* StackCheck: powers of two, which the size of a network is counted with *)

\* A set of numbers that is not empty has a least one: induction, as far as
\* the provers can use it.
LEMMA LeastNumber ==
  ASSUME NEW S, S \subseteq Nat, S # {}
  PROVE  \E i \in S : \A j \in S : i <= j
<1>1. PICK i \in S : \A j \in S : <<j, i>> \notin OpToRel(<, Nat)
  BY WFMin, NatLessThanWellFounded, Zenon
<1>2. \A j \in S : i <= j
  <2> TAKE j \in S
  <2>1. <<j, i>> \in Nat \X Nat /\ ~(j < i)
    BY <1>1 DEF OpToRel
  <2> QED BY <2>1
<1> QED BY <1>2

\* The first powers of two, up to n.
PowersTo(n) == {f \in [0 .. n -> Nat \ {0}] : f[0] = 1 /\ \A i \in 1 .. n : f[i] = 2 * f[i - 1]}

\* There are such functions for every n, and they agree: hence Pow2 exists.
LEMMA PowersExist == \A n \in Nat : PowersTo(n) # {}
<1> DEFINE Bad == {n \in Nat : PowersTo(n) = {}}
<1> SUFFICES ASSUME Bad # {} PROVE FALSE
  OBVIOUS
<1>1. PICK n \in Bad : \A m \in Bad : n <= m
  <2>1. Bad \subseteq Nat
    OBVIOUS
  <2> QED BY <2>1, LeastNumber
<1>2. n # 0
  <2>1. [i \in {0} |-> 1] \in PowersTo(0)
    BY DEF PowersTo
  <2> QED BY <2>1
<1>3. PICK f \in PowersTo(n - 1) : TRUE
  <2>1. n - 1 \in Nat /\ n - 1 \notin Bad
    BY <1>1, <1>2
  <2> QED BY <2>1
<1> DEFINE g == [i \in 0 .. n |-> IF i = n THEN 2 * f[n - 1] ELSE f[i]]
<1>4. g \in PowersTo(n)
  <2>1. n - 1 \in Nat /\ f \in [0 .. n - 1 -> Nat \ {0}]
    BY <1>2, <1>3 DEF PowersTo
  <2>2. f[0] = 1 /\ \A i \in 1 .. n - 1 : f[i] = 2 * f[i - 1]
    BY <1>3 DEF PowersTo
  <2>3. g \in [0 .. n -> Nat \ {0}]
    BY <2>1
  <2>4. g[0] = 1
    BY <1>2, <2>2
  <2>5. \A i \in 1 .. n : g[i] = 2 * g[i - 1]
    BY <2>1, <2>2
  <2> QED BY <2>3, <2>4, <2>5 DEF PowersTo
<1> QED BY <1>1, <1>4

LEMMA PowersAgree ==
  ASSUME NEW m \in Nat, NEW n \in Nat, NEW f \in PowersTo(m), NEW g \in PowersTo(n)
  PROVE  \A i \in Nat : i <= m /\ i <= n => f[i] = g[i]
<1> DEFINE Bad == {i \in Nat : i <= m /\ i <= n /\ f[i] # g[i]}
<1> SUFFICES ASSUME Bad # {} PROVE FALSE
  OBVIOUS
<1>1. PICK i \in Bad : \A j \in Bad : i <= j
  <2>1. Bad \subseteq Nat
    OBVIOUS
  <2> QED BY <2>1, LeastNumber
<1>2. i # 0
  BY <1>1 DEF PowersTo
<1>3. i - 1 \in Nat /\ i - 1 \notin Bad
  BY <1>1, <1>2
<1>4. f[i - 1] = g[i - 1]
  BY <1>1, <1>3
<1>5. i \in 1 .. m /\ i \in 1 .. n
  BY <1>1, <1>2
<1> QED BY <1>1, <1>4, <1>5 DEF PowersTo

\* The recursive definition of Pow2 has a solution, so Pow2 is one.
LEMMA Pow2Steps == Pow2 = [n \in Nat |-> IF n = 0 THEN 1 ELSE 2 * Pow2[n - 1]]
<1> DEFINE First(n) == CHOOSE f \in PowersTo(n) : TRUE
           power == [n \in Nat |-> First(n)[n]]
<1>1. \A n \in Nat : First(n) \in PowersTo(n)
  BY PowersExist
<1> HIDE DEF First
<1>2. \A n \in Nat : power[n] = IF n = 0 THEN 1 ELSE 2 * power[n - 1]
  <2> TAKE n \in Nat
  <2>1. CASE n = 0
    BY <1>1, <2>1 DEF PowersTo
  <2>2. CASE n # 0
    <3>1. n - 1 \in Nat /\ n \in 1 .. n
      BY <2>2
    <3>2. First(n)[n] = 2 * First(n)[n - 1]
      BY <1>1, <3>1 DEF PowersTo
    <3>3. First(n)[n - 1] = First(n - 1)[n - 1]
      BY <1>1, <3>1, PowersAgree
    <3> QED BY <2>2, <3>1, <3>2, <3>3
  <2> QED BY <2>1, <2>2
<1>3. power = [n \in Nat |-> IF n = 0 THEN 1 ELSE 2 * power[n - 1]]
  BY <1>2
<1> HIDE DEF power
<1> QED BY <1>3 DEF Pow2

LEMMA Pow2Positive == \A n \in Nat : Pow2[n] \in Nat /\ Pow2[n] > 0
<1> DEFINE Bad == {n \in Nat : ~(Pow2[n] \in Nat /\ Pow2[n] > 0)}
<1> SUFFICES ASSUME Bad # {} PROVE FALSE
  OBVIOUS
<1>1. PICK n \in Bad : \A m \in Bad : n <= m
  <2>1. Bad \subseteq Nat
    OBVIOUS
  <2> QED BY <2>1, LeastNumber
<1>2. n # 0
  BY <1>1, Pow2Steps
<1>3. n - 1 \in Nat /\ n - 1 \notin Bad
  BY <1>1, <1>2
<1>4. Pow2[n] = 2 * Pow2[n - 1]
  BY <1>2, Pow2Steps
<1> QED BY <1>1, <1>3, <1>4

LEMMA Pow2Grows == \A m, n \in Nat : m <= n => Pow2[m] <= Pow2[n]
<1> SUFFICES ASSUME NEW m \in Nat PROVE \A n \in Nat : m <= n => Pow2[m] <= Pow2[n]
  OBVIOUS
<1> DEFINE Bad == {n \in Nat : m <= n /\ ~(Pow2[m] <= Pow2[n])}
<1> SUFFICES ASSUME Bad # {} PROVE FALSE
  OBVIOUS
<1>1. PICK n \in Bad : \A k \in Bad : n <= k
  <2>1. Bad \subseteq Nat
    OBVIOUS
  <2> QED BY <2>1, LeastNumber
<1>2. n # m
  BY <1>1, Pow2Positive
<1>3. n - 1 \in Nat /\ m <= n - 1 /\ n - 1 \notin Bad
  BY <1>1, <1>2
<1>4. Pow2[n] = 2 * Pow2[n - 1]
  BY <1>2, <1>3, Pow2Steps
<1> QED BY <1>1, <1>3, <1>4, Pow2Positive

LEMMA Division ==
  ASSUME NEW a \in Nat, NEW size \in Nat, size > 0
  PROVE  /\ a = size * (a \div size) + (a % size)
         /\ a \div size \in Nat /\ a % size \in 0 .. size - 1
OBVIOUS

LEMMA Quotient ==
  ASSUME NEW size \in Nat, size > 0, NEW k \in Nat, NEW j \in 0 .. size - 1
  PROVE  (size * k + j) \div size = k
OBVIOUS

------------------------------------------------------------------------------
(* Networks *)

LEMMA WidthsAreNat == \A v \in {4, 6} : Width(v) \in Nat
BY WidthAssumption DEF Width

\* Numbers with the same quotient by size are at most size many.
LEMMA OneBlock ==
  ASSUME NEW size \in Nat, size > 0, NEW block \in Nat,
         NEW S, S \subseteq Nat, \A a \in S : a \div size = block
  PROVE  Cardinality(S) \in Nat /\ Cardinality(S) <= size
<1>1. PICK low \in Nat : low = size * block
  OBVIOUS
<1>2. S \subseteq low .. low + size - 1
  <2> SUFFICES ASSUME NEW a \in S PROVE a \in low .. low + size - 1
    OBVIOUS
  <2>1. a \in Nat /\ a \div size = block
    OBVIOUS
  <2>2. a = size * (a \div size) + (a % size) /\ a % size \in 0 .. size - 1
    BY <2>1, Division
  <2> QED BY <1>1, <2>1, <2>2
<1>3. IsFiniteSet(low .. low + size - 1) /\ Cardinality(low .. low + size - 1) = size
  <2>1. low \in Int /\ low + size - 1 \in Int /\ ~(low > low + size - 1)
        /\ (low + size - 1) - low + 1 = size
    OBVIOUS
  <2> QED BY <2>1, FS_Interval
<1> QED BY <1>2, <1>3, FS_Subset, FS_CardinalityType

\* A network with a prefix of at least p has at most as many addresses as
\* one with the prefix p.
LEMMA FewAddresses ==
  ASSUME NEW n, n.version \in {4, 6}, n.prefixlen \in 0 .. Width(n.version), n.address \in Nat,
         NEW p \in Nat, p <= n.prefixlen
  PROVE  Cardinality(Addresses(n)) <= Pow2[Width(n.version) - p]
<1>1. /\ Width(n.version) \in Nat /\ Width(n.version) - n.prefixlen \in Nat
      /\ Width(n.version) - p \in Nat
      /\ Width(n.version) - n.prefixlen <= Width(n.version) - p
  BY WidthsAreNat
<1>2. PICK size \in Nat : /\ size = Pow2[Width(n.version) - n.prefixlen] /\ size > 0
                          /\ size <= Pow2[Width(n.version) - p]
                          /\ Pow2[Width(n.version) - p] \in Nat
  BY <1>1, Pow2Positive, Pow2Grows
<1>3. PICK block \in Nat : block = n.address \div size
  BY <1>2, Division
<1>4. Addresses(n) = {a \in 0 .. Pow2[Width(n.version)] - 1 : a \div size = block}
  BY <1>2, <1>3 DEF Addresses
<1>5. Pow2[Width(n.version)] \in Nat
  BY <1>1, Pow2Positive
<1>6. Addresses(n) \subseteq Nat /\ \A a \in Addresses(n) : a \div size = block
  BY <1>4, <1>5
<1>7. Cardinality(Addresses(n)) \in Nat /\ Cardinality(Addresses(n)) <= size
  BY <1>2, <1>6, OneBlock
<1> QED BY <1>2, <1>7

\* What no check refuses is outside of the IPv4-mapped range.
LEMMA NotMapped ==
  ASSUME NEW n, n.version = 6, n.address \in 0 .. Pow2[Width(6)] - 1, ~Overlaps(n, IPV4_MAPPED)
  PROVE  ~IsMapped(n.address)
<1> SUFFICES ASSUME IsMapped(n.address) PROVE n.address \in Addresses(IPV4_MAPPED)
  BY DEF Overlaps
<1>1. PICK size \in Nat : size = Pow2[W4] /\ size > 0 /\ MappedBase % size = 0
  BY WidthAssumption, Pow2Positive
<1>2. MappedBase \in Nat /\ n.address \in Nat
  BY WidthsAreNat, WidthAssumption, Pow2Positive
<1>3. Addresses(IPV4_MAPPED)
      = {a \in 0 .. Pow2[Width(6)] - 1 : a \div size = MappedBase \div size}
  <2>1. /\ IPV4_MAPPED.version = 6 /\ IPV4_MAPPED.address = MappedBase
        /\ IPV4_MAPPED.prefixlen = W6 - W4
    BY DEF IPV4_MAPPED
  <2>2. Width(6) - (W6 - W4) = W4
    BY WidthAssumption DEF Width
  <2> QED BY <1>1, <2>1, <2>2 DEF Addresses
<1>4. PICK k \in Nat : k = MappedBase \div size /\ MappedBase = size * k
  BY <1>1, <1>2, Division
<1>5. PICK j \in 0 .. size - 1 : n.address = MappedBase + j
  <2>1. n.address - MappedBase \in 0 .. size - 1
    BY <1>1, <1>2 DEF IsMapped
  <2> QED BY <1>2, <2>1
<1>6. n.address \div size = k
  <2>1. (size * k + j) \div size = k
    BY <1>1, Quotient
  <2> QED BY <1>4, <1>5, <2>1
<1> QED BY <1>3, <1>4, <1>6

\* What the checks accept is narrow.
LEMMA AcceptedIsNarrow ==
  ASSUME NEW n, IsEntry(n), CheckProxy(n)
  PROVE  /\ Cardinality(TrustedV4(n)) <= Pow2[W4 - MIN_PREFIX_V4]
         /\ n.version = 6 => /\ TrustedV4(n) = {}
                             /\ Cardinality(Addresses(n)) <= Pow2[W6 - MIN_PREFIX_V6]
<1>1. /\ n.version \in {4, 6} /\ n.prefixlen \in 0 .. Width(n.version)
      /\ n.address \in 0 .. Pow2[Width(n.version)] - 1
  BY DEF IsEntry, CheckProxy
<1>2. n.address \in Nat
  BY <1>1, WidthsAreNat, Pow2Positive
<1>3. CASE n.version = 4
  <2>1. MIN_PREFIX_V4 \in Nat /\ MIN_PREFIX_V4 <= n.prefixlen
    BY <1>3, WidthAssumption DEF CheckProxy
  <2>2. Cardinality(Addresses(n)) <= Pow2[W4 - MIN_PREFIX_V4]
    <3>1. Width(n.version) = W4
      BY <1>3 DEF Width
    <3> QED BY <1>1, <1>2, <2>1, <3>1, FewAddresses
  <2> QED BY <1>3, <2>2 DEF TrustedV4
<1>4. CASE n.version = 6
  <2>1. MIN_PREFIX_V6 \in Nat /\ MIN_PREFIX_V6 <= n.prefixlen /\ ~Overlaps(n, IPV4_MAPPED)
    BY <1>4, WidthAssumption DEF CheckProxy
  <2>2. Cardinality(Addresses(n)) <= Pow2[W6 - MIN_PREFIX_V6]
    <3>1. Width(n.version) = W6
      BY <1>4 DEF Width
    <3> QED BY <1>1, <1>2, <2>1, <3>1, FewAddresses
  <2>3. TrustedV4(n) = {}
    <3>1. ~IsMapped(n.address)
      BY <1>1, <1>4, <2>1, NotMapped
    <3> QED BY <1>4, <3>1 DEF TrustedV4
  <2>4. Cardinality(TrustedV4(n)) = 0
    BY <2>3, FS_EmptySet
  <2>5. Pow2[W4 - MIN_PREFIX_V4] \in Nat
    BY WidthAssumption, Pow2Positive
  <2> QED BY <2>2, <2>3, <2>4, <2>5
<1> QED BY <1>1, <1>3, <1>4

------------------------------------------------------------------------------
(* Stacks: templates and runs of the checks *)

\* Expanding the templates keeps the sections without any, and of the rules
\* all but the lists and the domain.
LEMMA ExpansionKeeps ==
  ASSUME NEW auth, IsAuth(auth)
  PROVE  LET expanded == ExpandAuth(auth)
             old == auth.access_control
             new == expanded.access_control
         IN  /\ \A k \in {"provider", "lldap", "ldap", "session", "oidc_clients"} :
                    expanded[k] = auth[k]
             /\ expanded.users = ExpandUsers(auth.users)
             /\ expanded.cookie_domain = ExpandValue(auth.cookie_domain)
             /\ expanded.portal_url = ExpandValue(auth.portal_url)
             /\ new.default_policy = old.default_policy /\ new.typo = old.typo
             /\ new.rules.t = old.rules.t
             /\ old.rules.t = "list" =>
                    /\ DOMAIN new.rules.v = DOMAIN old.rules.v
                    /\ \A i \in DOMAIN new.rules.v : /\ IsRule(old.rules.v[i])
                                                     /\ new.rules.v[i] = ExpandRule(old.rules.v[i])
<1> DEFINE old == auth.access_control
           rules == [i \in DOMAIN old.rules.v |-> ExpandRule(old.rules.v[i])]
<1>1. {"access_control", "users", "cookie_domain", "portal_url", "provider", "lldap", "ldap",
       "session", "oidc_clients"} \subseteq DOMAIN auth
  BY DEF IsAuth
<1>2. ExpandAuth(auth).access_control = ExpandAccessControl(old)
  BY <1>1 DEF ExpandAuth
<1>3. /\ \A k \in {"provider", "lldap", "ldap", "session", "oidc_clients"} :
             ExpandAuth(auth)[k] = auth[k]
      /\ ExpandAuth(auth).users = ExpandUsers(auth.users)
      /\ ExpandAuth(auth).cookie_domain = ExpandValue(auth.cookie_domain)
      /\ ExpandAuth(auth).portal_url = ExpandValue(auth.portal_url)
  BY <1>1 DEF ExpandAuth
<1>4. {"rules", "typo", "default_policy"} \subseteq DOMAIN old
  BY DEF IsAuth
<1>5. CASE old.rules.t # "list"
  BY <1>2, <1>3, <1>5 DEF ExpandAccessControl
<1>6. CASE old.rules.t = "list"
  <2>1. ExpandAccessControl(old) = [old EXCEPT !.rules.v = rules]
    BY <1>6 DEF ExpandAccessControl
  <2>2. old.rules = [t |-> old.rules.t, v |-> old.rules.v]
    BY <1>6 DEF IsAuth, IsList, List
  <2>3. \A i \in DOMAIN old.rules.v : IsRule(old.rules.v[i])
    BY <1>6 DEF IsAuth, ListElements, Elements
  <2>4. /\ ExpandAccessControl(old).rules = [old.rules EXCEPT !.v = rules]
        /\ ExpandAccessControl(old).default_policy = old.default_policy
        /\ ExpandAccessControl(old).typo = old.typo
    BY <1>4, <2>1
  <2>5. ExpandAccessControl(old).rules.t = old.rules.t /\ ExpandAccessControl(old).rules.v = rules
    BY <2>2, <2>4
  <2> HIDE DEF old
  <2> QED BY <1>2, <1>3, <2>3, <2>4, <2>5 DEF old
<1> QED BY <1>5, <1>6

\* Expanding keeps the keys and the policy of a rule; its parts stay texts.
LEMMA ExpandedRule ==
  ASSUME NEW r, IsRule(r)
  PROVE  LET e == ExpandRule(r) IN
         /\ e.typo = r.typo /\ e.policy = r.policy
         /\ Elements(e.domain) \subseteq Seq(STRING)
         /\ \A regex \in ListElements(e.resources) : OneSegment(regex)
<1>1. DOMAIN r = {"domain", "policy", "groups", "resources", "networks", "typo"}
  BY DEF IsRule
<1>2. /\ ExpandRule(r).typo = r.typo /\ ExpandRule(r).policy = r.policy
      /\ ExpandRule(r).domain = ExpandValue(r.domain)
      /\ ExpandRule(r).resources = ExpandValue(r.resources)
  BY <1>1 DEF ExpandRule, Lists
<1>3. \A v : Elements(ExpandValue(v)) = {Expand(part) : part \in Elements(v)}
  <2> TAKE v
  <2>1. CASE v.t = "str"
    BY <2>1 DEF ExpandValue, Elements, Str
  <2>2. CASE v.t = "list"
    <3>1. ExpandValue(v).t = "list" /\ ExpandValue(v).v = [i \in DOMAIN v.v |-> Expand(v.v[i])]
      BY <2>2 DEF ExpandValue, List
    <3> QED BY <2>2, <3>1 DEF Elements
  <2>3. CASE v.t \notin {"str", "list"}
    BY <2>3 DEF ExpandValue, Elements
  <2> QED BY <2>1, <2>2, <2>3
<1>5. Elements(ExpandRule(r).domain) \subseteq Seq(STRING)
  BY <1>2, <1>3 DEF IsRule
<1>6. \A regex \in Elements(ExpandRule(r).resources) : OneSegment(regex)
  BY <1>2, <1>3 DEF IsRule
<1> QED BY <1>2, <1>5, <1>6 DEF ListElements

\* What a run knows of the stack where it is.
CheckInv ==
  /\ stack \in Stacks
  /\ via = "make" /\ pc \in {"preflight", "render", "done"} => Validate(stack)
  /\ pc \in {"render", "done"} => Preflight(stack) /\ (quiet => IsQuiet(ExpandAuth(stack.auth)))
  /\ pc = "done" => host = RenderedHost(stack)

\* Every step of a run keeps it.
LEMMA CheckInvStep == ASSUME CheckInv, [CheckNext]_checkVars PROVE CheckInv'
<1> USE DEF CheckInv
<1>1. CASE RunValidateStack
  BY <1>1 DEF RunValidateStack
<1>2. CASE RunPreflight
  <2>1. /\ stack' = stack /\ via' = via /\ pc = "preflight"
        /\ pc' = IF Preflight(stack) THEN "render" ELSE "rejected"
        /\ quiet' = IsQuiet(ExpandAuth(stack.auth))
    BY <1>2 DEF RunPreflight
  <2> HIDE DEF CheckInv
  <2>2. quiet' => IsQuiet(ExpandAuth(stack.auth))
    BY <2>1, Zenon
  <2>3. pc' = "render" => Preflight(stack)
    BY <2>1
  <2>4. pc' \in {"render", "rejected"}
    BY <2>1
  <2> QED BY <2>1, <2>2, <2>3, <2>4 DEF CheckInv
<1>3. CASE Render
  BY <1>3 DEF Render
<1>4. CASE UNCHANGED checkVars
  BY <1>4 DEF checkVars
<1> QED BY <1>1, <1>2, <1>3, <1>4 DEF CheckNext

\* What the checks have accepted still holds of the stack when it is rendered.
THEOREM ChecksAreCarried == CheckSpec => []CheckInv
<1>1. CheckInit => CheckInv
  BY DEF CheckInit, CheckInv
<1> QED BY <1>1, CheckInvStep, PTL DEF CheckSpec

\* No accepted entry makes Traefik believe more clients than the shortest
\* prefix has, whatever the widths and the minima are.
THEOREM ProxiesAreNarrow == CheckSpec => []TrustIsNarrow
<1>1. ASSUME CheckInv PROVE TrustIsNarrow
  <2> SUFFICES ASSUME pc = "done", NEW n \in host.trusted
               PROVE  /\ Cardinality(TrustedV4(n)) <= Pow2[W4 - MIN_PREFIX_V4]
                      /\ n.version = 6 => /\ TrustedV4(n) = {}
                                          /\ Cardinality(Addresses(n)) <= Pow2[W6 - MIN_PREFIX_V6]
    BY DEF TrustIsNarrow
  <2>1. /\ stack \in Stacks /\ CheckTrustedProxies(stack.trusted_proxies)
        /\ host = RenderedHost(stack)
    BY <1>1 DEF CheckInv, Preflight
  <2>2. host.trusted = IF stack.trusted_proxies.t = "list"
                       THEN Elements(stack.trusted_proxies) ELSE {}
    BY <2>1 DEF RenderedHost
  <2>3. stack.trusted_proxies.t = "list" /\ n \in ListElements(stack.trusted_proxies)
    BY <2>2 DEF ListElements
  <2>4. IsEntry(n)
    BY <2>1, <2>3, StacksAssumption
  <2>5. CheckProxy(n)
    <3>1. stack.trusted_proxies # Absent
      BY <2>3 DEF Absent
    <3> QED BY <2>1, <2>3, <3>1 DEF CheckTrustedProxies, ListElements, Elements
  <2> QED BY <2>4, <2>5, AcceptedIsNarrow
<1> QED BY <1>1, ChecksAreCarried, PTL

------------------------------------------------------------------------------
(* What is rendered for Authelia *)

\* What the preflight has accepted for Authelia, and what is rendered from it.
LEMMA AcceptedForAuthelia ==
  ASSUME CheckInv, OnAuthelia
  PROVE  LET auth == ExpandAuth(stack.auth)
             ac   == auth.access_control
         IN  /\ IsAuth(stack.auth) /\ stack.drayve_domain \in Seq(STRING)
             /\ host = RenderedHost(stack)
             /\ ProviderOf(auth) = "authelia" /\ ProviderOf(stack.auth) = "authelia"
             /\ auth.users = ExpandUsers(stack.auth.users) /\ auth.lldap = stack.auth.lldap
             /\ auth.session = stack.auth.session /\ auth.oidc_clients = stack.auth.oidc_clients
             /\ CheckSession(auth.session) /\ CheckUsers(auth.users) /\ CheckKeys(ac)
             /\ ac.default_policy = Absent \/ CheckPolicy(ac.default_policy)
             /\ CheckRules(ac)
             /\ Truthy(auth.lldap) \/ CheckGroupExistence(ac, auth.users)
             /\ PortalIsCovered(auth, stack.drayve_domain) /\ GrafanaKeepsClient(stack)
             /\ quiet => IsQuiet(auth)
<1> DEFINE auth == ExpandAuth(stack.auth)
<1>1. /\ stack \in Stacks /\ host = RenderedHost(stack)
      /\ Preflight(stack) /\ (quiet => IsQuiet(auth))
  BY DEF CheckInv, OnAuthelia
<1>2. IsAuth(stack.auth) /\ stack.drayve_domain \in Seq(STRING)
  BY <1>1, StacksAssumption
<1>4. /\ auth.users = ExpandUsers(stack.auth.users) /\ auth.lldap = stack.auth.lldap
      /\ auth.session = stack.auth.session /\ auth.oidc_clients = stack.auth.oidc_clients
      /\ auth.provider = stack.auth.provider
  BY <1>2, ExpansionKeeps
<1>5. ProviderOf(auth) = "authelia"
  BY <1>1 DEF OnAuthelia, RenderedHost
<1>6. ProviderOf(stack.auth) = "authelia"
  BY <1>4, <1>5 DEF ProviderOf
<1>7. CheckAuth(auth) /\ PortalIsCovered(auth, stack.drayve_domain) /\ GrafanaKeepsClient(stack)
  BY <1>1 DEF Preflight
<1> HIDE DEF auth
<1>8. /\ CheckSession(auth.session) /\ CheckUsers(auth.users) /\ CheckKeys(auth.access_control)
      /\ \/ auth.access_control.default_policy = Absent
         \/ CheckPolicy(auth.access_control.default_policy)
      /\ CheckRules(auth.access_control)
      /\ Truthy(auth.lldap) \/ CheckGroupExistence(auth.access_control, auth.users)
  BY <1>5, <1>7 DEF CheckAuth
<1> QED BY <1>1, <1>2, <1>4, <1>5, <1>6, <1>7, <1>8 DEF auth

\* A list of an accepted rule is rendered as it is meant.
LEMMA ItemsOfList == \A v : CheckStrList(v) => /\ Items(v) = Elements(v)
                                              /\ Items(v) = ListElements(v)
BY DEF CheckStrList, Items, Elements, ListElements

\* With no key misspelled, rules are rendered as they are meant.
LEMMA RulesRenderedAsMeant ==
  ASSUME NEW ac, CheckKeys(ac), CheckRules(ac)
  PROVE  RenderAccessControl(ac) = Meant(ac)
<1>1. Key(ac, "default_policy") = ac.default_policy
  BY DEF Key, CheckKeys
<1>2. CASE ac.rules.t # "list"
  BY <1>1, <1>2 DEF RenderAccessControl, Meant, DefaultOf
<1>3. CASE ac.rules.t = "list"
  <2>1. \A i \in DOMAIN ac.rules.v : CheckRule(ac.rules.v[i])
    BY <1>3 DEF CheckRules, Given
  <2>2. \A i \in DOMAIN ac.rules.v : RenderRule(ac.rules.v[i]) = MeantRule(ac.rules.v[i])
    <3> TAKE i \in DOMAIN ac.rules.v
    <3> DEFINE r == ac.rules.v[i]
    <3>1. CheckRule(r)
      BY <2>1
    <3> HIDE DEF r
    <3>2. \A k \in {"domain", "groups", "resources", "networks"} : Key(r, k) = r[k]
      BY <3>1 DEF CheckRule, CheckKeys, Key
    <3>3. CheckStrList(r.groups) /\ CheckStrList(r.resources) /\ CheckStrList(r.networks)
      BY <3>1 DEF CheckRule, Lists
    <3> QED BY <3>2, <3>3, ItemsOfList DEF RenderRule, MeantRule, r
  <2> QED BY <1>1, <1>3, <2>2 DEF RenderAccessControl, Meant, DefaultOf
<1> QED BY <1>2, <1>3

\* Authelia decides every request as the rules are meant, for every
\* stack.yaml and every request.
THEOREM RulesAreKept == CheckSpec => []RulesMeanWhatIsWritten
<1>1. ASSUME CheckInv PROVE RulesMeanWhatIsWritten
  <2> SUFFICES ASSUME OnAuthelia
               PROVE  host.access_control = Meant(ExpandAuth(stack.auth).access_control)
    BY DEF RulesMeanWhatIsWritten
  <2>1. host.access_control = RenderAccessControl(ExpandAuth(stack.auth).access_control)
    BY <1>1, AcceptedForAuthelia DEF RenderedHost
  <2> QED BY <1>1, <2>1, AcceptedForAuthelia, RulesRenderedAsMeant
<1> QED BY <1>1, ChecksAreCarried, PTL

\* The four parts of LoginWorks.
LEMMA StartsWhenAccepted == ASSUME CheckInv PROVE AutheliaCanStart
<1> SUFFICES ASSUME OnAuthelia
             PROVE  /\ host.access_control.default_policy \in POLICIES
                    /\ host.session["session_remember_me"] # Str(<<"-1">>)
                    /\ \A k \in DOMAIN host.session :
                           host.session[k].t \in {"absent", "null", "duration", "int"}
                    /\ host.portal.https /\ Covers(host.cookie_domain, host.portal.host)
  BY DEF AutheliaCanStart, POLICIES
<1> DEFINE auth == ExpandAuth(stack.auth)
           domain == stack.drayve_domain
<1>1. /\ IsAuth(stack.auth) /\ domain \in Seq(STRING) /\ ProviderOf(auth) = "authelia"
      /\ auth.session = stack.auth.session /\ CheckSession(auth.session)
      /\ auth.access_control.default_policy = Absent
         \/ CheckPolicy(auth.access_control.default_policy)
      /\ PortalIsCovered(auth, domain)
  BY AcceptedForAuthelia
<1>2. /\ host.access_control = RenderAccessControl(auth.access_control)
      /\ host.session = auth.session
      /\ host.cookie_domain = CookieDomain(auth, domain)
      /\ host.portal = Portal(auth, domain)
  BY AcceptedForAuthelia DEF RenderedHost
<1> HIDE DEF auth, domain
<1>3. host.access_control.default_policy \in POLICIES
  <2>1. host.access_control.default_policy = DefaultOf(auth.access_control)
    BY <1>2 DEF RenderAccessControl
  <2> QED BY <1>1, <2>1 DEF DefaultOf, CheckPolicy, POLICIES
<1>4. \A k \in SessionKeys : host.session[k].t \in {"absent", "null", "duration", "int"}
  BY <1>1, <1>2 DEF CheckSession, Given, Duration, Number
<1>5. DOMAIN host.session = SessionKeys /\ "session_remember_me" \in SessionKeys
  BY <1>1, <1>2 DEF IsAuth, SessionKeys
<1>6. host.session["session_remember_me"] # Str(<<"-1">>)
  BY <1>4, <1>5 DEF Str
<1>7. host.portal.https /\ Covers(host.cookie_domain, host.portal.host)
  <2>1. CASE Written(auth.cookie_domain) \/ Written(auth.portal_url)
    BY <1>1, <1>2, <2>1 DEF PortalIsCovered
  <2>2. CASE ~Written(auth.cookie_domain) /\ ~Written(auth.portal_url)
    <3>1. CookieDomain(auth, domain) = domain
      BY <2>2 DEF CookieDomain
    <3>2. auth.portal_url.t # "url"
      BY <2>2 DEF Written, Str
    <3>3. Portal(auth, domain) = [https |-> TRUE, host |-> <<"auth">> \o domain]
      BY <3>2 DEF Portal
    <3>4. Covers(domain, <<"auth">> \o domain)
      BY <1>1 DEF Covers
    <3> QED BY <1>2, <3>1, <3>3, <3>4
  <2> QED BY <2>1, <2>2
<1> QED BY <1>3, <1>4, <1>5, <1>6, <1>7

LEMMA GrafanaHasClient == ASSUME CheckInv PROVE GrafanaCanSignIn
<1> SUFFICES ASSUME OnAuthelia, host.grafana PROVE "grafana" \in host.clients
  BY DEF GrafanaCanSignIn
<1>1. host.clients = IF stack.auth.oidc_clients.t = "list" THEN stack.auth.oidc_clients.v
                     ELSE {"grafana"}
  BY AcceptedForAuthelia DEF RenderedHost
<1>2. GrafanaKeepsClient(stack) /\ ProviderOf(stack.auth) = "authelia"
  BY AcceptedForAuthelia
<1>3. GrafanaOn(stack)
  <2>1. GrafanaOn(stack) \in BOOLEAN
    <3>1. ByProfile(stack) \in BOOLEAN
      BY DEF ByProfile
    <3>2. CASE stack.monitoring_grafana = "absent"
      BY <3>1, <3>2, Zenon DEF GrafanaOn
    <3>3. CASE stack.monitoring_grafana # "absent"
      BY <3>3, Zenon DEF GrafanaOn
    <3> QED BY <3>2, <3>3
  <2>2. host = RenderedHost(stack)
    BY AcceptedForAuthelia
  <2>3. \A b \in BOOLEAN : b = GrafanaOn(stack) => RenderedHost(stack).grafana = b
    BY DEF RenderedHost
  <2> QED BY <2>1, <2>2, <2>3
<1>4. CASE stack.auth.oidc_clients.t = "list"
  <2>1. Given(stack.auth.oidc_clients)
    BY <1>4 DEF Given
  <2>2. "grafana" \in stack.auth.oidc_clients.v
    BY <1>2, <1>3, <2>1 DEF GrafanaKeepsClient
  <2> QED BY <1>1, <1>4, <2>2
<1>5. CASE stack.auth.oidc_clients.t # "list"
  BY <1>1, <1>5
<1> QED BY <1>4, <1>5

LEMMA RemoteIsEndpoint == ASSUME CheckInv PROVE ForwardAuthIsEndpoint
<1> SUFFICES ASSUME pc = "done", host.provider = "authelia_remote"
             PROVE  /\ host.forward.t = "url" /\ host.forward.v.https
                    /\ host.forward.v.path = ForwardAuthPath
  BY DEF ForwardAuthIsEndpoint
<1> DEFINE auth == ExpandAuth(stack.auth)
<1>1. host = RenderedHost(stack) /\ RemoteIsGiven(auth) /\ CheckAuth(auth)
  BY DEF CheckInv, Preflight
<1>2. ProviderOf(auth) = host.provider /\ host.forward = auth.remote.forward_auth_url
  BY <1>1 DEF RenderedHost
<1> HIDE DEF auth
<1>3. Https(auth.remote.forward_auth_url) /\ CheckRemote(auth.remote)
  BY <1>1, <1>2 DEF RemoteIsGiven, CheckAuth
<1> QED BY <1>2, <1>3 DEF Https, CheckRemote

LEMMA NothingIgnored == ASSUME CheckInv PROVE NothingIsIgnored
<1> SUFFICES ASSUME pc = "done", via = "make"
             PROVE  /\ host.provider \in Providers
                    /\ stack.auth.lldap \notin {"absent", "false", "word"} => host.directory
                    /\ stack.auth.ldap => host.ldap_source
  BY DEF NothingIsIgnored
<1> DEFINE auth == ExpandAuth(stack.auth)
<1>1. stack \in Stacks /\ host = RenderedHost(stack) /\ Validate(stack)
  BY DEF CheckInv
<1>2. IsAuth(stack.auth)
  BY <1>1, StacksAssumption
<1>3. /\ auth.lldap = stack.auth.lldap /\ auth.ldap = stack.auth.ldap
      /\ auth.provider = stack.auth.provider
  BY <1>2, ExpansionKeeps
<1>4. /\ host.provider = ProviderOf(auth)
      /\ host.directory = (ProviderOf(auth) = "authelia" /\ Truthy(auth.lldap))
      /\ host.ldap_source = (ProviderOf(auth) = "authentik" /\ auth.ldap)
  BY <1>1 DEF RenderedHost
<1> HIDE DEF auth
<1>5. ProviderOf(auth) = ProviderOf(stack.auth)
  BY <1>3 DEF ProviderOf
<1>6. ProviderOf(stack.auth) \in Providers /\ DirectoryFits(stack.auth)
  BY <1>1 DEF Validate
<1>7. ASSUME stack.auth.lldap \notin {"absent", "false", "word"} PROVE host.directory
  <2>1. ProviderOf(auth) = "authelia" /\ Truthy(auth.lldap)
    BY <1>2, <1>3, <1>5, <1>6, <1>7 DEF IsAuth, DirectoryFits, Truthy
  <2> QED BY <1>4, <2>1
<1>8. ASSUME stack.auth.ldap PROVE host.ldap_source
  <2>1. ProviderOf(auth) = "authentik" /\ auth.ldap
    BY <1>3, <1>5, <1>6, <1>8 DEF DirectoryFits
  <2> QED BY <1>4, <2>1
<1> QED BY <1>4, <1>5, <1>6, <1>7, <1>8

THEOREM AcceptedLoginWorks == CheckSpec => []LoginWorks
<1>1. CheckInv => LoginWorks
  BY StartsWhenAccepted, GrafanaHasClient, RemoteIsEndpoint, NothingIgnored DEF LoginWorks
<1> QED BY <1>1, ChecksAreCarried, PTL

\* The two parts of UsersFileFitsRules.
LEMMA GroupsKept == ASSUME CheckInv PROVE GroupsHaveMembers
<1> SUFFICES ASSUME OnAuthelia, ~host.directory,
                    NEW i \in DOMAIN host.access_control.rules,
                    NEW g \in host.access_control.rules[i].groups
             PROVE  \E u \in host.users : g \in u.groups
  BY DEF GroupsHaveMembers
<1> DEFINE auth == ExpandAuth(stack.auth)
           rules == auth.access_control.rules
           users == auth.users
<1>1. /\ host = RenderedHost(stack) /\ ProviderOf(auth) = "authelia"
      /\ CheckUsers(users) /\ CheckRules(auth.access_control)
      /\ Truthy(auth.lldap) \/ CheckGroupExistence(auth.access_control, users)
  BY AcceptedForAuthelia
<1>2. /\ host.access_control = RenderAccessControl(auth.access_control)
      /\ host.users = RenderUsers(users)
      /\ host.directory = (ProviderOf(auth) = "authelia" /\ Truthy(auth.lldap))
  BY <1>1 DEF RenderedHost
<1>3. CheckGroupExistence(auth.access_control, users)
  BY <1>1, <1>2
<1> HIDE DEF auth
<1>4. rules.t = "list" /\ i \in DOMAIN rules.v
      /\ host.access_control.rules[i] = RenderRule(rules.v[i])
  BY <1>2 DEF RenderAccessControl
<1>5. CheckRule(rules.v[i])
  BY <1>1, <1>4 DEF CheckRules, Given
<1>6. CheckStrList(rules.v[i].groups) /\ CheckTemplateSyntax(rules.v[i].groups)
  BY <1>5 DEF CheckRule, Lists
<1>7. g \in ListElements(rules.v[i].groups)
  BY <1>4, <1>6, ItemsOfList DEF RenderRule
<1>8. ~HasTemplate(g)
  BY <1>6, <1>7 DEF CheckTemplateSyntax, ListElements, Elements
<1>9. g \in KnownGroups(users)
  BY <1>3, <1>4, <1>7, <1>8 DEF CheckGroupExistence
<1>10. PICK j \in DOMAIN users.v : users.t = "list" /\ g \in ListElements(users.v[j].groups)
  BY <1>9 DEF KnownGroups
<1>11. CheckStrList(users.v[j].groups)
  BY <1>1, <1>10 DEF CheckUsers, Given
<1>12. g \in Items(users.v[j].groups)
  BY <1>10, <1>11, ItemsOfList
<1>13. [name |-> users.v[j].name.v, groups |-> Items(users.v[j].groups)] \in host.users
  BY <1>2, <1>10 DEF RenderUsers
<1> QED BY <1>12, <1>13

LEMMA UsersApart == ASSUME CheckInv PROVE UsersAreKeptApart
<1> SUFFICES ASSUME OnAuthelia
             PROVE  /\ Cardinality(host.users) = (IF stack.auth.users.t = "list"
                                                  THEN Len(stack.auth.users.v) ELSE 0)
                    /\ \A u, w \in host.users : u.name[Len(u.name)] = w.name[Len(w.name)] => u = w
  BY DEF UsersAreKeptApart
<1> DEFINE written == stack.auth.users
           users == ExpandUsers(written)
<1>1. /\ host = RenderedHost(stack) /\ IsAuth(stack.auth)
      /\ ExpandAuth(stack.auth).users = users /\ CheckUsers(users)
  BY AcceptedForAuthelia
<1>2. host.users = RenderUsers(users)
  BY <1>1 DEF RenderedHost
<1>3. CASE written.t # "list"
  <2>1. users.t # "list"
    BY <1>3 DEF ExpandUsers
  <2>2. host.users = {}
    BY <1>2, <2>1 DEF RenderUsers
  <2> QED BY <1>3, <2>2, FS_EmptySet
<1>4. CASE written.t = "list"
  <2> DEFINE n == Len(written.v)
             entry == [i \in 1 .. n |-> [name   |-> users.v[i].name.v,
                                         groups |-> Items(users.v[i].groups)]]
  <2>0. n \in Nat /\ DOMAIN written.v = 1 .. n
    BY <1>1, <1>4 DEF IsAuth, IsList
  <2>1. users.t = "list" /\ DOMAIN users.v = 1 .. n
    BY <1>4, <2>0 DEF ExpandUsers, List
  <2>2. \A i, j \in 1 .. n : Fold(users.v[i].name.v) = Fold(users.v[j].name.v) => i = j
    BY <1>1, <2>1 DEF CheckUsers, Given
  <2>3. host.users = {entry[i] : i \in 1 .. n}
    BY <1>2, <2>1 DEF RenderUsers
  <2>4. \A i \in 1 .. n : entry[i].name = users.v[i].name.v
    OBVIOUS
  <2> HIDE DEF n, entry
  <2>5. \A i, j \in 1 .. n :
            entry[i].name[Len(entry[i].name)] = entry[j].name[Len(entry[j].name)] => i = j
    BY <2>2, <2>4 DEF Fold
  <2>6. \A i, j \in 1 .. n : entry[i] = entry[j] => i = j
    BY <2>5
  <2>7. DOMAIN entry = 1 .. n /\ entry = [i \in 1 .. n |-> entry[i]]
    BY DEF entry
  <2>8. entry \in Bijection(1 .. n, host.users)
    BY <2>3, <2>6, <2>7 DEF Bijection, Injection, Surjection, IsInjective
  <2>9. IsFiniteSet(1 .. n) /\ Cardinality(1 .. n) = n
    BY <2>0, FS_Interval
  <2>10. Cardinality(host.users) = n
    BY <2>8, <2>9, FS_Bijection DEF ExistsBijection
  <2> QED BY <1>4, <2>3, <2>5, <2>10 DEF n
<1> QED BY <1>3, <1>4

\* The users file fits the rules, for every list of users and rules.
THEOREM UsersFitRules == CheckSpec => []UsersFileFitsRules
<1>1. CheckInv => UsersFileFitsRules
  BY GroupsKept, UsersApart DEF UsersFileFitsRules
<1> QED BY <1>1, ChecksAreCarried, PTL

\* A wildcard covers the name it is of only through another domain; the bare
\* domain, taken as a pattern, matches itself.
LEMMA MatchesItself == \A d \in Seq(STRING) : MatchesDomain(d, d)
<1> TAKE d \in Seq(STRING)
<1>1. CASE d # << >> /\ d[1] = "*"
  <2>1. Len(d) > Len(d) - 1
    OBVIOUS
  <2>2. Covers(Tail(d), d)
    BY <1>1 DEF Covers
  <2> QED BY <1>1, <2>1, <2>2 DEF MatchesDomain
<1> QED BY <1>1 DEF MatchesDomain

\* What a rule without a warning can match.
LEMMA QuietRule ==
  ASSUME NEW r, CheckRule(r), RuleIsQuiet(r), Elements(r.domain) \subseteq Seq(STRING),
         r.policy.t = "str" => r.policy = Str(r.policy.v),
         \A regex \in ListElements(r.resources) : OneSegment(regex)
  PROVE  LET rule == RenderRule(r) IN
         /\ \A d \in rule.domain :
                d # << >> /\ d[1] = "*" => \E e \in rule.domain : MatchesDomain(e, Tail(d))
         /\ \A q \in Requests :
                rule.policy = "bypass" /\ rule.groups = {} /\ Matches(rule, q)
                => \/ q.host \in rule.domain /\ rule.resources = {}
                   \/ \E regex \in rule.resources : regex = <<"^", q.path[1]>>
<1> DEFINE rule == RenderRule(r)
<1>1. /\ rule.domain = Elements(r.domain) /\ rule.policy = r.policy.v
      /\ rule.groups = ListElements(r.groups) /\ rule.resources = ListElements(r.resources)
  <2>1. CheckStrList(r.groups) /\ CheckStrList(r.resources)
    BY DEF CheckRule, Lists
  <2> QED BY <2>1, ItemsOfList DEF RenderRule
<1> HIDE DEF rule
<1>2. ASSUME NEW d \in rule.domain, d # << >> /\ d[1] = "*"
      PROVE  \E e \in rule.domain : MatchesDomain(e, Tail(d))
  <2>1. d \in Wildcards(r)
    BY <1>1, <1>2 DEF Wildcards
  <2>2. Tail(d) \in Elements(r.domain)
    BY <2>1 DEF RuleIsQuiet
  <2>3. Tail(d) \in Seq(STRING)
    BY <2>2
  <2> QED BY <1>1, <2>2, <2>3, MatchesItself
<1>3. ASSUME NEW q \in Requests, rule.policy = "bypass", rule.groups = {}, Matches(rule, q)
      PROVE  \/ q.host \in rule.domain /\ rule.resources = {}
             \/ \E regex \in rule.resources : regex = <<"^", q.path[1]>>
  <2>1. IsBypass(r)
    BY <1>1, <1>3 DEF CheckRule, CheckPolicy, IsBypass
  <2>2. CASE rule.resources = {}
    <3>1. Wildcards(r) = {}
      BY <1>1, <1>3, <2>1, <2>2 DEF RuleIsQuiet
    <3>2. PICK d \in rule.domain : MatchesDomain(d, q.host)
      BY <1>3 DEF Matches
    <3>3. q.host = d
      BY <1>1, <3>1, <3>2 DEF Wildcards, MatchesDomain
    <3> QED BY <2>2, <3>2, <3>3
  <2>3. CASE rule.resources # {}
    <3>1. PICK regex \in rule.resources : MatchesPath(regex, q.path)
      BY <1>3, <2>3 DEF Matches
    <3>2. regex # << >> /\ regex[1] = "^"
      BY <1>1, <2>1, <3>1 DEF RuleIsQuiet
    <3>3. regex = <<"^", regex[2]>>
      BY <1>1, <3>1, <3>2 DEF OneSegment
    <3>4. q.path[1] = regex[2]
      BY <3>1, <3>2 DEF MatchesPath
    <3> QED BY <3>1, <3>3, <3>4
  <2> QED BY <2>2, <2>3
<1> QED BY <1>2, <1>3 DEF rule

\* Without a warning no rule lets in more than its author names, for every
\* stack.yaml and every request.
THEOREM QuietRulesAreNarrow == CheckSpec => []WarningsAreEnough
<1>1. ASSUME CheckInv PROVE WarningsAreEnough
  <2> SUFFICES ASSUME OnAuthelia, quiet, NEW i \in DOMAIN host.access_control.rules
               PROVE  LET rule == host.access_control.rules[i] IN
                      /\ \A d \in rule.domain :
                             d # << >> /\ d[1] = "*"
                             => \E e \in rule.domain : MatchesDomain(e, Tail(d))
                      /\ \A q \in Requests :
                             rule.policy = "bypass" /\ rule.groups = {} /\ Matches(rule, q)
                             => \/ q.host \in rule.domain /\ rule.resources = {}
                                \/ \E r \in rule.resources : r = <<"^", q.path[1]>>
    BY DEF WarningsAreEnough
  <2> DEFINE auth == ExpandAuth(stack.auth)
             old == stack.auth.access_control.rules
             rules == auth.access_control.rules
  <2>1. /\ host = RenderedHost(stack) /\ IsAuth(stack.auth) /\ ProviderOf(auth) = "authelia"
        /\ CheckRules(auth.access_control) /\ IsQuiet(auth)
    BY <1>1, AcceptedForAuthelia
  <2>2. host.access_control = RenderAccessControl(auth.access_control)
    BY <2>1 DEF RenderedHost
  <2>3. rules.t = "list" /\ i \in DOMAIN rules.v
        /\ host.access_control.rules[i] = RenderRule(rules.v[i])
    BY <2>2 DEF RenderAccessControl
  <2>4. CheckRule(rules.v[i]) /\ RuleIsQuiet(rules.v[i])
    BY <2>1, <2>3 DEF CheckRules, Given, IsQuiet
  <2>5. rules.v[i] = ExpandRule(old.v[i]) /\ IsRule(old.v[i])
    BY <2>1, <2>3, ExpansionKeeps
  <2>6. /\ Elements(rules.v[i].domain) \subseteq Seq(STRING) /\ rules.v[i].policy = old.v[i].policy
        /\ \A regex \in ListElements(rules.v[i].resources) : OneSegment(regex)
    BY <2>5, ExpandedRule
  <2>7. rules.v[i].policy.t = "str" => rules.v[i].policy = Str(rules.v[i].policy.v)
    BY <2>5, <2>6 DEF IsRule
  <2> HIDE DEF rules
  <2> QED BY <2>3, <2>4, <2>6, <2>7, QuietRule
<1> QED BY <1>1, ChecksAreCarried, PTL
=============================================================================
