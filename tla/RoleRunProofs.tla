---------------------------- MODULE RoleRunProofs -----------------------------
(***************************************************************************)
(* Proofs about RoleRun, for any providers, edits and cut runs.            *)
(*                                                                         *)
(* None of the properties is inductive.  What a removal may do depends on  *)
(* what the tasks before it have written, so each invariant says for every *)
(* position of a run what its earlier tasks have established, and that     *)
(* edits of the site do not touch it.                                      *)
(***************************************************************************)
EXTENDS RoleRun, FiniteSetTheorems, TLAPS

RunType ==
    [pc : 0 .. 13, tags : TagSets \cup {"none"}, provider : Providers \cup {"none"},
     loaded : BOOLEAN, wants : SUBSET Receivers, addressed : SUBSET Receivers,
     left : SUBSET AuthFiles, changed : BOOLEAN, file : BOOLEAN]

SiteTyped == provider \in Providers /\ secrets \in {None} \cup SUBSET Receivers /\ addressed \subseteq Receivers

FilesTyped ==
    /\ middleware \in [AuthFiles -> Providers \cup {"absent"}]
    /\ contact \subseteq Receivers /\ policy \in {None} \cup ((SUBSET Receivers) \ {{}})
    /\ compose \in {None} \cup SUBSET Receivers

RunTyped == run \in RunType /\ (run.pc # Idle => run.provider \in Providers /\ run.tags # "none")

CountsTyped == edits \in Nat /\ edits <= MaxEdits /\ faults \in Nat /\ faults <= MaxFaults

TypeInv == SiteTyped /\ FilesTyped /\ RunTyped /\ CountsTyped

LEMMA InitTyped == Init => TypeInv
  BY BoundsAssumption
  DEF Init, TypeInv, SiteTyped, FilesTyped, RunTyped, CountsTyped, RunType, NoRun, NoMiddleware, Idle, AuthFiles

(* The updates of a run: its position, and one register with it. *)
WithLeft(r, s, p) == [r EXCEPT !.left = s, !.pc = p]
WithChanged(r, p, b) == [r EXCEPT !.pc = p, !.changed = b]
WithFile(r, p, b) == [r EXCEPT !.pc = p, !.file = b]
Loads(t) == HasFile /\ t # "monitoring"
NewRun(p, t, a, w, d) ==
    [NoRun EXCEPT !.pc = p, !.tags = t, !.provider = a, !.loaded = Loads(t), !.wants = w, !.addressed = d]

LEMMA UpdateLeft ==
  ASSUME NEW r \in RunType, NEW p \in 0 .. 13, NEW s \in SUBSET AuthFiles
  PROVE  /\ WithLeft(r, s, p) \in RunType
         /\ WithLeft(r, s, p).pc = p /\ WithLeft(r, s, p).left = s
         /\ WithLeft(r, s, p).provider = r.provider /\ WithLeft(r, s, p).tags = r.tags
         /\ (WithLeft(r, s, p).file <=> r.file)
  BY DEF RunType, WithLeft

LEMMA UpdateChanged ==
  ASSUME NEW r \in RunType, NEW p \in 0 .. 13, NEW b \in BOOLEAN
  PROVE  /\ WithChanged(r, p, b) \in RunType
         /\ WithChanged(r, p, b).pc = p /\ WithChanged(r, p, b).left = r.left
         /\ WithChanged(r, p, b).provider = r.provider /\ WithChanged(r, p, b).tags = r.tags
         /\ WithChanged(r, p, b).wants = r.wants
         /\ (WithChanged(r, p, b).loaded <=> r.loaded) /\ (WithChanged(r, p, b).file <=> r.file)
  BY DEF RunType, WithChanged

LEMMA UpdateFile ==
  ASSUME NEW r \in RunType, NEW p \in 0 .. 13, NEW b \in BOOLEAN
  PROVE  /\ WithFile(r, p, b) \in RunType
         /\ WithFile(r, p, b).pc = p /\ WithFile(r, p, b).left = r.left
         /\ WithFile(r, p, b).provider = r.provider /\ WithFile(r, p, b).tags = r.tags
         /\ WithFile(r, p, b).wants = r.wants
         /\ (WithFile(r, p, b).loaded <=> r.loaded) /\ (WithFile(r, p, b).file <=> b)
  BY DEF RunType, WithFile

LEMMA NewRunTyped ==
  ASSUME NEW p \in 0 .. 13, NEW t \in TagSets, NEW a \in Providers,
         NEW w \in SUBSET Receivers, NEW d \in SUBSET Receivers
  PROVE  NewRun(p, t, a, w, d) \in RunType
  BY DEF RunType, NoRun, Idle, NewRun, Loads

LEMMA NewRunFields ==
  ASSUME NEW p, NEW t, NEW a, NEW w, NEW d
  PROVE  /\ NewRun(p, t, a, w, d).pc = p /\ NewRun(p, t, a, w, d).tags = t
         /\ NewRun(p, t, a, w, d).provider = a
         /\ NewRun(p, t, a, w, d).wants = w /\ NewRun(p, t, a, w, d).left = AuthFiles
  BY DEF NoRun, NewRun

LEMMA NewRunRegisters ==
  ASSUME NEW p, NEW t, NEW a, NEW w, NEW d
  PROVE  (NewRun(p, t, a, w, d).loaded <=> Loads(t)) /\ ~NewRun(p, t, a, w, d).file
  BY DEF NoRun, NewRun, Loads

LEMMA FirstIsPosition == \A tags : First(tags) \in 0 .. 13 /\ First(tags) \in {1, 3}
  BY DEF First

(* What a run starts with; the secrets count if it has loaded them. *)
LEMMA RunStarts ==
  ASSUME SiteTyped, NEW tags, StartRun(tags)
  PROVE  \E w \in SUBSET Receivers : run' = NewRun(First(tags), tags, provider, w, addressed)
<1> DEFINE w == IF Loads(tags) THEN secrets ELSE {}
<1>1. w \in SUBSET Receivers
  BY DEF SiteTyped, HasFile, Loads
<1>2. run' = NewRun(First(tags), tags, provider, w, addressed)
  BY DEF StartRun, NewRun, Loads
<1> HIDE DEF w
<1> QED
  BY <1>1, <1>2

(* A run goes forward: the next position is a position. *)
LEMMA NextIsPosition ==
  ASSUME RunTyped, run.pc # Done
  PROVE  NextPc \in 0 .. 13 /\ NextPc # Idle
  BY DEF RunTyped, RunType, NextPc, Done, Idle

LEMMA AdvanceTyped ==
  ASSUME RunTyped, run.pc \notin {Idle, Done}, Advance PROVE RunTyped'
  BY NextIsPosition DEF Advance, RunTyped, RunType

LEMMA AbortTyped == ASSUME RunTyped, Abort PROVE RunTyped'
  BY DEF Abort, RunTyped, RunType, Idle

(* One step per action. *)
LEMMA TypeStep == TypeInv /\ [Next]_vars => TypeInv'
<1> SUFFICES ASSUME TypeInv, [Next]_vars PROVE TypeInv'
  OBVIOUS
<1> USE DEF TypeInv, site, host, alerting, bounds
<1>1. CASE EditSite
  <2>1. SiteTyped'
    BY <1>1 DEF EditSite, SiteTyped
  <2>2. CountsTyped'
    BY <1>1, BoundsAssumption DEF EditSite, CountsTyped
  <2> QED
    BY <1>1, <2>1, <2>2 DEF EditSite, FilesTyped, RunTyped
<1>2. CASE Restart
  BY <1>2 DEF Restart, SiteTyped, FilesTyped, RunTyped, CountsTyped
<1>3. CASE CutOff
  BY <1>3, AbortTyped, BoundsAssumption DEF CutOff, SiteTyped, FilesTyped, CountsTyped
<1>4. ASSUME NEW tags \in TagSets, StartRun(tags) PROVE TypeInv'
  <2>1. PICK w \in SUBSET Receivers : run' = NewRun(First(tags), tags, provider, w, addressed)
    BY <1>4, RunStarts DEF TypeInv
  <2>2. run' \in RunType /\ run'.tags = tags /\ run'.provider = provider
    <3>1. First(tags) \in 0 .. 13 /\ provider \in Providers /\ addressed \in SUBSET Receivers /\ tags \in TagSets
      BY <1>4, FirstIsPosition DEF SiteTyped
    <3>2. w \in SUBSET Receivers
      BY <2>1
    <3>3. NewRun(First(tags), tags, provider, w, addressed) \in RunType
      BY <3>1, <3>2, NewRunTyped
    <3>4. NewRun(First(tags), tags, provider, w, addressed).tags = tags
      BY NewRunFields
    <3>5. NewRun(First(tags), tags, provider, w, addressed).provider = provider
      BY NewRunFields
    <3> QED
      BY <2>1, <3>3, <3>4, <3>5
  <2>3. RunTyped'
    BY <2>2, <1>4 DEF RunTyped, SiteTyped, TagSets, StartRun
  <2> QED
    BY <1>4, <2>3 DEF StartRun, SiteTyped, FilesTyped, CountsTyped
<1>5. CASE Middleware
  <2>1. RunTyped'
    BY <1>5, AdvanceTyped DEF Middleware, At, Position, Idle, Done
  <2>2. run.provider \in Providers
    BY <1>5 DEF Middleware, At, Position, RunTyped, Idle
  <2> QED
    BY <1>5, <2>1, <2>2 DEF Middleware, DeployMiddleware, SiteTyped, FilesTyped, CountsTyped
<1>6. ASSUME NEW f \in AuthFiles, RemoveStale(f) PROVE TypeInv'
  <2>0. run.pc = 2 /\ NextPc \in 0 .. 13 /\ NextPc # Idle
    BY <1>6, NextIsPosition DEF RemoveStale, At, Position, Done
  <2>1. RunTyped'
    <3> DEFINE p == IF run.left = {f} THEN NextPc ELSE run.pc
    <3>1. run \in RunType /\ run.left \ {f} \in SUBSET AuthFiles /\ p \in 0 .. 13
      BY <2>0 DEF RunTyped, RunType
    <3>2. run' = WithLeft(run, run.left \ {f}, p)
      BY <1>6 DEF RemoveStale, WithLeft
    <3> HIDE DEF p
    <3>3. run' \in RunType /\ run'.provider = run.provider /\ run'.tags = run.tags
      BY <3>1, <3>2, UpdateLeft
    <3> QED
      BY <3>3, <2>0 DEF RunTyped, Idle
  <2> QED
    BY <1>6, <2>1 DEF RemoveStale, RemoveIfStale, SiteTyped, FilesTyped, CountsTyped
<1>7. ASSUME NEW r \in Receivers, ContactPoint(r) PROVE TypeInv'
  <2>0. run.pc \in {3, 4} /\ NextPc \in 0 .. 13 /\ NextPc # Idle
    BY <1>7, NextIsPosition DEF ContactPoint, At, Position, Receivers, Done
  <2>1. RunTyped'
    <3> DEFINE b == run.changed \/ contact' # contact
    <3>1. run \in RunType /\ b \in BOOLEAN
      BY DEF RunTyped, RunType
    <3>2. run' = WithChanged(run, NextPc, b)
      BY <1>7 DEF ContactPoint, WithChanged
    <3> HIDE DEF b
    <3>3. run' \in RunType /\ run'.provider = run.provider /\ run'.tags = run.tags
      BY <2>0, <3>1, <3>2, UpdateChanged
    <3> QED
      BY <3>3, <2>0 DEF RunTyped, Idle
  <2> QED
    BY <1>7, <2>1 DEF ContactPoint, DeployContactPoint, SiteTyped, FilesTyped, CountsTyped
<1>8. ASSUME NEW r \in Receivers, AddressMissing(r) PROVE TypeInv'
  BY <1>8, AbortTyped DEF AddressMissing, SiteTyped, FilesTyped, CountsTyped
<1>9. ASSUME NEW r \in Receivers, NoContactPoint(r) PROVE TypeInv'
  <2>1. RunTyped'
    BY <1>9, AdvanceTyped DEF NoContactPoint, Position, Idle, Done
  <2> QED
    BY <1>9, <2>1 DEF NoContactPoint, RemoveContactPoint, SiteTyped, FilesTyped, CountsTyped
<1>10. CASE Policy
  <2>0. run.pc = 5 /\ NextPc \in 0 .. 13 /\ NextPc # Idle
    BY <1>10, NextIsPosition DEF Policy, At, Position, Done
  <2>1. RunTyped'
    <3> DEFINE b == run.changed \/ policy' # policy
    <3>1. run \in RunType /\ b \in BOOLEAN
      BY DEF RunTyped, RunType
    <3>2. run' = WithChanged(run, NextPc, b)
      BY <1>10 DEF Policy, WithChanged
    <3> HIDE DEF b
    <3>3. run' \in RunType /\ run'.provider = run.provider /\ run'.tags = run.tags
      BY <2>0, <3>1, <3>2, UpdateChanged
    <3> QED
      BY <3>3, <2>0 DEF RunTyped, Idle
  <2>2. run.wants \in SUBSET Receivers
    BY DEF RunTyped, RunType
  <2>3. FilesTyped'
    BY <1>10, <2>2 DEF Policy, DeployPolicy, FilesTyped
  <2> QED
    BY <1>10, <2>1, <2>3 DEF Policy, SiteTyped, CountsTyped
<1>11. CASE Guard
  <2>0. run.pc = 6 /\ NextPc \in 0 .. 13 /\ NextPc # Idle
    BY <1>11, NextIsPosition DEF Guard, At, Position, Done
  <2>1. CASE GuardHolds(run.loaded, run.wants)
    <3>1. run' = WithFile(run, NextPc, HasFile) /\ HasFile \in BOOLEAN
      BY <1>11, <2>1 DEF Guard, HasFile, WithFile
    <3>2. RunTyped'
      <4>1. run \in RunType
        BY DEF RunTyped
      <4>2. run' \in RunType /\ run'.provider = run.provider /\ run'.tags = run.tags
        BY <2>0, <3>1, <4>1, UpdateFile
      <4> QED
        BY <2>0, <4>2 DEF RunTyped, Idle
    <3> QED
      BY <1>11, <3>2 DEF Guard, SiteTyped, FilesTyped, CountsTyped
  <2>2. CASE ~GuardHolds(run.loaded, run.wants)
    BY <1>11, <2>2, AbortTyped DEF Guard, SiteTyped, FilesTyped, CountsTyped
  <2> QED
    BY <2>1, <2>2
<1>12. CASE NoPolicy
  <2>1. RunTyped'
    BY <1>12, AdvanceTyped DEF NoPolicy, At, Position, Idle, Done
  <2> QED
    BY <1>12, <2>1 DEF NoPolicy, RemovePolicy, SiteTyped, FilesTyped, CountsTyped
<1>13. CASE RecreateGrafana
  <2>1. RunTyped'
    BY <1>13, AdvanceTyped DEF RecreateGrafana, At, Position, Idle, Done
  <2> QED
    BY <1>13, <2>1 DEF RecreateGrafana, SiteTyped, FilesTyped, CountsTyped
<1>14. CASE Render
  <2>1. RunTyped'
    BY <1>14, AdvanceTyped, AbortTyped DEF Render, At, Position, Idle, Done
  <2> QED
    BY <1>14, <2>1 DEF Render, RenderCompose, SiteTyped, FilesTyped, RunTyped, RunType, CountsTyped
<1>15. CASE Up
  <2>1. RunTyped'
    BY <1>15, AdvanceTyped DEF Up, At, Position, Idle, Done
  <2> QED
    BY <1>15, <2>1 DEF Up, SiteTyped, FilesTyped, CountsTyped
<1>16. CASE UNCHANGED vars
  BY <1>16 DEF vars, SiteTyped, FilesTyped, RunTyped, CountsTyped
<1> QED
  BY <1>1, <1>2, <1>3, <1>4, <1>5, <1>6, <1>7, <1>8, <1>9, <1>10, <1>11, <1>12, <1>13, <1>14,
     <1>15, <1>16 DEF Next

(* Type correctness, for any providers and bounds. *)
THEOREM TypeCorrect == Spec => []TypeOK
<1>1. TypeInv => TypeOK
  BY BoundsAssumption DEF TypeInv, TypeOK, SiteTyped, FilesTyped, RunTyped, RunType, CountsTyped, Idle, Done
<1> QED
  BY InitTyped, TypeStep, <1>1, PTL DEF Spec

LEMMA AlwaysTyped == Spec => []TypeInv
  BY InitTyped, TypeStep, PTL DEF Spec

------------------------------------------------------------------------------
(* What a step does to the run.  It goes on to the next position, with the *)
(* facts it started with.                                                  *)
Kept ==
    /\ run'.tags = run.tags /\ run'.provider = run.provider /\ run'.wants = run.wants
    /\ (run'.loaded <=> run.loaded)

MovesOn == Kept /\ run'.pc = NextPc /\ run'.left = run.left

LEMMA AdvanceMovesOn ==
  ASSUME RunTyped, Advance PROVE MovesOn /\ (run'.file <=> run.file)
  BY DEF Advance, RunTyped, RunType, MovesOn, Kept

LEMMA ContactPointMovesOn ==
  ASSUME RunTyped, NEW r \in Receivers, ContactPoint(r) PROVE MovesOn /\ (run'.file <=> run.file)
<1> DEFINE b == run.changed \/ contact' # contact
<1>1. run \in RunType /\ b \in BOOLEAN /\ NextPc \in 0 .. 13
  BY NextIsPosition DEF RunTyped, RunType, ContactPoint, At, Position, Receivers, Done
<1>2. run' = WithChanged(run, NextPc, b)
  BY DEF ContactPoint, WithChanged
<1> HIDE DEF b
<1> QED
  BY <1>1, <1>2, UpdateChanged DEF MovesOn, Kept

LEMMA PolicyMovesOn ==
  ASSUME RunTyped, Policy PROVE MovesOn /\ (run'.file <=> run.file)
<1> DEFINE b == run.changed \/ policy' # policy
<1>1. run \in RunType /\ b \in BOOLEAN /\ NextPc \in 0 .. 13
  BY NextIsPosition DEF RunTyped, RunType, Policy, At, Position, Done
<1>2. run' = WithChanged(run, NextPc, b)
  BY DEF Policy, WithChanged
<1> HIDE DEF b
<1> QED
  BY <1>1, <1>2, UpdateChanged DEF MovesOn, Kept

LEMMA GuardMovesOn ==
  ASSUME RunTyped, Guard, GuardHolds(run.loaded, run.wants)
  PROVE  MovesOn /\ (run'.file <=> HasFile)
<1>1. run \in RunType /\ HasFile \in BOOLEAN /\ NextPc \in 0 .. 13
  BY NextIsPosition DEF RunTyped, Guard, At, Position, Done, HasFile
<1>2. run' = WithFile(run, NextPc, HasFile)
  BY DEF Guard, WithFile
<1> QED
  BY <1>1, <1>2, UpdateFile DEF MovesOn, Kept

LEMMA AbortIsIdle == ASSUME RunTyped, Abort PROVE run'.pc = Idle
  BY DEF RunTyped, RunType, Abort

LEMMA StartIsFresh ==
  ASSUME TypeInv, NEW tags \in TagSets, StartRun(tags)
  PROVE  /\ run'.pc = First(tags) /\ run'.tags = tags /\ run'.left = AuthFiles
         /\ ~run'.file /\ run'.pc \in {1, 3}
<1>1. PICK w \in SUBSET Receivers : run' = NewRun(First(tags), tags, provider, w, addressed)
  BY RunStarts DEF TypeInv
<1>2. run'.pc = First(tags) /\ run'.tags = tags /\ run'.left = AuthFiles
  BY <1>1, NewRunFields
<1>3. ~run'.file
  BY <1>1, NewRunRegisters
<1> QED
  BY <1>2, <1>3, FirstIsPosition

------------------------------------------------------------------------------
(* The files of the auth middleware.                                       *)
HasTraefikRole == run.tags \in {"full", "traefik"}

AuthProgress ==
    /\ run.pc \in {1, 2} => HasTraefikRole
    /\ run.pc = 1 => run.left = AuthFiles
    /\ run.pc = 2 =>
         /\ middleware[FileOf(run.provider)] = run.provider
         /\ \A f \in AuthFiles \ run.left : f # FileOf(run.provider) => middleware[f] = "absent"
    /\ run.pc \in 3 .. 13 /\ HasTraefikRole => MiddlewareInPlace(run.provider)

LEMMA FileOfProvider ==
  ASSUME NEW p \in Providers
  PROVE  FileOf(p) \in AuthFiles /\ p # "absent" /\ (p # "none" => FileOf(p) # "none")
  BY ProvidersAssumption DEF FileOf, AuthFiles

LEMMA InitAuth == Init => AuthProgress
  BY DEF Init, AuthProgress, NoRun, Idle

(* A step that leaves the files alone, of a run that moves on past the role, stops or starts. *)
LEMMA AuthRests ==
  ASSUME TypeInv, AuthProgress, UNCHANGED middleware,
         \/ run.pc \in 3 .. 12 /\ MovesOn
         \/ run'.pc = Idle
         \/ UNCHANGED run
  PROVE  AuthProgress'
<1>1. CASE run.pc \in 3 .. 12 /\ MovesOn
  <2>1. run'.pc \in 3 .. 13 /\ run'.tags = run.tags /\ run'.provider = run.provider
    BY <1>1 DEF MovesOn, Kept, NextPc, Done
  <2> QED
    BY <1>1, <2>1 DEF AuthProgress, HasTraefikRole, MiddlewareInPlace
<1>2. CASE run'.pc = Idle
  BY <1>2 DEF AuthProgress, Idle
<1>3. CASE UNCHANGED run
  BY <1>3 DEF AuthProgress, HasTraefikRole, MiddlewareInPlace
<1> QED
  BY <1>1, <1>2, <1>3

LEMMA AuthStep == TypeInv /\ AuthProgress /\ [Next]_vars => AuthProgress'
<1> SUFFICES ASSUME TypeInv, AuthProgress, [Next]_vars PROVE AuthProgress'
  OBVIOUS
<1> USE DEF host, alerting, TypeInv
<1>1. CASE EditSite
  BY <1>1, AuthRests DEF EditSite
<1>2. CASE Restart
  BY <1>2, AuthRests DEF Restart
<1>3. CASE CutOff
  BY <1>3, AuthRests, AbortIsIdle DEF CutOff
<1>4. ASSUME NEW tags \in TagSets, StartRun(tags) PROVE AuthProgress'
  <2>1. run'.pc = First(tags) /\ run'.tags = tags /\ run'.left = AuthFiles
    BY <1>4, StartIsFresh
  <2>2. CASE tags \in {"full", "traefik"}
    BY <2>1, <2>2 DEF AuthProgress, HasTraefikRole, First
  <2>3. CASE tags \notin {"full", "traefik"}
    BY <2>1, <2>3 DEF AuthProgress, HasTraefikRole, First
  <2> QED
    BY <2>2, <2>3
<1>5. CASE Middleware
  <2> DEFINE p == run.provider
  <2>1. run.pc = 1 /\ MovesOn /\ HasTraefikRole /\ run.left = AuthFiles /\ p \in Providers
    BY <1>5, AdvanceMovesOn DEF Middleware, At, Position, AuthProgress, RunTyped, Idle
  <2>2. run'.pc = 2 /\ run'.tags = run.tags /\ run'.provider = p /\ run'.left = AuthFiles
    BY <2>1 DEF MovesOn, Kept, NextPc, Last, HasTraefikRole
  <2>3. middleware'[FileOf(p)] = p
    BY <1>5, <2>1, FileOfProvider DEF Middleware, DeployMiddleware, FilesTyped
  <2> HIDE DEF p
  <2> QED
    BY <2>1, <2>2, <2>3 DEF AuthProgress, HasTraefikRole
<1>6. ASSUME NEW f \in AuthFiles, RemoveStale(f) PROVE AuthProgress'
  <2> DEFINE p == run.provider
             next == IF run.left = {f} THEN NextPc ELSE run.pc
  <2>1. /\ run.pc = 2 /\ HasTraefikRole /\ p \in Providers /\ f \in run.left
        /\ middleware[FileOf(p)] = p
        /\ \A g \in AuthFiles \ run.left : g # FileOf(p) => middleware[g] = "absent"
    BY <1>6 DEF RemoveStale, At, Position, AuthProgress, RunTyped, Idle
  <2>2. run \in RunType /\ run.left \ {f} \in SUBSET AuthFiles /\ next \in 0 .. 13
    BY <2>1, NextIsPosition DEF RunTyped, RunType, Done
  <2>3. run' = WithLeft(run, run.left \ {f}, next)
    BY <1>6 DEF RemoveStale, WithLeft
  <2>4. next \in {2, 3, 13} /\ (next # 2 => run.left = {f})
    BY <2>1 DEF NextPc, Done
  <2> HIDE DEF next
  <2>5. run'.pc = next /\ run'.left = run.left \ {f} /\ run'.provider = p /\ run'.tags = run.tags
    BY <2>2, <2>3, UpdateLeft
  <2>6. FileOf(p) \in AuthFiles
    BY <2>1, FileOfProvider
  <2>7. /\ middleware' \in [AuthFiles -> Providers \cup {"absent"}]
        /\ middleware'[FileOf(p)] = p
        /\ \A g \in AuthFiles \ (run.left \ {f}) : g # FileOf(p) => middleware'[g] = "absent"
    BY <1>6, <2>1, <2>6, TypeStep DEF RemoveStale, RemoveIfStale, Stale, FilesTyped
  <2> HIDE DEF p
  <2>8. CASE next = 2
    BY <2>1, <2>5, <2>7, <2>8 DEF AuthProgress, HasTraefikRole
  <2>9. CASE next # 2
    <3>1. \A g \in AuthFiles : g # FileOf(p) => middleware'[g] = "absent"
      BY <2>4, <2>7, <2>9
    <3>2. middleware' = [NoMiddleware EXCEPT ![FileOf(p)] = p]
      BY <2>6, <2>7, <3>1 DEF NoMiddleware
    <3> QED
      BY <2>1, <2>4, <2>5, <2>9, <3>2 DEF AuthProgress, HasTraefikRole, MiddlewareInPlace
  <2> QED
    BY <2>8, <2>9
<1>7. ASSUME NEW r \in Receivers, ContactPoint(r) PROVE AuthProgress'
  BY <1>7, AuthRests, ContactPointMovesOn DEF ContactPoint, At, Position, Receivers
<1>8. ASSUME NEW r \in Receivers, AddressMissing(r) PROVE AuthProgress'
  BY <1>8, AuthRests, AbortIsIdle DEF AddressMissing
<1>9. ASSUME NEW r \in Receivers, NoContactPoint(r) PROVE AuthProgress'
  BY <1>9, AuthRests, AdvanceMovesOn DEF NoContactPoint, Position
<1>10. CASE Policy
  BY <1>10, AuthRests, PolicyMovesOn DEF Policy, At, Position
<1>11. CASE Guard
  BY <1>11, AuthRests, GuardMovesOn, AbortIsIdle DEF Guard, At, Position
<1>12. CASE NoPolicy
  BY <1>12, AuthRests, AdvanceMovesOn DEF NoPolicy, At, Position
<1>13. CASE RecreateGrafana
  BY <1>13, AuthRests, AdvanceMovesOn DEF RecreateGrafana, At, Position
<1>14. CASE Render
  BY <1>14, AuthRests, AdvanceMovesOn, AbortIsIdle DEF Render, At, Position
<1>15. CASE Up
  BY <1>15, AuthRests, AdvanceMovesOn DEF Up, At, Position
<1>16. CASE UNCHANGED vars
  BY <1>16, AuthRests DEF vars
<1> QED
  BY <1>1, <1>2, <1>3, <1>4, <1>5, <1>6, <1>7, <1>8, <1>9, <1>10, <1>11, <1>12, <1>13, <1>14,
     <1>15, <1>16 DEF Next

(* Once the role is through, the middleware is defined once. *)
LEMMA InPlaceIsOnce ==
  ASSUME NEW p \in Providers, MiddlewareInPlace(p)
  PROVE  {middleware[f] : f \in Defining} = {p} \ {"none"} /\ Cardinality(Defining) <= 1
<1>1. CASE p = "none"
  <2>1. Defining = {}
    BY <1>1 DEF MiddlewareInPlace, NoMiddleware, FileOf, Defining, AuthFiles
  <2> QED
    BY <1>1, <2>1, FS_EmptySet
<1>2. CASE p # "none"
  <2>1. Defining = {FileOf(p)} /\ middleware[FileOf(p)] = p
    BY <1>2, FileOfProvider DEF MiddlewareInPlace, NoMiddleware, Defining
  <2> QED
    <3>1. {middleware[f] : f \in Defining} = {p}
      BY <2>1
    <3>2. Cardinality(Defining) = 1
      BY <2>1, FS_Singleton
    <3> QED
      BY <1>2, <3>1, <3>2
<1> QED
  BY <1>1, <1>2

(* After the role the middleware exists once, whatever was there before. *)
THEOREM MiddlewareDefinedOnce == Spec => []AuthIsDefinedOnce
<1>1. TypeInv /\ AuthProgress => AuthIsDefinedOnce
  BY InPlaceIsOnce
  DEF TypeInv, RunTyped, AuthProgress, AuthIsDefinedOnce, HasTraefikRole, Done, Idle
<1> QED
  BY InitTyped, TypeStep, InitAuth, AuthStep, <1>1, PTL DEF Spec

(* A step of a run for a provider leaves a middleware, if there was one. *)
LEMMA StepKeepsAuth ==
  ASSUME TypeInv, AuthProgress, Next, run.pc # Idle, run.provider # "none", Defining # {}
  PROVE  Defining' # {}
<1> USE DEF host, alerting
<1>0. run.provider \in Providers
  BY DEF TypeInv, RunTyped
<1>1. ASSUME UNCHANGED middleware PROVE Defining' # {}
  BY <1>1 DEF Defining
<1>2. ASSUME middleware'[FileOf(run.provider)] = run.provider PROVE Defining' # {}
  BY <1>0, <1>2, FileOfProvider DEF Defining
<1>3. CASE Middleware
  BY <1>0, <1>2, <1>3, FileOfProvider DEF Middleware, DeployMiddleware, TypeInv, FilesTyped
<1>4. ASSUME NEW f \in AuthFiles, RemoveStale(f) PROVE Defining' # {}
  <2>1. middleware[FileOf(run.provider)] = run.provider /\ FileOf(run.provider) \in AuthFiles
    BY <1>0, <1>4, FileOfProvider DEF RemoveStale, At, Position, AuthProgress
  <2> QED
    BY <1>2, <1>4, <2>1 DEF RemoveStale, RemoveIfStale, Stale, TypeInv, FilesTyped
<1>5. CASE ~Middleware /\ ~(\E f \in AuthFiles : RemoveStale(f))
  <2>1. UNCHANGED middleware
    BY <1>5 DEF Next, EditSite, Restart, CutOff, StartRun, ContactPoint, AddressMissing, NoContactPoint,
                Policy, Guard, NoPolicy, RecreateGrafana, Render, Up
  <2> QED
    BY <1>1, <2>1
<1> QED
  BY <1>3, <1>4, <1>5

(* A switch of the provider leaves no moment without a middleware, whatever cuts it off. *)
THEOREM MiddlewareAlwaysDefined == Spec => AuthIsAlwaysDefined
<1>1. TypeInv /\ AuthProgress /\ [Next]_vars =>
          [run.pc # Idle /\ run.provider # "none" /\ Defining # {} => Defining' # {}]_vars
  BY StepKeepsAuth
<1> QED
  BY InitTyped, TypeStep, InitAuth, AuthStep, <1>1, PTL DEF Spec, AuthIsAlwaysDefined

------------------------------------------------------------------------------
(* The files of Grafana's alerting.                                        *)
AlertProgress ==
    /\ run.pc = 4 /\ "email" \in run.wants => "email" \in contact
    /\ run.pc \in 5 .. 9 => run.wants \subseteq contact
    /\ run.pc \in 6 .. 7 /\ run.wants # {} => policy = run.wants
    /\ run.pc \in 8 .. 9 => policy \in {None, run.wants}

\* What the guard has let through, while its register says that secrets.yml is there.
Guarded ==
    /\ run.file => run.pc \notin 1 .. 6
    /\ run.pc \in 7 .. 9 /\ run.file /\ ~run.loaded =>
         /\ run.wants = {} => policy = None
         /\ \A r \in Receivers : r \notin run.wants => r \notin contact

AlertInv == PolicyReceiversExist /\ AlertProgress /\ Guarded

LEMMA InitAlert == Init => AlertInv
  BY DEF Init, AlertInv, PolicyReceiversExist, AlertProgress, Guarded, NoRun, Idle

LEMMA LastIsPosition == Last(run.tags) \in {2, 10, 12}
  BY DEF Last

(* A step that leaves the files alone, to a position that says nothing of them. *)
LEMMA AlertRests ==
  ASSUME AlertInv, UNCHANGED alerting,
         \/ run'.pc \in {0, 1, 2, 3, 10, 11, 12, 13} /\ (run'.pc \in {1, 2, 3} => ~run'.file)
         \/ UNCHANGED run
  PROVE  AlertInv'
  BY DEF alerting, AlertInv, PolicyReceiversExist, AlertProgress, Guarded

LEMMA AlertStep == TypeInv /\ AlertInv /\ [Next]_vars => AlertInv'
<1> SUFFICES ASSUME TypeInv, AlertInv, [Next]_vars PROVE AlertInv'
  OBVIOUS
<1> USE DEF host, TypeInv
<1>0. /\ contact \subseteq Receivers /\ run.wants \in SUBSET Receivers /\ None # run.wants
      /\ run \in RunType /\ PolicyReceiversExist /\ AlertProgress /\ Guarded
  BY NoneAssumption DEF FilesTyped, RunTyped, RunType, AlertInv
<1>1. CASE EditSite
  BY <1>1, AlertRests DEF EditSite
<1>2. CASE Restart
  BY <1>2, AlertRests DEF Restart
<1>3. CASE CutOff
  BY <1>3, AlertRests, AbortIsIdle DEF CutOff, Idle
<1>4. ASSUME NEW tags \in TagSets, StartRun(tags) PROVE AlertInv'
  BY <1>4, AlertRests, StartIsFresh DEF StartRun
<1>5. CASE Middleware
  <2>1. run.pc = 1 /\ ~run.file
    BY <1>0, <1>5 DEF Middleware, At, Position, Guarded
  <2>2. ~run'.file /\ run'.pc \in {2, 13}
    BY <1>5, <2>1, AdvanceMovesOn DEF Middleware, MovesOn, NextPc, Done
  <2> QED
    BY <1>5, <2>2, AlertRests DEF Middleware
<1>6. ASSUME NEW f \in AuthFiles, RemoveStale(f) PROVE AlertInv'
  <2> DEFINE next == IF run.left = {f} THEN NextPc ELSE run.pc
  <2>1. run.pc = 2 /\ ~run.file /\ next \in {2, 3, 13}
    BY <1>0, <1>6 DEF RemoveStale, At, Position, Guarded, NextPc, Done
  <2>2. run' = WithLeft(run, run.left \ {f}, next) /\ run.left \ {f} \in SUBSET AuthFiles
    BY <1>0, <1>6 DEF RemoveStale, WithLeft, RunType
  <2> HIDE DEF next
  <2>3. run'.pc = next /\ ~run'.file
    BY <1>0, <2>1, <2>2, UpdateLeft
  <2> QED
    BY <1>6, <2>1, <2>3, AlertRests DEF RemoveStale
<1>7. ASSUME NEW r \in Receivers, ContactPoint(r) PROVE AlertInv'
  <2>1. /\ MovesOn /\ ~run'.file /\ UNCHANGED policy
        /\ contact' = IF r \in run.wants THEN contact \cup {r} ELSE contact
        /\ run.pc = Position[r]
    BY <1>0, <1>7, ContactPointMovesOn
    DEF ContactPoint, DeployContactPoint, At, Position, Receivers, Guarded
  <2>2. (r = "email" /\ run.pc = 3 /\ run'.pc = 4) \/ (r = "slack" /\ run.pc = 4 /\ run'.pc = 5)
    <3>0. Position["email"] = 3 /\ Position["slack"] = 4
      BY DEF Position
    <3>1. (r = "email" /\ run.pc = 3) \/ (r = "slack" /\ run.pc = 4)
      BY <1>7, <2>1, <3>0 DEF Receivers
    <3>2. run'.pc = run.pc + 1
      BY <2>1, <3>1, LastIsPosition DEF MovesOn, NextPc
    <3> QED
      BY <3>1, <3>2
  <2>3. run'.wants = run.wants
    BY <2>1 DEF MovesOn, Kept
  <2> QED
    BY <1>0, <2>1, <2>2, <2>3 DEF AlertInv, PolicyReceiversExist, AlertProgress, Guarded, Receivers
<1>8. ASSUME NEW r \in Receivers, AddressMissing(r) PROVE AlertInv'
  BY <1>8, AlertRests, AbortIsIdle DEF AddressMissing, Idle
<1>9. ASSUME NEW r \in Receivers, NoContactPoint(r) PROVE AlertInv'
  <2>1. /\ MovesOn /\ (run'.file <=> run.file) /\ UNCHANGED policy
        /\ contact' = IF r \in run.wants THEN contact ELSE contact \ {r}
        /\ run.pc = IF r = "email" THEN 8 ELSE 9
    BY <1>9, AdvanceMovesOn DEF NoContactPoint, RemoveContactPoint, Position
  <2>4. run'.pc = run.pc + 1
    BY <2>1, LastIsPosition DEF MovesOn, NextPc
  <2>2. run'.wants = run.wants /\ (run'.loaded <=> run.loaded)
    BY <2>1 DEF MovesOn, Kept
  <2>3. run.wants \subseteq contact' /\ policy \in {None, run.wants}
    BY <1>0, <2>1 DEF AlertProgress
  <2> QED
    BY <1>0, <2>1, <2>2, <2>3, <2>4 DEF AlertInv, PolicyReceiversExist, AlertProgress, Guarded
<1>10. CASE Policy
  <2>1. /\ MovesOn /\ ~run'.file /\ UNCHANGED contact /\ run.pc = 5
        /\ policy' = IF run.wants # {} THEN run.wants ELSE policy
    BY <1>0, <1>10, PolicyMovesOn DEF Policy, DeployPolicy, At, Position, Guarded
  <2>2. run'.pc = 6 /\ run'.wants = run.wants
    BY <2>1 DEF MovesOn, Kept, NextPc, Last
  <2> QED
    BY <1>0, <2>1, <2>2 DEF AlertInv, PolicyReceiversExist, AlertProgress, Guarded
<1>11. CASE Guard
  <2>1. CASE GuardHolds(run.loaded, run.wants)
    <3>1. MovesOn /\ (run'.file <=> HasFile) /\ UNCHANGED <<contact, policy>> /\ run.pc = 6
      BY <1>11, <2>1, GuardMovesOn DEF Guard, alerting, At, Position
    <3>2. run'.pc = 7 /\ run'.wants = run.wants /\ (run'.loaded <=> run.loaded)
      BY <3>1 DEF MovesOn, Kept, NextPc, Last
    <3> QED
      BY <1>0, <2>1, <3>1, <3>2 DEF AlertInv, PolicyReceiversExist, AlertProgress, Guarded, GuardHolds
  <2>2. CASE ~GuardHolds(run.loaded, run.wants)
    BY <1>11, <2>2, AlertRests, AbortIsIdle DEF Guard, Idle
  <2> QED
    BY <2>1, <2>2
<1>12. CASE NoPolicy
  <2>1. /\ MovesOn /\ (run'.file <=> run.file) /\ UNCHANGED contact /\ run.pc = 7
        /\ policy' = IF run.wants = {} THEN None ELSE policy
    BY <1>12, AdvanceMovesOn DEF NoPolicy, RemovePolicy, At, Position
  <2>2. run'.pc = 8 /\ run'.wants = run.wants /\ (run'.loaded <=> run.loaded)
    BY <2>1 DEF MovesOn, Kept, NextPc, Last
  <2> QED
    BY <1>0, <2>1, <2>2 DEF AlertInv, PolicyReceiversExist, AlertProgress, Guarded
<1>13. CASE RecreateGrafana
  <2>1. run'.pc \in {11, 13}
    BY <1>13, AdvanceMovesOn DEF RecreateGrafana, At, Position, MovesOn, NextPc, Done
  <2> QED
    BY <1>13, <2>1, AlertRests DEF RecreateGrafana
<1>14. CASE Render
  <2>1. run'.pc \in {0, 12, 13}
    BY <1>14, AdvanceMovesOn, AbortIsIdle DEF Render, At, Position, MovesOn, NextPc, Done, Idle
  <2> QED
    BY <1>14, <2>1, AlertRests DEF Render
<1>15. CASE Up
  <2>1. run'.pc = 13
    BY <1>15, AdvanceMovesOn DEF Up, At, Position, MovesOn, NextPc, Done
  <2> QED
    BY <1>15, <2>1, AlertRests DEF Up
<1>16. CASE UNCHANGED vars
  BY <1>16, AlertRests DEF vars
<1> QED
  BY <1>1, <1>2, <1>3, <1>4, <1>5, <1>6, <1>7, <1>8, <1>9, <1>10, <1>11, <1>12, <1>13, <1>14,
     <1>15, <1>16 DEF Next

(* At every moment the receivers of the policy have their contact points. *)
THEOREM ReceiversExist == Spec => []PolicyReceiversExist
  BY InitTyped, TypeStep, InitAlert, AlertStep, PTL DEF Spec, AlertInv

(* The step of a run without secrets, before the guard or past it with the file there. *)
LEMMA StepRemovesNothing ==
  ASSUME TypeInv, AlertInv, Next, ~run.loaded, run.pc < 6 \/ run.file
  PROVE  contact \subseteq contact' /\ (policy # None => policy' # None)
<1> USE DEF host, alerting
<1>0. run.wants \in SUBSET Receivers /\ None # run.wants /\ Guarded /\ AlertProgress /\ contact \subseteq Receivers
  BY NoneAssumption DEF TypeInv, RunTyped, RunType, AlertInv, FilesTyped
<1>1. ASSUME NEW r \in Receivers, ContactPoint(r) PROVE contact \subseteq contact' /\ UNCHANGED policy
  BY <1>1 DEF ContactPoint, DeployContactPoint
<1>2. CASE Policy
  BY <1>0, <1>2 DEF Policy, DeployPolicy
<1>3. CASE NoPolicy
  BY <1>0, <1>3 DEF NoPolicy, RemovePolicy, At, Position, Guarded
<1>4. ASSUME NEW r \in Receivers, NoContactPoint(r) PROVE UNCHANGED <<contact, policy>>
  <2>1. run.pc \in {8, 9} /\ run.file
    BY <1>4 DEF NoContactPoint, Position
  <2> QED
    BY <1>0, <1>4, <2>1 DEF NoContactPoint, RemoveContactPoint, Guarded
<1>5. CASE EditSite \/ Restart \/ CutOff \/ (\E tags \in TagSets : StartRun(tags)) \/ Middleware
           \/ (\E f \in AuthFiles : RemoveStale(f)) \/ (\E r \in Receivers : AddressMissing(r))
           \/ Guard \/ RecreateGrafana \/ Render \/ Up
  BY <1>5 DEF EditSite, Restart, CutOff, StartRun, Middleware, RemoveStale, AddressMissing,
              Guard, RecreateGrafana, Render, Up
<1> QED
  BY <1>1, <1>2, <1>3, <1>4, <1>5 DEF Next

(* A run that found secrets.yml and did not load it removes nothing, at any step. *)
THEOREM RemovesNothing == Spec => NothingRemovedWithoutSecrets
<1>1. TypeInv /\ AlertInv /\ [Next]_vars =>
          [run.tags # "none" /\ ~run.loaded /\ (run.pc < Position["guard"] \/ run.file) =>
               contact \subseteq contact' /\ (policy # None => policy' # None)]_vars
  BY StepRemovesNothing DEF Position
<1> QED
  BY InitTyped, TypeStep, InitAlert, AlertStep, <1>1, PTL DEF Spec, NothingRemovedWithoutSecrets

------------------------------------------------------------------------------
(* What Grafana has read.                                                   *)

(* The container as it was started last, with the files it read last. *)
GrafanaTyped ==
    /\ grafana = None \/ grafana \in [env : {None} \cup SUBSET Receivers, contact : SUBSET Receivers,
                                       policy : {None} \cup SUBSET Receivers]
    /\ compose = None => grafana = None

(* A policy Grafana has read came with its contact points. *)
ReadTogether ==
    grafana # None /\ grafana.policy # None => grafana.policy \subseteq grafana.contact

(* Between the task that writes another policy and the recreate Grafana is
   behind, and the run knows it; a cut run forgets it. *)
Behind == run.pc \in 6 .. 10 /\ run.changed /\ run.wants # {}

ReadLatest ==
    faults = 0 /\ grafana # None /\ policy # None /\ grafana.policy # policy => Behind

(* What a run that wants receivers has done so far. *)
WantsProgress ==
    /\ ~run.loaded => run.wants = {}
    /\ run.wants # {} /\ (run.pc \in 6 .. 12 \/ (run.pc = 13 /\ run.tags = "full")) => policy = run.wants
    /\ run.pc = 12 => compose = run.wants

GrafanaInv == GrafanaTyped /\ ReadTogether /\ ReadLatest /\ WantsProgress /\ GrafanaAlerts

LEMMA InitGrafana == Init => GrafanaInv
  BY DEF Init, GrafanaInv, GrafanaTyped, ReadTogether, ReadLatest, WantsProgress, GrafanaAlerts,
         NoRun, Idle, Done

(* A run that moves on remembers whether something has changed. *)
LEMMA AdvanceKeepsChanged ==
  ASSUME RunTyped, Advance PROVE run'.changed <=> run.changed
  BY DEF Advance, RunTyped, RunType

LEMMA GuardKeepsChanged ==
  ASSUME RunTyped, Guard, GuardHolds(run.loaded, run.wants) PROVE run'.changed <=> run.changed
<1>1. run' = WithFile(run, NextPc, HasFile)
  BY DEF Guard, WithFile
<1> QED
  BY <1>1 DEF RunTyped, RunType, WithFile

LEMMA PolicyRemembers ==
  ASSUME RunTyped, Policy PROVE run'.changed <=> run.changed \/ policy' # policy
<1> DEFINE b == run.changed \/ policy' # policy
<1>1. run' = WithChanged(run, NextPc, b) /\ b \in BOOLEAN
  BY DEF Policy, WithChanged, RunTyped, RunType
<1> HIDE DEF b
<1>2. run'.changed <=> b
  BY <1>1 DEF RunTyped, RunType, WithChanged
<1> QED
  BY <1>2 DEF b

LEMMA AbortKeepsSecrets ==
  ASSUME RunTyped, Abort PROVE (run'.loaded <=> run.loaded) /\ run'.wants = run.wants
  BY DEF Abort, RunTyped, RunType

LEMMA StartWantsSecrets ==
  ASSUME NEW tags, StartRun(tags) PROVE ~run'.loaded => run'.wants = {}
<1> DEFINE w == IF Loads(tags) THEN secrets ELSE {}
<1>1. run' = NewRun(First(tags), tags, provider, w, addressed)
  BY DEF StartRun, NewRun, Loads
<1>2. run'.loaded <=> Loads(tags)
  BY <1>1, NewRunRegisters
<1>3. run'.wants = w
  BY <1>1, NewRunFields
<1> QED
  BY <1>2, <1>3

(* Before the policy and at the end of a run that does not reach compose up
   nothing is said of Grafana, unless it is behind. *)
LEMMA GrafanaRests ==
  ASSUME GrafanaInv, ~Behind, UNCHANGED <<policy, compose, grafana, faults>>,
         ~run'.loaded => run'.wants = {},
         run'.pc \in 0 .. 5 \/ (run'.pc = 13 /\ run'.tags # "full")
  PROVE  GrafanaInv'
  BY DEF GrafanaInv, GrafanaTyped, ReadTogether, ReadLatest, WantsProgress, GrafanaAlerts, Behind, Done

(* From the policy to the recreate: what was behind stays behind. *)
LEMMA GrafanaWaits ==
  ASSUME GrafanaInv, UNCHANGED <<policy, compose, grafana, faults>>, Kept,
         run'.changed <=> run.changed, run.pc \in 6 .. 9, run'.pc = run.pc + 1
  PROVE  GrafanaInv'
  BY DEF GrafanaInv, GrafanaTyped, ReadTogether, ReadLatest, WantsProgress, GrafanaAlerts, Behind, Kept, Done

(* Reading the files anew, in a container that keeps its environment. *)
LEMMA RestartReads ==
  ASSUME FilesTyped, GrafanaTyped, PolicyReceiversExist, GrafanaRestarts
  PROVE  /\ grafana' \in [env : {None} \cup SUBSET Receivers, contact : SUBSET Receivers,
                          policy : {None} \cup SUBSET Receivers]
         /\ grafana'.env = grafana.env /\ grafana'.contact = contact /\ grafana'.policy = policy
         /\ (policy # None => policy \subseteq contact)
  BY DEF FilesTyped, GrafanaTyped, PolicyReceiversExist, GrafanaRestarts

LEMMA StartedReads ==
  ASSUME FilesTyped, PolicyReceiversExist
  PROVE  /\ Started \in [env : {None} \cup SUBSET Receivers, contact : SUBSET Receivers,
                         policy : {None} \cup SUBSET Receivers]
         /\ Started.env = compose /\ Started.contact = contact /\ Started.policy = policy
         /\ (policy # None => policy \subseteq contact)
  BY DEF FilesTyped, PolicyReceiversExist, Started

LEMMA GrafanaStep == TypeInv /\ AlertInv /\ GrafanaInv /\ [Next]_vars => GrafanaInv'
<1> SUFFICES ASSUME TypeInv, AlertInv, GrafanaInv, [Next]_vars PROVE GrafanaInv'
  OBVIOUS
<1> USE DEF host, alerting, bounds, TypeInv
<1>0. /\ run.wants \in SUBSET Receivers /\ (\A R \in SUBSET Receivers : None # R)
      /\ run \in RunType /\ RunTyped /\ FilesTyped /\ PolicyReceiversExist
      /\ GrafanaTyped /\ ReadTogether /\ ReadLatest /\ WantsProgress /\ GrafanaAlerts
  BY NoneAssumption DEF RunTyped, RunType, AlertInv, GrafanaInv
<1>1. CASE EditSite
  BY <1>1 DEF EditSite, GrafanaInv, GrafanaTyped, ReadTogether, ReadLatest, WantsProgress,
              GrafanaAlerts, Behind
<1>2. CASE Restart
  <2>1. GrafanaRestarts /\ UNCHANGED <<policy, contact, compose, run, faults>>
    BY <1>2 DEF Restart
  <2>2. GrafanaTyped' /\ ReadTogether'
    BY <1>0, <2>1, RestartReads DEF GrafanaTyped, ReadTogether, GrafanaRestarts
  <2>3. ReadLatest' /\ WantsProgress'
    BY <1>0, <2>1, RestartReads DEF ReadLatest, WantsProgress
  <2>4. GrafanaAlerts'
    BY <1>0, <2>1, RestartReads DEF GrafanaAlerts, WantsProgress, Done
  <2> QED
    BY <2>2, <2>3, <2>4 DEF GrafanaInv
<1>3. CASE CutOff
  <2>1. faults' # 0 /\ run'.pc = 0 /\ UNCHANGED <<policy, compose, grafana>>
    BY <1>0, <1>3, AbortIsIdle DEF CutOff, CountsTyped, Idle
  <2>2. ~run'.loaded => run'.wants = {}
    BY <1>0, <1>3, AbortKeepsSecrets DEF CutOff, WantsProgress
  <2> QED
    BY <1>0, <2>1, <2>2
    DEF GrafanaInv, GrafanaTyped, ReadTogether, ReadLatest, WantsProgress, GrafanaAlerts, Done
<1>4. ASSUME NEW tags \in TagSets, StartRun(tags) PROVE GrafanaInv'
  <2>1. ~Behind
    BY <1>4 DEF StartRun, Resting, Behind, Idle, Done
  <2>2. run'.pc \in {1, 3} /\ (~run'.loaded => run'.wants = {})
    BY <1>4, StartIsFresh, StartWantsSecrets
  <2> QED
    BY <1>4, <2>1, <2>2, GrafanaRests DEF StartRun
<1>5. CASE Middleware
  <2>1. ~Behind /\ MovesOn /\ UNCHANGED <<policy, compose, grafana, faults>> /\ run.pc = 1
    BY <1>0, <1>5, AdvanceMovesOn DEF Middleware, At, Position, Behind
  <2>2. run'.pc \in {2, 13} /\ (run'.pc = 13 => run'.tags # "full") /\ (~run'.loaded => run'.wants = {})
    BY <1>0, <2>1 DEF MovesOn, Kept, NextPc, Last, Done, WantsProgress
  <2> QED
    BY <2>1, <2>2, GrafanaRests
<1>6. ASSUME NEW f \in AuthFiles, RemoveStale(f) PROVE GrafanaInv'
  <2> DEFINE next == IF run.left = {f} THEN NextPc ELSE run.pc
  <2>1. ~Behind /\ UNCHANGED <<policy, compose, grafana, faults>> /\ run.pc = 2
    BY <1>6 DEF RemoveStale, At, Position, Behind
  <2>2. next \in {2, 3, 13} /\ (next = 13 => run.tags # "full")
    BY <2>1 DEF NextPc, Last, Done
  <2>3. run' = [run EXCEPT !.left = run.left \ {f}, !.pc = next]
    BY <1>6 DEF RemoveStale
  <2> HIDE DEF next
  <2>4. run'.pc = next /\ run'.tags = run.tags /\ run'.wants = run.wants /\ (run'.loaded <=> run.loaded)
    BY <1>0, <2>3 DEF RunType
  <2> QED
    BY <1>0, <2>1, <2>2, <2>4, GrafanaRests DEF WantsProgress
<1>7. ASSUME NEW r \in Receivers, ContactPoint(r) PROVE GrafanaInv'
  <2>1. MovesOn /\ run.pc \in {3, 4} /\ UNCHANGED <<policy, compose, grafana, faults>> /\ ~Behind
    BY <1>0, <1>7, ContactPointMovesOn DEF ContactPoint, At, Position, Receivers, Behind
  <2>2. run'.pc \in {4, 5} /\ (~run'.loaded => run'.wants = {})
    BY <1>0, <2>1, LastIsPosition DEF MovesOn, Kept, NextPc, WantsProgress
  <2> QED
    BY <2>1, <2>2, GrafanaRests
<1>8. ASSUME NEW r \in Receivers, AddressMissing(r) PROVE GrafanaInv'
  <2>1. ~Behind /\ UNCHANGED <<policy, compose, grafana, faults>>
    BY <1>8 DEF AddressMissing, At, Position, Receivers, Behind
  <2>2. run'.pc = 0 /\ (~run'.loaded => run'.wants = {})
    BY <1>0, <1>8, AbortIsIdle, AbortKeepsSecrets DEF AddressMissing, WantsProgress, Idle
  <2> QED
    BY <2>1, <2>2, GrafanaRests
<1>9. ASSUME NEW r \in Receivers, NoContactPoint(r) PROVE GrafanaInv'
  <2>1. /\ MovesOn /\ run.pc \in {8, 9} /\ UNCHANGED <<policy, compose, grafana, faults>>
        /\ (run'.changed <=> run.changed)
    BY <1>0, <1>9, AdvanceMovesOn, AdvanceKeepsChanged DEF NoContactPoint, Position
  <2>2. run'.pc = run.pc + 1 /\ Kept
    BY <2>1, LastIsPosition DEF MovesOn, NextPc
  <2> QED
    BY <2>1, <2>2, GrafanaWaits
<1>10. CASE Policy
  <2>1. /\ MovesOn /\ run.pc = 5 /\ UNCHANGED <<compose, grafana, faults>>
        /\ policy' = IF run.wants # {} THEN run.wants ELSE policy
        /\ (run'.changed <=> run.changed \/ policy' # policy)
    BY <1>0, <1>10, PolicyMovesOn, PolicyRemembers DEF Policy, DeployPolicy, At, Position
  <2>2. run'.pc = 6 /\ Kept
    BY <2>1, LastIsPosition DEF MovesOn, NextPc, Last
  <2>3. ReadLatest'
    BY <1>0, <2>1, <2>2 DEF ReadLatest, Behind, Kept
  <2> QED
    BY <1>0, <2>1, <2>2, <2>3
    DEF GrafanaInv, GrafanaTyped, ReadTogether, WantsProgress, GrafanaAlerts, Kept, Done
<1>11. CASE Guard
  <2>1. run.pc = 6 /\ UNCHANGED <<policy, compose, grafana, faults>>
    BY <1>11 DEF Guard, At, Position
  <2>2. CASE GuardHolds(run.loaded, run.wants)
    <3>1. MovesOn /\ (run'.changed <=> run.changed)
      BY <1>0, <1>11, <2>2, GuardMovesOn, GuardKeepsChanged
    <3>2. run'.pc = run.pc + 1 /\ Kept
      BY <2>1, <3>1, LastIsPosition DEF MovesOn, NextPc, Last
    <3> QED
      BY <2>1, <3>1, <3>2, GrafanaWaits
  <2>3. CASE ~GuardHolds(run.loaded, run.wants)
    <3>1. Abort /\ ~run.loaded
      BY <1>11, <2>3 DEF Guard, GuardHolds
    <3>2. ~Behind
      BY <1>0, <3>1 DEF Behind, WantsProgress
    <3>3. run'.pc = 0 /\ (~run'.loaded => run'.wants = {})
      BY <1>0, <3>1, AbortIsIdle, AbortKeepsSecrets DEF WantsProgress, Idle
    <3> QED
      BY <2>1, <3>2, <3>3, GrafanaRests
  <2> QED
    BY <2>2, <2>3
<1>12. CASE NoPolicy
  <2>1. /\ MovesOn /\ run.pc = 7 /\ UNCHANGED <<compose, grafana, faults>>
        /\ policy' = IF run.wants = {} THEN None ELSE policy
        /\ (run'.changed <=> run.changed)
    BY <1>0, <1>12, AdvanceMovesOn, AdvanceKeepsChanged DEF NoPolicy, RemovePolicy, At, Position
  <2>2. run'.pc = 8 /\ Kept
    BY <2>1, LastIsPosition DEF MovesOn, NextPc, Last
  <2>3. ReadLatest' /\ WantsProgress'
    BY <1>0, <2>1, <2>2 DEF ReadLatest, WantsProgress, Behind, Kept
  <2> QED
    BY <1>0, <2>1, <2>2, <2>3 DEF GrafanaInv, GrafanaTyped, ReadTogether, GrafanaAlerts, Done
<1>13. CASE RecreateGrafana
  <2>1. /\ MovesOn /\ run.pc = 10 /\ UNCHANGED <<policy, contact, compose, faults>>
        /\ (run'.changed <=> run.changed)
    BY <1>0, <1>13, AdvanceMovesOn, AdvanceKeepsChanged DEF RecreateGrafana, At, Position
  <2>2. run'.pc \in {11, 13} /\ (run'.pc = 13 => run'.tags # "full") /\ Kept
    BY <2>1, LastIsPosition DEF MovesOn, Kept, NextPc, Last, Done
  <2>3. grafana' = Started \/ (grafana' = grafana /\ (grafana # None => ~run.changed))
    BY <1>0, <1>13 DEF RecreateGrafana, ForceRecreate, GrafanaTyped
  <2>4. GrafanaTyped' /\ ReadTogether'
    <3>1. compose = None => grafana' = None
      BY <1>0, <1>13 DEF RecreateGrafana, ForceRecreate, GrafanaTyped
    <3> QED
      BY <1>0, <2>1, <2>3, <3>1, StartedReads DEF GrafanaTyped, ReadTogether
  <2>5. ReadLatest'
    BY <1>0, <2>1, <2>3, StartedReads DEF ReadLatest, Behind
  <2>6. WantsProgress' /\ GrafanaAlerts'
    BY <1>0, <2>1, <2>2 DEF WantsProgress, GrafanaAlerts, Kept, Done
  <2> QED
    BY <2>4, <2>5, <2>6 DEF GrafanaInv
<1>14. CASE Render
  <2>1. /\ run.pc = 11 /\ UNCHANGED <<policy, contact, grafana, faults>> /\ compose' = run.wants
        /\ (Abort \/ Advance)
    BY <1>14 DEF Render, RenderCompose, At, Position
  <2>2. /\ run'.pc \in {0, 12, 13} /\ (run'.pc = 13 => run'.tags # "full")
        /\ run'.wants = run.wants /\ (run'.loaded <=> run.loaded)
        /\ (run'.pc = 12 => run'.tags = run.tags)
    <3>1. CASE Abort
      BY <1>0, <2>1, <3>1, AbortIsIdle, AbortKeepsSecrets DEF Idle
    <3>2. CASE Advance
      BY <1>0, <2>1, <3>2, AdvanceMovesOn, LastIsPosition DEF MovesOn, Kept, NextPc, Last, Done
    <3> QED
      BY <2>1, <3>1, <3>2
  <2>3. ReadLatest'
    BY <1>0, <2>1, <2>2 DEF ReadLatest, Behind
  <2> QED
    BY <1>0, <2>1, <2>2, <2>3
    DEF GrafanaInv, GrafanaTyped, ReadTogether, WantsProgress, GrafanaAlerts, Done
<1>15. CASE Up
  <2>1. /\ MovesOn /\ run.pc = 12 /\ UNCHANGED <<policy, contact, compose, faults>>
        /\ compose = run.wants
    BY <1>0, <1>15, AdvanceMovesOn DEF Up, At, Position, WantsProgress
  <2>2. run'.pc = 13 /\ Kept
    BY <2>1, LastIsPosition DEF MovesOn, NextPc, Last, Done
  <2>3. grafana' = Started \/ (grafana' = grafana /\ grafana # None /\ grafana.env = compose)
    BY <1>15 DEF Up, ComposeUp
  <2>4. GrafanaTyped' /\ ReadTogether'
    BY <1>0, <2>1, <2>3, StartedReads DEF GrafanaTyped, ReadTogether
  <2>5. ReadLatest'
    BY <1>0, <2>1, <2>3, StartedReads DEF ReadLatest, Behind
  <2>6. WantsProgress'
    BY <1>0, <2>1, <2>2 DEF WantsProgress, Kept
  <2>7. GrafanaAlerts'
    <3>1. CASE grafana' = Started
      BY <1>0, <2>1, <2>2, <3>1, StartedReads DEF GrafanaAlerts, WantsProgress, Kept
    <3>2. CASE grafana' = grafana /\ grafana # None /\ grafana.env = compose
      BY <1>0, <2>1, <2>2, <3>2 DEF GrafanaAlerts, WantsProgress, ReadLatest, ReadTogether, Behind, Kept
    <3> QED
      BY <2>3, <3>1, <3>2
  <2> QED
    BY <2>4, <2>5, <2>6, <2>7 DEF GrafanaInv
<1>16. CASE UNCHANGED vars
  BY <1>16 DEF vars, GrafanaInv, GrafanaTyped, ReadTogether, ReadLatest, WantsProgress, GrafanaAlerts, Behind
<1> QED
  BY <1>1, <1>2, <1>3, <1>4, <1>5, <1>6, <1>7, <1>8, <1>9, <1>10, <1>11, <1>12, <1>13, <1>14,
     <1>15, <1>16 DEF Next

(* If no run was cut off, a run without tags leaves Grafana with the policy, *)
(* the contact points and the secrets it has deployed.                      *)
THEOREM GrafanaSendsAlerts == Spec => []GrafanaAlerts
<1>1. GrafanaInv => GrafanaAlerts
  BY DEF GrafanaInv
<1> QED
  BY InitTyped, TypeStep, InitAlert, AlertStep, InitGrafana, GrafanaStep, <1>1, PTL DEF Spec

===============================================================================
