------------------------- MODULE LldapBootstrapProofs -------------------------
(***************************************************************************)
(* Proofs about LldapBootstrap, for any users, groups, edits and faults.   *)
(*                                                                         *)
(* The three properties hold because a run whose requests all succeed has  *)
(* brought the directory to a known state at each of its steps (Progress), *)
(* and because nothing but a run changes accounts and passwords.           *)
(***************************************************************************)
EXTENDS LldapBootstrap, TLAPS

Steps == {"idle", "config", "prestart", "ready", "check", "create", "set", "join", "up",
          "recreate", "ready again", "provision", "passwords", "groups", "done"}

RunType ==
    [pc : Steps, tags : {"none", "full", "deploy"}, secret : Nat, groups : SUBSET Groups,
     left : SUBSET Users, changed : BOOLEAN, bad : BOOLEAN, clean : BOOLEAN, fresh : BOOLEAN]

(* Typing that a step preserves; secret never outruns the edits. *)
Versions ==
    /\ secret \in Nat /\ 1 <= secret /\ secret <= edits + 1 /\ edits \in Nat /\ edits <= MaxEdits
    /\ cfg \in Nat /\ cfg <= secret /\ held \in Nat /\ held <= secret

Places ==
    /\ admin \in BOOLEAN /\ lldap \in {"absent", "starting", "healthy"}
    /\ authelia \in {"absent", "looping", "up"}
    /\ faults \in Nat /\ faults <= MaxFaults

Directory ==
    /\ accounts \subseteq Accounts /\ groups \subseteq Groups /\ Readonly \in groups
    /\ password \in [Accounts -> Nat]
    /\ \A a \in Accounts : password[a] <= secret /\ (password[a] # 0 => a \in accounts)
    /\ member \subseteq accounts \X groups

RunTyped == run \in RunType /\ run.secret <= secret /\ run.groups \subseteq groups

\* The loops over the users; an item that failed is told apart from one that is done.
Looping ==
    /\ run.clean => ~run.bad
    /\ run.pc = "provision" /\ ~run.bad => Users \ run.left \subseteq accounts
    /\ run.pc \in {"passwords", "groups"} => Users \subseteq accounts

TypeInv == Versions /\ Places /\ Directory /\ RunTyped /\ Looping

LEMMA InitTyped == Init => TypeInv
  BY UsersAssumption
  DEF Init, TypeInv, Versions, Places, Directory, RunTyped, Looping, RunType, Steps, NoRun, Accounts

------------------------------------------------------------------------------
(* What a step does to the run.                                            *)
Same == run'.tags = run.tags /\ run'.secret = run.secret /\ run'.groups = run.groups /\ (run'.fresh <=> run.fresh)

SameLoop == run'.left = run.left /\ (run'.bad <=> run.bad)

LEMMA GotoKeeps ==
  ASSUME run \in RunType, NEW p \in Steps, Goto(p)
  PROVE  run' \in RunType /\ run'.pc = p /\ Same /\ SameLoop /\ (run'.clean <=> run.clean)
  BY DEF Goto, RunType, Same, SameLoop

LEMMA EndsIsIdle ==
  ASSUME run \in RunType, Ends
  PROVE  run' \in RunType /\ run'.pc = "idle" /\ ~run'.clean /\ Same
  BY DEF Ends, RunType, Steps, Same

LEMMA ItemKeeps ==
  ASSUME run \in RunType, NEW u \in Users, Item(u)
  PROVE  /\ run' \in RunType /\ run'.pc = run.pc /\ run'.left = run.left \ {u} /\ Same
         /\ (run'.bad <=> run.bad) /\ (run'.clean <=> run.clean)
  BY DEF Item, RunType, Same

NewRun(p, t, s, g) ==
    [NoRun EXCEPT !.pc = p, !.tags = t, !.secret = s, !.groups = g,
                  !.clean = TRUE, !.fresh = "authelia" \notin accounts]

LEMMA NewRunTyped ==
  ASSUME NEW p \in Steps, NEW t \in {"full", "deploy"}, NEW s \in Nat, NEW g \in SUBSET Groups
  PROVE  NewRun(p, t, s, g) \in RunType
  BY DEF NewRun, NoRun, RunType

LEMMA NewRunFields ==
  ASSUME NEW p, NEW t, NEW s, NEW g
  PROVE  /\ NewRun(p, t, s, g).pc = p /\ NewRun(p, t, s, g).tags = t
         /\ NewRun(p, t, s, g).secret = s /\ NewRun(p, t, s, g).groups = g
  BY DEF NewRun, NoRun

LEMMA NewRunFlags ==
  ASSUME NEW p, NEW t, NEW s, NEW g
  PROVE  /\ NewRun(p, t, s, g).clean /\ ~NewRun(p, t, s, g).bad
         /\ NewRun(p, t, s, g).fresh <=> "authelia" \notin accounts
  BY DEF NewRun, NoRun

FirstStep(tags) == IF tags = "full" THEN "config" ELSE "prestart"

LEMMA StartIsFresh ==
  ASSUME TypeInv, NEW tags \in {"full", "deploy"}, StartRun(tags)
  PROVE  /\ run' \in RunType /\ run'.pc = FirstStep(tags) /\ run'.tags = tags
         /\ run'.secret = secret /\ run'.groups = groups
         /\ run'.clean /\ ~run'.bad /\ (run'.fresh <=> "authelia" \notin accounts)
<1>1. run' = NewRun(FirstStep(tags), tags, secret, groups)
  BY DEF StartRun, NewRun, FirstStep
<1>2. FirstStep(tags) \in Steps /\ secret \in Nat /\ groups \in SUBSET Groups
  BY DEF FirstStep, Steps, TypeInv, Versions, Directory
<1> QED
  BY <1>1, <1>2, NewRunTyped, NewRunFields, NewRunFlags

(* Fields a step writes beside the position. *)
WithChanged(r, p, b) == [r EXCEPT !.pc = p, !.changed = b]
WithLeft(r, p, s) == [r EXCEPT !.pc = p, !.left = s]
Unclean(r, p) == [r EXCEPT !.pc = p, !.clean = FALSE]
BadLeft(r, s) == [r EXCEPT !.left = s, !.bad = TRUE, !.clean = FALSE]
UncleanLeft(r, s) == [r EXCEPT !.left = s, !.clean = FALSE]

LEMMA ChangedKeeps ==
  ASSUME run \in RunType, NEW p \in Steps, NEW b \in BOOLEAN, run' = WithChanged(run, p, b)
  PROVE  run' \in RunType /\ run'.pc = p /\ Same /\ SameLoop /\ (run'.clean <=> run.clean)
  BY DEF WithChanged, RunType, Same, SameLoop

LEMMA LeftKeeps ==
  ASSUME run \in RunType, NEW p \in Steps, NEW s \in SUBSET Users, run' = WithLeft(run, p, s)
  PROVE  /\ run' \in RunType /\ run'.pc = p /\ run'.left = s /\ Same
         /\ (run'.bad <=> run.bad) /\ (run'.clean <=> run.clean)
  BY DEF WithLeft, RunType, Same

LEMMA UncleanKeeps ==
  ASSUME run \in RunType, NEW p \in Steps, run' = Unclean(run, p)
  PROVE  run' \in RunType /\ run'.pc = p /\ Same /\ SameLoop /\ ~run'.clean
  BY DEF Unclean, RunType, Same, SameLoop

LEMMA BadLeftKeeps ==
  ASSUME run \in RunType, NEW s \in SUBSET Users, run' = BadLeft(run, s)
  PROVE  run' \in RunType /\ run'.pc = run.pc /\ run'.left = s /\ Same /\ run'.bad /\ ~run'.clean
  BY DEF BadLeft, RunType, Same

LEMMA UncleanLeftKeeps ==
  ASSUME run \in RunType, NEW s \in SUBSET Users, run' = UncleanLeft(run, s)
  PROVE  /\ run' \in RunType /\ run'.pc = run.pc /\ run'.left = s /\ Same
         /\ (run'.bad <=> run.bad) /\ ~run'.clean
  BY DEF UncleanLeft, RunType, Same

(* The actions in these terms. *)
Keeps == run' \in RunType /\ Same /\ (run'.clean <=> run.clean)
MovesTo(p, q) == run.pc = p /\ run'.pc = q /\ Keeps /\ SameLoop
Stopped == run' \in RunType /\ run'.pc = "idle" /\ ~run'.clean /\ Same
Errs(p, q) == run.pc = p /\ run'.pc = q /\ run' \in RunType /\ Same /\ SameLoop /\ ~run'.clean

LEMMA Moves ==
  ASSUME run \in RunType
  PROVE  /\ DeployConfiguration => MovesTo("config", "prestart")
         /\ StartLldapFirst => MovesTo("prestart", "ready")
         /\ CheckBindUser => MovesTo("check", IF "authelia" \in accounts THEN "up" ELSE "create")
         /\ CreateBindUser => MovesTo("create", "set")
         /\ SetBindPassword => MovesTo("set", "join")
         /\ JoinReadonly => MovesTo("join", "up")
         /\ ComposeUp => MovesTo("up", "recreate")
         /\ RecreateAuthelia => MovesTo("recreate", Last)
<1> USE DEF At, MovesTo, Keeps, Steps
<1>1. ASSUME DeployConfiguration PROVE MovesTo("config", "prestart")
  <2> DEFINE b == cfg # run.secret
  <2>1. run' = WithChanged(run, "prestart", b) /\ b \in BOOLEAN
    BY <1>1 DEF DeployConfiguration, WithChanged
  <2> HIDE DEF b
  <2> QED
    BY <1>1, <2>1, ChangedKeeps DEF DeployConfiguration
<1>2. ASSUME StartLldapFirst PROVE MovesTo("prestart", "ready")
  BY <1>2, GotoKeeps DEF StartLldapFirst
<1>3. ASSUME CheckBindUser PROVE MovesTo("check", IF "authelia" \in accounts THEN "up" ELSE "create")
  BY <1>3, GotoKeeps DEF CheckBindUser
<1>4. ASSUME CreateBindUser PROVE MovesTo("create", "set")
  BY <1>4, GotoKeeps DEF CreateBindUser
<1>5. ASSUME SetBindPassword PROVE MovesTo("set", "join")
  BY <1>5, GotoKeeps DEF SetBindPassword
<1>6. ASSUME JoinReadonly PROVE MovesTo("join", "up")
  BY <1>6, GotoKeeps DEF JoinReadonly
<1>7. ASSUME ComposeUp PROVE MovesTo("up", "recreate")
  <2>1. CASE authelia = "absent"
    BY <1>7, <2>1, ChangedKeeps DEF ComposeUp, WithChanged
  <2>2. CASE authelia # "absent"
    BY <1>7, <2>2, GotoKeeps DEF ComposeUp
  <2> QED
    BY <2>1, <2>2
<1>8. ASSUME RecreateAuthelia PROVE MovesTo("recreate", Last)
  BY <1>8, GotoKeeps DEF RecreateAuthelia, Last
<1> QED
  BY <1>1, <1>2, <1>3, <1>4, <1>5, <1>6, <1>7, <1>8

LEMMA ReadyMoves ==
  ASSUME run \in RunType, NEW pc \in {"ready", "ready again"}, Ready(pc)
  PROVE  run.pc = pc /\ run'.pc = After(pc) /\ run'.left = Users /\ Keeps /\ (run'.bad <=> run.bad)
<1>1. run' = WithLeft(run, After(pc), Users) /\ After(pc) \in Steps
  BY DEF Ready, WithLeft, LoopItems, After, Steps
<1> QED
  BY <1>1, LeftKeeps DEF Ready, At, Keeps

LEMMA Stops ==
  ASSUME run \in RunType,
         \/ NotReady("ready") \/ NotReady("ready again") \/ JoinFails \/ CutOff
         \/ (EndOfLoop /\ run.bad) \/ (Reboot /\ ~Resting)
  PROVE  Stopped
<1>1. CASE Reboot /\ ~Resting
  <2>1. Ends
    BY <1>1 DEF Reboot, Ends
  <2> QED
    BY <2>1, EndsIsIdle DEF Stopped
<1>2. CASE ~(Reboot /\ ~Resting)
  BY <1>2, EndsIsIdle DEF NotReady, JoinFails, CutOff, EndOfLoop, Stopped
<1> QED
  BY <1>1, <1>2

LEMMA Errors ==
  ASSUME run \in RunType
  PROVE  /\ CheckFails => Errs("check", "create")
         /\ BindRequestFails => Errs("create", "set") \/ Errs("set", "join")
<1>1. ASSUME CheckFails PROVE Errs("check", "create")
  BY <1>1, UncleanKeeps DEF CheckFails, At, Unclean, Errs, Steps
<1>2. ASSUME BindRequestFails, run.pc = "create" PROVE Errs("create", "set")
  BY <1>2, UncleanKeeps DEF BindRequestFails, Unclean, Errs, Steps
<1>3. ASSUME BindRequestFails, run.pc = "set" PROVE Errs("set", "join")
  BY <1>3, UncleanKeeps DEF BindRequestFails, Unclean, Errs, Steps
<1> QED
  BY <1>1, <1>2, <1>3 DEF BindRequestFails

LEMMA ItemErrors ==
  ASSUME run \in RunType, NEW u \in Users
  PROVE  /\ ItemFails(u) => /\ run' \in RunType /\ run'.pc = run.pc /\ Same /\ run'.bad /\ ~run'.clean
         /\ AddToSomeGroups(u) => /\ run' \in RunType /\ run'.pc = run.pc /\ Same
                                  /\ run'.left = run.left \ {u} /\ (run'.bad <=> run.bad) /\ ~run'.clean
<1> DEFINE s == run.left \ {u}
<1>1. s \in SUBSET Users
  BY DEF RunType
<1>2. ASSUME ItemFails(u) PROVE run' = BadLeft(run, s)
  BY <1>2 DEF ItemFails, BadItem, BadLeft
<1>3. ASSUME AddToSomeGroups(u) PROVE run' = UncleanLeft(run, s)
  BY <1>3 DEF AddToSomeGroups, UncleanLeft
<1> QED
  BY <1>1, <1>2, <1>3, BadLeftKeeps, UncleanLeftKeeps

LEMMA LoopEnds ==
  ASSUME run \in RunType, EndOfLoop, ~run.bad
  PROVE  /\ Keeps /\ ~run'.bad /\ run.left = {}
         /\ \/ run.pc = "provision" /\ run'.pc = "passwords" /\ run'.left = Users
            \/ run.pc = "passwords" /\ run'.pc = "groups" /\ run'.left = Users
            \/ run.pc = "groups" /\ run'.pc = "done" /\ run'.left = {}
<1> DEFINE s == IF run.pc = "groups" THEN {} ELSE Users
<1>1. run' = WithLeft(run, Following(run.pc), s) /\ s \in SUBSET Users
  BY DEF EndOfLoop, WithLeft, LoopItems
<1>2. run.pc \in {"provision", "passwords", "groups"} /\ run.left = {}
  BY DEF EndOfLoop
<1>3. /\ run.pc = "provision" => Following(run.pc) = "passwords"
      /\ run.pc = "passwords" => Following(run.pc) = "groups"
      /\ run.pc = "groups" => Following(run.pc) = "done"
  BY DEF Following
<1>4. Following(run.pc) \in Steps
  BY <1>2, <1>3 DEF Steps
<1> HIDE DEF s
<1>5. run'.pc = Following(run.pc) /\ run'.left = s /\ Keeps /\ ~run'.bad
  BY <1>1, <1>4, LeftKeeps DEF Keeps
<1> QED
  BY <1>2, <1>3, <1>5 DEF s

------------------------------------------------------------------------------
(* Typing, one step per action.                                            *)
LEMMA RunTypedKept ==
  ASSUME RunTyped, run' \in RunType, Same, secret' = secret, groups \subseteq groups'
  PROVE  RunTyped'
  BY DEF RunTyped, Same

LEMMA LoopingElsewhere ==
  ASSUME run'.clean => ~run'.bad, run'.pc \notin {"provision", "passwords", "groups"}
  PROVE  Looping'
  BY DEF Looping

LEMMA MoveTyped ==
  ASSUME RunTyped, Looping, UNCHANGED <<secret, groups>>, run'.pc \notin {"provision", "passwords", "groups"},
         \/ (\E p, q \in Steps : MovesTo(p, q) \/ Errs(p, q))
         \/ Stopped
  PROVE  RunTyped' /\ Looping'
<1>1. run' \in RunType /\ Same /\ (run'.clean => ~run'.bad)
  BY DEF Looping, MovesTo, Errs, Stopped, Keeps, SameLoop
<1> QED
  BY <1>1, RunTypedKept, LoopingElsewhere

LEMMA TypeStep == TypeInv /\ [Next]_vars => TypeInv'
<1> SUFFICES ASSUME TypeInv, [Next]_vars PROVE TypeInv'
  OBVIOUS
<1> USE UsersAssumption DEF TypeInv, directory, container, bounds
<1>0. run \in RunType /\ RunTyped /\ Looping
  BY DEF RunTyped
<1>1. CASE EditSecret
  <2>1. Versions' /\ Places'
    BY <1>1 DEF EditSecret, Versions, Places
  <2>2. Directory'
    BY <1>1 DEF EditSecret, Directory, Versions, Accounts
  <2>3. RunTyped'
    BY <1>0, <1>1 DEF EditSecret, RunTyped, Versions, RunType
  <2> QED
    BY <1>1, <2>1, <2>2, <2>3 DEF EditSecret, Looping
<1>2. CASE EditAdmin
  BY <1>2 DEF EditAdmin, Versions, Places, Directory, RunTyped, Looping, Accounts
<1>3. ASSUME NEW g \in Groups, CreateGroup(g) PROVE TypeInv'
  BY <1>3 DEF CreateGroup, Versions, Places, Directory, RunTyped, Looping, Accounts
<1>4. CASE LldapBoots
  BY <1>4 DEF LldapBoots, Versions, Places, Directory, RunTyped, Looping, Accounts
<1>5. CASE AutheliaBoots
  BY <1>5 DEF AutheliaBoots, Versions, Places, Directory, RunTyped, Looping, Accounts
<1>6. CASE Reboot
  <2>1. Versions' /\ Places' /\ Directory'
    BY <1>6 DEF Reboot, Versions, Places, Directory, Accounts
  <2>2. RunTyped' /\ Looping'
    <3>1. CASE Resting
      BY <1>6, <3>1 DEF Reboot, RunTyped, Looping
    <3>2. CASE ~Resting
      BY <1>0, <1>6, <3>2, Stops, MoveTyped DEF Reboot, Stopped
    <3> QED
      BY <3>1, <3>2
  <2> QED
    BY <2>1, <2>2
<1>7. ASSUME NEW tags \in {"full", "deploy"}, StartRun(tags) PROVE TypeInv'
  <2>1. Versions' /\ Places' /\ Directory'
    BY <1>7 DEF StartRun, Versions, Places, Directory, Accounts
  <2>2. /\ run' \in RunType /\ run'.secret = secret /\ run'.groups = groups
        /\ ~run'.bad /\ run'.pc \in {"config", "prestart"}
    BY <1>7, StartIsFresh DEF FirstStep
  <2>3. RunTyped' /\ Looping'
    BY <1>7, <2>2, LoopingElsewhere DEF StartRun, RunTyped, Versions, RunType
  <2> QED
    BY <2>1, <2>3
<1>8. CASE DeployConfiguration
  <2>1. Versions' /\ Places' /\ Directory'
    BY <1>0, <1>8 DEF DeployConfiguration, Versions, Places, Directory, RunTyped, RunType, Accounts
  <2>2. RunTyped' /\ Looping'
    BY <1>0, <1>8, Moves, MoveTyped DEF DeployConfiguration, Steps, MovesTo
  <2> QED
    BY <2>1, <2>2
<1>9. CASE StartLldapFirst
  <2>1. Versions' /\ Places' /\ Directory'
    BY <1>9 DEF StartLldapFirst, Versions, Places, Directory, Accounts
  <2>2. RunTyped' /\ Looping'
    BY <1>0, <1>9, Moves, MoveTyped DEF StartLldapFirst, Steps, MovesTo
  <2> QED
    BY <2>1, <2>2
<1>10. ASSUME NEW pc \in {"ready", "ready again"}, Ready(pc) PROVE TypeInv'
  <2>1. Versions' /\ Places' /\ Directory'
    BY <1>10 DEF Ready, Versions, Places, Directory, Accounts
  <2>2. /\ run'.pc \in {"check", "provision"} /\ run'.left = Users /\ Keeps /\ (run'.bad <=> run.bad)
    BY <1>0, <1>10, ReadyMoves DEF After
  <2>3. RunTyped'
    BY <1>0, <1>10, <2>2, RunTypedKept DEF Keeps, Ready
  <2>4. Looping'
    BY <1>0, <2>2 DEF Looping, Keeps
  <2> QED
    BY <2>1, <2>3, <2>4
<1>11. ASSUME NEW pc \in {"ready", "ready again"}, NotReady(pc) PROVE TypeInv'
  <2>1. Versions' /\ Places' /\ Directory'
    BY <1>11 DEF NotReady, Versions, Places, Directory, Accounts
  <2>2. RunTyped' /\ Looping'
    BY <1>0, <1>11, Stops, MoveTyped DEF NotReady, Stopped
  <2> QED
    BY <2>1, <2>2
<1>12. CASE CheckBindUser
  <2>1. Versions' /\ Places'
    BY <1>12 DEF CheckBindUser, Versions, Places
  <2>2. Directory'
    BY <1>0, <1>12 DEF CheckBindUser, Directory, RunTyped, RunType, Accounts
  <2>3. RunTyped' /\ Looping'
    BY <1>0, <1>12, Moves, MoveTyped DEF CheckBindUser, Steps, MovesTo
  <2> QED
    BY <2>1, <2>2, <2>3
<1>13. CASE CheckFails
  <2>1. Versions' /\ Places' /\ Directory'
    BY <1>13 DEF CheckFails, Fault, Versions, Places, Directory, Accounts
  <2>2. RunTyped' /\ Looping'
    BY <1>0, <1>13, Errors, MoveTyped DEF CheckFails, Steps, Errs
  <2> QED
    BY <2>1, <2>2
<1>14. CASE CreateBindUser
  <2>1. Versions' /\ Places' /\ Directory'
    BY <1>14 DEF CreateBindUser, Versions, Places, Directory, Accounts
  <2>2. RunTyped' /\ Looping'
    BY <1>0, <1>14, Moves, MoveTyped DEF CreateBindUser, Steps, MovesTo
  <2> QED
    BY <2>1, <2>2
<1>15. CASE SetBindPassword
  <2>1. Versions' /\ Places'
    BY <1>15 DEF SetBindPassword, Versions, Places
  <2>2. Directory'
    BY <1>0, <1>15 DEF SetBindPassword, Directory, RunTyped, RunType, Accounts
  <2>3. RunTyped' /\ Looping'
    BY <1>0, <1>15, Moves, MoveTyped DEF SetBindPassword, Steps, MovesTo
  <2> QED
    BY <2>1, <2>2, <2>3
<1>16. CASE JoinReadonly
  <2>1. Versions' /\ Places' /\ Directory'
    BY <1>16 DEF JoinReadonly, Versions, Places, Directory, Accounts
  <2>2. RunTyped' /\ Looping'
    BY <1>0, <1>16, Moves, MoveTyped DEF JoinReadonly, Steps, MovesTo
  <2> QED
    BY <2>1, <2>2
<1>17. CASE BindRequestFails
  <2>1. Versions' /\ Places' /\ Directory'
    BY <1>17 DEF BindRequestFails, Fault, Versions, Places, Directory, Accounts
  <2>2. RunTyped' /\ Looping'
    BY <1>0, <1>17, Errors, MoveTyped DEF BindRequestFails, Steps, Errs
  <2> QED
    BY <2>1, <2>2
<1>18. CASE JoinFails
  <2>1. Versions' /\ Places' /\ Directory'
    BY <1>18 DEF JoinFails, Fault, Versions, Places, Directory, Accounts
  <2>2. RunTyped' /\ Looping'
    BY <1>0, <1>18, Stops, MoveTyped DEF JoinFails, Stopped
  <2> QED
    BY <2>1, <2>2
<1>19. CASE ComposeUp
  <2>1. Versions' /\ Places' /\ Directory'
    BY <1>19 DEF ComposeUp, Versions, Places, Directory, Accounts
  <2>2. RunTyped' /\ Looping'
    BY <1>0, <1>19, Moves, MoveTyped DEF ComposeUp, Steps, MovesTo
  <2> QED
    BY <2>1, <2>2
<1>20. CASE RecreateAuthelia
  <2>1. Versions' /\ Places' /\ Directory'
    BY <1>20 DEF RecreateAuthelia, Versions, Places, Directory, Accounts
  <2>2. RunTyped' /\ Looping'
    BY <1>0, <1>20, Moves, MoveTyped DEF RecreateAuthelia, Steps, MovesTo, Last
  <2> QED
    BY <2>1, <2>2
<1>21. ASSUME NEW u \in Users, ProvisionUser(u) PROVE TypeInv'
  <2>1. Versions' /\ Places' /\ Directory'
    BY <1>21 DEF ProvisionUser, Versions, Places, Directory, Accounts
  <2>2. /\ run.pc = "provision" /\ run'.pc = run.pc /\ run'.left = run.left \ {u} /\ Keeps
        /\ (run'.bad <=> run.bad)
    BY <1>0, <1>21, ItemKeeps DEF ProvisionUser, Keeps, At
  <2>3. RunTyped'
    BY <1>0, <1>21, <2>2, RunTypedKept DEF ProvisionUser, Keeps
  <2>4. Looping'
    BY <1>0, <1>21, <2>2 DEF ProvisionUser, Looping, Keeps
  <2> QED
    BY <2>1, <2>3, <2>4
<1>22. ASSUME NEW u \in Users, SetUserPassword(u) PROVE TypeInv'
  <2>1. Versions' /\ Places' /\ Directory'
    BY <1>0, <1>22 DEF SetUserPassword, Versions, Places, Directory, RunTyped, RunType, Accounts
  <2>2. /\ run.pc = "passwords" /\ run'.pc = run.pc /\ Keeps /\ (run'.bad <=> run.bad)
    BY <1>0, <1>22, ItemKeeps DEF SetUserPassword, Keeps, At
  <2>3. RunTyped'
    BY <1>0, <1>22, <2>2, RunTypedKept DEF SetUserPassword, Keeps
  <2>4. Looping'
    BY <1>0, <1>22, <2>2 DEF SetUserPassword, Looping, Keeps
  <2> QED
    BY <2>1, <2>3, <2>4
<1>23. ASSUME NEW u \in Users, ItemFails(u) PROVE TypeInv'
  <2>1. Versions' /\ Places' /\ Directory'
    BY <1>23 DEF ItemFails, Fault, Versions, Places, Directory, Accounts
  <2>2. /\ run.pc \in {"provision", "passwords"} /\ run'.pc = run.pc
        /\ run' \in RunType /\ Same /\ run'.bad /\ ~run'.clean
    BY <1>0, <1>23, ItemErrors DEF ItemFails
  <2>3. RunTyped'
    BY <1>0, <1>23, <2>2, RunTypedKept DEF ItemFails
  <2>4. Looping'
    BY <1>0, <1>23, <2>2 DEF ItemFails, Looping
  <2> QED
    BY <2>1, <2>3, <2>4
<1>24. ASSUME NEW u \in Users, AddToGroups(u) PROVE TypeInv'
  <2>1. Versions' /\ Places'
    BY <1>24 DEF AddToGroups, Versions, Places
  <2>2. /\ run.pc = "groups" /\ run'.pc = run.pc /\ Keeps /\ (run'.bad <=> run.bad)
    BY <1>0, <1>24, ItemKeeps DEF AddToGroups, Keeps, At
  <2>3. u \in accounts
    BY <1>0, <2>2 DEF Looping
  <2>4. Directory'
    BY <1>24, <2>3 DEF AddToGroups, Directory, Accounts
  <2>5. RunTyped'
    BY <1>0, <1>24, <2>2, RunTypedKept DEF AddToGroups, Keeps
  <2>6. Looping'
    BY <1>0, <1>24, <2>2 DEF AddToGroups, Looping, Keeps
  <2> QED
    BY <2>1, <2>4, <2>5, <2>6
<1>25. ASSUME NEW u \in Users, AddToSomeGroups(u) PROVE TypeInv'
  <2>1. Versions' /\ Places'
    BY <1>25 DEF AddToSomeGroups, Fault, Versions, Places
  <2>2. /\ run.pc = "groups" /\ run'.pc = run.pc /\ run' \in RunType /\ Same
        /\ (run'.bad <=> run.bad) /\ ~run'.clean
    BY <1>0, <1>25, ItemErrors DEF AddToSomeGroups, At
  <2>3. u \in accounts
    BY <1>0, <2>2 DEF Looping
  <2>4. PICK some \in SUBSET (GroupsOf[u] \cap groups) : member' = member \cup {<<u, g>> : g \in some}
    BY <1>25 DEF AddToSomeGroups
  <2>5. Directory'
    BY <1>25, <2>3, <2>4 DEF AddToSomeGroups, Directory, Accounts
  <2>6. RunTyped'
    BY <1>0, <1>25, <2>2, RunTypedKept DEF AddToSomeGroups
  <2>7. Looping'
    BY <1>0, <1>25, <2>2 DEF AddToSomeGroups, Looping
  <2> QED
    BY <2>1, <2>5, <2>6, <2>7
<1>26. CASE EndOfLoop
  <2>1. Versions' /\ Places' /\ Directory'
    BY <1>26 DEF EndOfLoop, Versions, Places, Directory, Accounts
  <2>2. CASE run.bad
    <3>1. RunTyped' /\ Looping'
      BY <1>0, <1>26, <2>2, Stops, MoveTyped DEF EndOfLoop, Stopped
    <3> QED
      BY <2>1, <3>1
  <2>3. CASE ~run.bad
    <3>1. RunTyped'
      BY <1>0, <1>26, <2>3, LoopEnds, RunTypedKept DEF EndOfLoop, Keeps
    <3>2. Looping'
      BY <1>0, <1>26, <2>3, LoopEnds DEF EndOfLoop, Looping
    <3> QED
      BY <2>1, <3>1, <3>2
  <2> QED
    BY <2>2, <2>3
<1>27. CASE CutOff
  <2>1. Versions' /\ Places' /\ Directory'
    BY <1>27 DEF CutOff, Fault, Versions, Places, Directory, Accounts
  <2>2. RunTyped' /\ Looping'
    BY <1>0, <1>27, Stops, MoveTyped DEF CutOff, Stopped
  <2> QED
    BY <2>1, <2>2
<1>28. CASE UNCHANGED vars
  BY <1>28 DEF vars, Versions, Places, Directory, RunTyped, Looping, Accounts
<1> QED
  BY <1>1, <1>2, <1>3, <1>4, <1>5, <1>6, <1>7, <1>8, <1>9, <1>10, <1>11, <1>12, <1>13, <1>14,
     <1>15, <1>16, <1>17, <1>18, <1>19, <1>20, <1>21, <1>22, <1>23, <1>24, <1>25, <1>26, <1>27,
     <1>28 DEF Next, RunStep, Environment

(* Type correctness, for any users, groups and bounds. *)
THEOREM TypeCorrect == Spec => []TypeOK
<1>1. TypeInv => TypeOK
  <2> SUFFICES ASSUME TypeInv PROVE TypeOK
    OBVIOUS
  <2>1. run.secret \in 0 .. secret /\ run.left \subseteq Users
    BY DEF TypeInv, Versions, RunTyped, RunType
  <2>2. \A m \in member : m[1] \in accounts /\ m[2] \in groups
    BY DEF TypeInv, Directory
  <2>3. \A a \in Accounts : password[a] \in 0 .. secret /\ (password[a] # 0 => a \in accounts)
    BY DEF TypeInv, Versions, Directory
  <2> QED
    BY <2>1, <2>2, <2>3, UsersAssumption DEF TypeInv, TypeOK, Versions, Places, Directory
<1> QED
  BY InitTyped, TypeStep, <1>1, PTL DEF Spec

------------------------------------------------------------------------------
(* What a run whose requests have all succeeded has brought about.         *)
UserDone(u) == u \in accounts /\ password[u] = run.secret

InGroups(u) == \A g \in GroupsOf[u] \cap run.groups : <<u, g>> \in member

UsersProgress ==
    run.clean /\ run.tags = "full" =>
        /\ run.pc = "passwords" => \A u \in Users \ run.left : UserDone(u)
        /\ run.pc \in {"groups", "done"} => \A u \in Users : UserDone(u)
        /\ run.pc = "groups" => \A u \in Users \ run.left : InGroups(u)
        /\ run.pc = "done" => \A u \in Users : InGroups(u)

Early == {"config", "prestart", "ready", "check", "create"}
Late  == {"up", "recreate", "ready again", "provision", "passwords", "groups", "done"}

BindProgress ==
    run.clean =>
        /\ run.tags = "full" /\ run.pc \in (Early \ {"config"}) \cup {"set", "join", "up", "recreate"} =>
             cfg = run.secret
        /\ run.pc \in {"set", "join", "up", "recreate"} => "authelia" \in accounts
        /\ run.pc \in {"join", "up", "recreate"} => password["authelia"] = run.secret
        /\ run.fresh /\ run.pc \in Early => "authelia" \notin accounts
        /\ run.fresh /\ run.pc \in Late => <<"authelia", Readonly>> \in member

Progress == UsersProgress /\ BindProgress

LEMMA InitProgress == Init => Progress
  BY DEF Init, Progress, UsersProgress, BindProgress, NoRun

(* A run that is unclean promises nothing. *)
LEMMA UncleanProgress == ASSUME ~run'.clean PROVE Progress'
  BY DEF Progress, UsersProgress, BindProgress

\* Changes of the directory and the configuration that break no promise.
Harmless ==
    /\ cfg' = cfg /\ accounts' = accounts /\ password' = password /\ member \subseteq member'

LEMMA EnvironmentProgress ==
  ASSUME TypeInv, Progress, UNCHANGED run, Harmless PROVE Progress'
  BY DEF Progress, UsersProgress, BindProgress, UserDone, InGroups, Harmless

(* A step before the users are provisioned changes none of their passwords. *)
LEMMA EarlyUsersProgress ==
  ASSUME run'.pc \in Early \cup {"set", "join", "up", "recreate", "ready again", "idle"} PROVE UsersProgress'
  BY DEF UsersProgress, Early

LEMMA ProgressStep == TypeInv /\ Progress /\ [Next]_vars => Progress'
<1> SUFFICES ASSUME TypeInv, Progress, [Next]_vars PROVE Progress'
  OBVIOUS
<1> USE UsersAssumption DEF directory, container, bounds
<1>0. run \in RunType /\ RunTyped /\ Looping /\ Directory /\ UsersProgress /\ BindProgress
  BY DEF TypeInv, RunTyped, Progress
<1>1. CASE EditSecret \/ EditAdmin \/ LldapBoots \/ AutheliaBoots \/ UNCHANGED vars
  BY <1>1, EnvironmentProgress
  DEF EditSecret, EditAdmin, LldapBoots, AutheliaBoots, vars, Harmless
<1>3. ASSUME NEW g \in Groups, CreateGroup(g) PROVE Progress'
  BY <1>3, EnvironmentProgress DEF CreateGroup, Harmless
<1>6. CASE Reboot
  <2>1. CASE Resting
    BY <1>6, <2>1, EnvironmentProgress DEF Reboot, Harmless
  <2>2. CASE ~Resting
    BY <1>0, <1>6, <2>2, Stops, UncleanProgress DEF Stopped
  <2> QED
    BY <2>1, <2>2
<1>7. ASSUME NEW tags \in {"full", "deploy"}, StartRun(tags) PROVE Progress'
  <2>1. /\ run'.pc = FirstStep(tags) /\ run'.tags = tags /\ run'.secret = secret
        /\ (run'.fresh <=> "authelia" \notin accounts) /\ accounts' = accounts
    BY <1>7, StartIsFresh DEF StartRun
  <2>2. (tags = "full" /\ run'.pc = "config") \/ (tags = "deploy" /\ run'.pc = "prestart")
    BY <1>7, <2>1 DEF FirstStep
  <2>3. UsersProgress'
    BY <2>2, EarlyUsersProgress DEF Early
  <2>4. BindProgress'
    BY <2>1, <2>2 DEF BindProgress, Early, Late
  <2> QED
    BY <2>3, <2>4 DEF Progress
<1>8. CASE DeployConfiguration
  <2>1. MovesTo("config", "prestart") /\ cfg' = run.secret /\ accounts' = accounts
    BY <1>0, <1>8, Moves DEF DeployConfiguration
  <2>2. UsersProgress'
    BY <2>1, EarlyUsersProgress DEF MovesTo, Early
  <2>3. BindProgress'
    BY <1>0, <2>1 DEF BindProgress, MovesTo, Keeps, Same, Early, Late
  <2> QED
    BY <2>2, <2>3 DEF Progress
<1>9. CASE StartLldapFirst
  <2>1. MovesTo("prestart", "ready") /\ cfg' = cfg /\ accounts' = accounts
    BY <1>0, <1>9, Moves DEF StartLldapFirst
  <2>2. UsersProgress'
    BY <2>1, EarlyUsersProgress DEF MovesTo, Early
  <2>3. BindProgress'
    BY <1>0, <2>1 DEF BindProgress, MovesTo, Keeps, Same, Early, Late
  <2> QED
    BY <2>2, <2>3 DEF Progress
<1>10. ASSUME NEW pc \in {"ready", "ready again"}, Ready(pc) PROVE Progress'
  <2>1. /\ run.pc = pc /\ run'.pc = After(pc) /\ Keeps /\ run'.left = Users
        /\ Harmless /\ member' = member
    BY <1>0, <1>10, ReadyMoves DEF Ready, Harmless
  <2>2. (run.pc = "ready" /\ run'.pc = "check") \/ (run.pc = "ready again" /\ run'.pc = "provision")
    BY <1>10, <2>1 DEF After
  <2>3. UsersProgress'
    BY <2>2 DEF UsersProgress
  <2>4. BindProgress'
    BY <1>0, <2>1, <2>2 DEF BindProgress, Harmless, Keeps, Same, Early, Late
  <2> QED
    BY <2>3, <2>4 DEF Progress
<1>11. ASSUME NEW pc \in {"ready", "ready again"}, NotReady(pc) PROVE Progress'
  BY <1>0, <1>11, Stops, UncleanProgress DEF Stopped
<1>12. CASE CheckBindUser
  <2>1. UsersProgress'
    BY <1>0, <1>12, Moves, EarlyUsersProgress DEF MovesTo, Early
  <2>2. CASE "authelia" \in accounts
    <3>1. /\ MovesTo("check", "up") /\ cfg' = cfg /\ accounts' = accounts
          /\ password' = [password EXCEPT !["authelia"] = run.secret]
      BY <1>0, <1>12, <2>2, Moves DEF CheckBindUser
    <3>2. password'["authelia"] = run.secret
      BY <1>0, <3>1 DEF Directory, Accounts
    <3>3. BindProgress'
      BY <1>0, <2>2, <3>1, <3>2 DEF BindProgress, MovesTo, Keeps, Same, Early, Late
    <3> QED
      BY <2>1, <3>3 DEF Progress
  <2>3. CASE "authelia" \notin accounts
    <3>1. MovesTo("check", "create") /\ cfg' = cfg /\ accounts' = accounts
      BY <1>0, <1>12, <2>3, Moves DEF CheckBindUser
    <3>2. BindProgress'
      BY <1>0, <3>1 DEF BindProgress, MovesTo, Keeps, Same, Early, Late
    <3> QED
      BY <2>1, <3>2 DEF Progress
  <2> QED
    BY <2>2, <2>3
<1>13. CASE CheckFails
  BY <1>0, <1>13, Errors, UncleanProgress DEF Errs
<1>14. CASE CreateBindUser
  <2>1. /\ MovesTo("create", "set") /\ cfg' = cfg /\ "authelia" \in accounts'
    BY <1>0, <1>14, Moves DEF CreateBindUser
  <2>2. UsersProgress'
    BY <2>1, EarlyUsersProgress DEF MovesTo, Early
  <2>3. BindProgress'
    BY <1>0, <2>1 DEF BindProgress, MovesTo, Keeps, Same, Early, Late
  <2> QED
    BY <2>2, <2>3 DEF Progress
<1>15. CASE SetBindPassword
  <2>1. /\ MovesTo("set", "join") /\ cfg' = cfg /\ accounts' = accounts
        /\ "authelia" \in accounts => password' = [password EXCEPT !["authelia"] = run.secret]
    BY <1>0, <1>15, Moves DEF SetBindPassword
  <2>2. "authelia" \in accounts => password'["authelia"] = run.secret
    BY <1>0, <2>1 DEF Directory, Accounts
  <2>3. UsersProgress'
    BY <2>1, EarlyUsersProgress DEF MovesTo, Early
  <2>4. BindProgress'
    BY <1>0, <2>1, <2>2 DEF BindProgress, MovesTo, Keeps, Same, Early, Late
  <2> QED
    BY <2>3, <2>4 DEF Progress
<1>16. CASE JoinReadonly
  <2>1. /\ MovesTo("join", "up") /\ cfg' = cfg /\ accounts' = accounts /\ password' = password
        /\ "authelia" \in accounts => <<"authelia", Readonly>> \in member'
    BY <1>0, <1>16, Moves DEF JoinReadonly
  <2>2. UsersProgress'
    BY <2>1, EarlyUsersProgress DEF MovesTo, Early
  <2>3. BindProgress'
    BY <1>0, <2>1 DEF BindProgress, MovesTo, Keeps, Same, Early, Late
  <2> QED
    BY <2>2, <2>3 DEF Progress
<1>17. CASE BindRequestFails
  BY <1>0, <1>17, Errors, UncleanProgress DEF Errs
<1>18. CASE JoinFails
  BY <1>0, <1>18, Stops, UncleanProgress DEF Stopped
<1>19. CASE ComposeUp
  <2>1. MovesTo("up", "recreate") /\ Harmless
    BY <1>0, <1>19, Moves DEF ComposeUp, Harmless
  <2>2. UsersProgress'
    BY <2>1, EarlyUsersProgress DEF MovesTo, Early
  <2>3. BindProgress'
    BY <1>0, <2>1 DEF BindProgress, MovesTo, Keeps, Same, Harmless, Early, Late
  <2> QED
    BY <2>2, <2>3 DEF Progress
<1>20. CASE RecreateAuthelia
  <2>1. MovesTo("recreate", Last) /\ Harmless
    BY <1>0, <1>20, Moves DEF RecreateAuthelia, Harmless
  <2>2. run'.tags = "full" => run'.pc = "ready again"
    BY <2>1 DEF MovesTo, Keeps, Same, Last
  <2>3. run'.pc \in {"ready again", "done"}
    BY <2>1 DEF MovesTo, Last
  <2>4. UsersProgress'
    BY <2>2 DEF UsersProgress
  <2>5. BindProgress'
    BY <1>0, <2>1, <2>3 DEF BindProgress, MovesTo, Keeps, Same, Harmless, Early, Late
  <2> QED
    BY <2>4, <2>5 DEF Progress
<1>21. ASSUME NEW u \in Users, ProvisionUser(u) PROVE Progress'
  <2>1. run.pc = "provision" /\ run'.pc = "provision" /\ Keeps /\ cfg' = cfg /\ member' = member
    BY <1>0, <1>21, ItemKeeps DEF ProvisionUser, Keeps, At
  <2>2. UsersProgress'
    BY <2>1 DEF UsersProgress
  <2>3. BindProgress'
    BY <1>0, <2>1 DEF BindProgress, Keeps, Same, Early, Late
  <2> QED
    BY <2>2, <2>3 DEF Progress
<1>22. ASSUME NEW u \in Users, SetUserPassword(u) PROVE Progress'
  <2>1. /\ run.pc = "passwords" /\ run'.pc = "passwords" /\ Keeps /\ run'.left = run.left \ {u}
        /\ u \in accounts /\ accounts' = accounts /\ member' = member
        /\ password' = [password EXCEPT ![u] = run.secret]
    BY <1>0, <1>22, ItemKeeps DEF SetUserPassword, Keeps, At
  <2>2. \A v \in Users : password'[v] = IF v = u THEN run.secret ELSE password[v]
    BY <1>0, <2>1 DEF Directory, Accounts
  <2>3. UsersProgress'
    BY <1>0, <2>1, <2>2 DEF UsersProgress, UserDone, Keeps, Same
  <2>4. BindProgress'
    BY <1>0, <2>1 DEF BindProgress, Keeps, Same, Early, Late
  <2> QED
    BY <2>3, <2>4 DEF Progress
<1>23. ASSUME NEW u \in Users, ItemFails(u) PROVE Progress'
  BY <1>0, <1>23, ItemErrors, UncleanProgress
<1>24. ASSUME NEW u \in Users, AddToGroups(u) PROVE Progress'
  <2>1. /\ run.pc = "groups" /\ run'.pc = "groups" /\ Keeps /\ run'.left = run.left \ {u}
        /\ accounts' = accounts /\ password' = password
        /\ member' = member \cup {<<u, g>> : g \in GroupsOf[u] \cap groups}
    BY <1>0, <1>24, ItemKeeps DEF AddToGroups, Keeps, At
  <2>2. run.groups \subseteq groups /\ member \subseteq member'
    BY <1>0, <2>1 DEF RunTyped
  <2>3. \A g \in GroupsOf[u] \cap run.groups : <<u, g>> \in member'
    BY <2>1, <2>2
  <2>4. UsersProgress'
    BY <1>0, <2>1, <2>2, <2>3 DEF UsersProgress, UserDone, InGroups, Keeps, Same
  <2>5. BindProgress'
    BY <1>0, <2>1, <2>2 DEF BindProgress, Keeps, Same, Early, Late
  <2> QED
    BY <2>4, <2>5 DEF Progress
<1>25. ASSUME NEW u \in Users, AddToSomeGroups(u) PROVE Progress'
  BY <1>0, <1>25, ItemErrors, UncleanProgress
<1>26. CASE EndOfLoop
  <2>1. CASE run.bad
    BY <1>0, <1>26, <2>1, Stops, UncleanProgress DEF Stopped
  <2>2. CASE ~run.bad
    <3>1. Harmless /\ member' = member
      BY <1>26 DEF EndOfLoop, Harmless
    <3>2. /\ Keeps /\ run.left = {}
          /\ \/ run.pc = "provision" /\ run'.pc = "passwords" /\ run'.left = Users
             \/ run.pc = "passwords" /\ run'.pc = "groups" /\ run'.left = Users
             \/ run.pc = "groups" /\ run'.pc = "done" /\ run'.left = {}
      BY <1>0, <1>26, <2>2, LoopEnds
    <3>3. UsersProgress'
      BY <1>0, <3>1, <3>2 DEF UsersProgress, UserDone, InGroups, Harmless, Keeps, Same
    <3>4. BindProgress'
      BY <1>0, <3>1, <3>2 DEF BindProgress, Harmless, Keeps, Same, Early, Late
    <3> QED
      BY <3>3, <3>4 DEF Progress
  <2> QED
    BY <2>1, <2>2
<1>27. CASE CutOff
  BY <1>0, <1>27, Stops, UncleanProgress DEF Stopped
<1> QED
  BY <1>1, <1>3, <1>6, <1>7, <1>8, <1>9, <1>10, <1>11, <1>12, <1>13, <1>14, <1>15, <1>16, <1>17,
     <1>18, <1>19, <1>20, <1>21, <1>22, <1>23, <1>24, <1>25, <1>26, <1>27 DEF Next, RunStep, Environment

(* A run whose requests all succeeded has provisioned the users. *)
THEOREM UsersProvisioned == Spec => []UsersAreProvisioned
<1>1. Progress => UsersAreProvisioned
  BY DEF Progress, UsersProgress, UsersAreProvisioned, UserDone, InGroups
<1> QED
  BY InitTyped, TypeStep, InitProgress, ProgressStep, <1>1, PTL DEF Spec

(* A bind user a run has created is in the group that may search. *)
THEOREM BindUserSearches == Spec => []NewBindUserCanSearch
<1>1. Progress => NewBindUserCanSearch
  BY DEF Progress, BindProgress, NewBindUserCanSearch, Late
<1> QED
  BY InitTyped, TypeStep, InitProgress, ProgressStep, <1>1, PTL DEF Spec

(* The step that starts Authelia. *)
LEMMA StartsBindable ==
  ASSUME TypeInv, Progress, Next, held' = cfg', run.pc \in {"up", "recreate"},
         <<authelia, held>>' # <<authelia, held>>, authelia' = "looping",
         run.tags = "full", run.clean
  PROVE  Bindable'
<1>1. "authelia" \in accounts /\ password["authelia"] = run.secret /\ cfg = run.secret
  BY DEF Progress, BindProgress
<1>2. cfg' = cfg /\ accounts' = accounts /\ password' = password
  <2> USE DEF directory, container, bounds
  <2>1. CASE RunStep
    BY <2>1 DEF RunStep, StartRun, DeployConfiguration, StartLldapFirst, Ready, NotReady, CheckBindUser,
       CheckFails, CreateBindUser, SetBindPassword, JoinReadonly, BindRequestFails, JoinFails, ComposeUp,
       RecreateAuthelia, ProvisionUser, SetUserPassword, ItemFails, AddToGroups, AddToSomeGroups,
       EndOfLoop, CutOff, At, Resting
  <2>2. CASE Environment
    BY <2>2 DEF Environment, EditSecret, EditAdmin, LldapBoots, AutheliaBoots, Reboot, CreateGroup
  <2> QED
    BY <2>1, <2>2 DEF Next
<1> QED
  BY <1>1, <1>2 DEF Bindable

(* Authelia is not started before it can bind. *)
THEOREM AutheliaBinds == Spec => AutheliaStartsWithItsUser
<1>1. TypeInv /\ Progress /\ [Next]_vars =>
          [authelia' = "looping" /\ held' = cfg' /\ run.pc \in {"up", "recreate"}
             /\ <<authelia, held>>' # <<authelia, held>> /\ run.tags = "full" /\ run.clean
             => Bindable']_vars
  BY StartsBindable
<1> QED
  BY InitTyped, TypeStep, InitProgress, ProgressStep, <1>1, PTL DEF Spec, AutheliaStartsWithItsUser
===============================================================================
