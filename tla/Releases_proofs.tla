-------------------------- MODULE Releases_proofs --------------------------
(***************************************************************************)
(* Releases for any number of deployments, of kept folders and of commands *)
(* that fail.  The inductive invariant says, for each step, what the       *)
(* commands before it have left on the host if none of them failed.        *)
(***************************************************************************)
EXTENDS Releases, FiniteSetTheorems, TLAPS

Deploying == {"creating", "announcing", "building", "moving", "unlinking", "linking",
              "sweeping", "trimming", "saving", "starting"}

RollingBack == {"marking", "choosing", "unlinking back", "linking back", "rolled back"}

Moved == {"unlinking", "linking", "sweeping", "trimming", "saving", "starting"}

Switched == {"sweeping", "trimming", "saving", "starting"}

\* A deployment has a name, and nothing is over while it goes on.
StepInv ==
    /\ memoised => name # NoName
    /\ pc \in Deploying => name # NoName /\ outcome = "none"
    /\ pc \in RollingBack => outcome \in {"none", "failed"}

\* What the clean-up finds: the link is that of the session, or the switch failed,
\* and it is not among the folders unless load failed.
LinkInv ==
    /\ pc = "linking" => link = NoName
    /\ pc \in {"sweeping", "trimming"} => link \in {NoName, current} \/ "unlinking" \in dropped
    /\ LinkEntry \in folders => "idle" \in dropped

\* Where the build of this deployment is.
BuildInv ==
    dropped = {} =>
        /\ pc = "moving" => dirs[Pending(name)] = deploys
        /\ pc \in Moved => current = name
        /\ pc \in Moved /\ ~reused => dirs[name] = deploys
        /\ pc \in Switched => link = current
        /\ SuccessServesBuild

\* What the session and releases.json know is there.
SavedInv ==
    dropped = {} =>
        /\ pc # "idle" => cache \cap Names \subseteq OnHost
        /\ pc \in {"building", "moving", "unlinking", "linking", "sweeping", "trimming", "starting"}
            => saved \cap Names \subseteq OnHost
        /\ pc \in RollingBack /\ outcome = "failed" => saved \cap Names \subseteq OnHost
        /\ pc \in {"marking", "choosing"} /\ outcome = "none" => target \in OnHost
        /\ SavedReleasesExist

IInv == TypeOK /\ StepInv /\ LinkInv /\ BuildInv /\ SavedInv

\* The kinds of names do not overlap.
LEMMA NameFacts ==
    /\ \A n \in Names : Pending(n) \in PendingNames /\ Pending(n) \notin Names
    /\ Names \cap PendingNames = {}
    /\ NoName \notin Names \cup PendingNames \cup {LinkEntry}
    /\ JsonFile \notin Names \cup PendingNames \cup {LinkEntry}
    /\ LinkEntry \notin Names \cup PendingNames
BY ReleasesAssumption
DEF ReleasesAssumption, Names, PendingNames, Pending, NoName, JsonFile, LinkEntry

\* What a session starts with, whether load could read the host or not.
LEMMA BeginFacts ==
    ASSUME TypeOK, NEW step, NEW asked, BeginSession(step, asked)
    PROVE  /\ OnHost \subseteq folders'
           /\ folders' \subseteq OnHost \cup {JsonFile, LinkEntry}
           /\ cache' \subseteq (saved \cap OnHost) \cup asked
           /\ current' \in {link, NoName}
           /\ faults' \in 0 .. MaxFaults
           /\ dropped' = {} => current' = link
           /\ dropped' = {} \/ dropped' = {"idle"}
           /\ LinkEntry \in folders' => dropped' = {"idle"}
<1>1. pc = "idle" /\ (Load(asked) \/ LoadFails(asked))
  BY DEF BeginSession, Goto
<1>2. LinkEntry \notin Listed /\ OnHost \subseteq Listed /\ Listed \subseteq OnHost \cup {JsonFile}
  BY NameFacts DEF Listed, OnHost
<1>3. faults \in 0 .. MaxFaults
  BY DEF TypeOK
<1>4. CASE Load(asked)
  BY <1>2, <1>3, <1>4 DEF Load
<1>5. CASE LoadFails(asked)
  <2>1. faults' \in 0 .. MaxFaults
    BY <1>3, <1>5, ReleasesAssumption DEF LoadFails, ReleasesAssumption
  <2>2. Listed \subseteq folders' /\ folders' \subseteq Listed \cup {LinkEntry}
    BY <1>5 DEF LoadFails
  <2>3. QED
    BY <1>1, <1>2, <1>5, <2>1, <2>2 DEF LoadFails
<1>6. QED
  BY <1>1, <1>4, <1>5

\* A deployment with a name has one of the names there are.
LEMMA NameInNames == TypeOK /\ name # NoName => name \in Names /\ deploys \in 1 .. MaxDeploys
BY ReleasesAssumption DEF ReleasesAssumption, TypeOK, NoName, Names

\* listToDelete takes folders, and never the current one.
LEMMA ListFacts ==
    ASSUME folders \subseteq Folders
    PROVE  ListToDelete \subseteq folders /\ current \notin ListToDelete
<1>1. IsFiniteSet(folders)
  <2>1. IsFiniteSet(0 .. 2 * MaxDeploys + 2)
    BY ReleasesAssumption, FS_Interval DEF ReleasesAssumption
  <2>2. Folders \subseteq 0 .. 2 * MaxDeploys + 2
    BY ReleasesAssumption
    DEF ReleasesAssumption, Folders, Names, PendingNames, Pending, JsonFile, LinkEntry
  <2>3. QED
    BY <2>1, <2>2, FS_Subset
<1>2. Rank(current) \in Int
  <2>1. IsFiniteSet({g \in folders : g < current})
    BY <1>1, FS_Subset
  <2>2. QED
    BY <2>1, FS_CardinalityType DEF Rank
<1>3. Cardinality(folders) - KeepX \in Int
  BY <1>1, FS_CardinalityType, ReleasesAssumption DEF ReleasesAssumption
<1>4. ListToDelete \subseteq folders
  BY DEF ListToDelete
<1>5. current \notin ListToDelete
  <2>. DEFINE toIndex == Cardinality(folders) - KeepX
  <2>1. ~(Rank(current) < toIndex /\ Rank(current) = toIndex)
    BY <1>2, <1>3
  <2>2. QED
    BY <2>1 DEF ListToDelete
<1>6. QED
  BY <1>4, <1>5

LEMMA InitInv == Init => IInv
<1>1. SUFFICES ASSUME Init PROVE IInv
  OBVIOUS
<1>2. TypeOK
  <2>1. "idle" \in Steps
    BY DEF Steps
  <2>2. completed \in [Names -> 0 .. MaxDeploys]
    BY <1>1, ReleasesAssumption DEF Init, ReleasesAssumption
  <2>3. dirs \in [Names \cup PendingNames -> {Absent, Empty} \cup 1 .. MaxDeploys]
    BY <1>1 DEF Init
  <2>4. name \in 0 .. deploys /\ deploys \in 0 .. MaxDeploys /\ faults \in 0 .. MaxFaults
    BY <1>1, ReleasesAssumption DEF Init, ReleasesAssumption, NoName
  <2>5. QED
    BY <1>1, <2>1, <2>2, <2>3, <2>4 DEF Init, TypeOK
<1>3. StepInv /\ LinkInv /\ BuildInv
  BY <1>1
  DEF Init, StepInv, LinkInv, BuildInv, Deploying, RollingBack, Moved, Switched,
     SuccessServesBuild
<1>4. SavedInv
  BY <1>1 DEF Init, SavedInv, RollingBack, SavedReleasesExist
<1>5. QED
  BY <1>2, <1>3, <1>4 DEF IInv

LEMMA TypeStep == TypeOK /\ StepInv /\ [Next]_vars => TypeOK'
<1>1. SUFFICES ASSUME TypeOK, StepInv, [Next]_vars PROVE TypeOK'
  OBVIOUS
<1>a. IsPresent(current) => current \in Names
  BY <1>1, NameFacts DEF TypeOK, IsPresent, OnHost
<1>b. pc \in Deploying => name \in Names /\ deploys \in 1 .. MaxDeploys
  BY <1>1, NameInNames DEF StepInv
<1>c. Succeeds \/ Fails => faults' \in 0 .. MaxFaults /\ dropped' \subseteq Steps
  BY <1>1, ReleasesAssumption DEF ReleasesAssumption, TypeOK, Succeeds, Fails, faultVars
<1>d. (Deploying \cup RollingBack \cup {"idle"}) \subseteq Steps
  BY DEF Deploying, RollingBack, Steps
<1>e. /\ Deploying = {"creating", "announcing", "building", "moving", "unlinking", "linking",
                      "sweeping", "trimming", "saving", "starting"}
      /\ RollingBack = {"marking", "choosing", "unlinking back", "linking back", "rolled back"}
  BY DEF Deploying, RollingBack
<1>f. Move => reused' \in BOOLEAN
  <2>1. CASE name \in OnHost
    BY <2>1 DEF Move
  <2>2. CASE name \notin OnHost
    BY <2>2 DEF Move
  <2>3. QED
    BY <2>1, <2>2
<1>g. BeginDeployment =>
        name' \in 0 .. deploys + 1 /\ deploys' = deploys + 1 /\ deploys + 1 \in 0 .. MaxDeploys
  <2>1. name \in 0 .. deploys /\ deploys \in 0 .. MaxDeploys /\ MaxDeploys \in Nat
    BY <1>1, ReleasesAssumption DEF TypeOK, ReleasesAssumption
  <2>2. QED
    BY <2>1 DEF BeginDeployment
<1>h. ASSUME NEW step, NEW asked \in SUBSET Names, BeginSession(step, asked)
      PROVE  /\ folders' \subseteq Folders /\ cache' \subseteq Names \cup PendingNames
             /\ current' \in Names \cup {NoName} /\ faults' \in 0 .. MaxFaults
             /\ dropped' \subseteq Steps
  <2>1. OnHost \subseteq Names \cup PendingNames /\ link \in Names \cup {NoName}
    BY <1>1 DEF OnHost, TypeOK
  <2>2. /\ folders' \subseteq OnHost \cup {JsonFile, LinkEntry}
        /\ cache' \subseteq (saved \cap OnHost) \cup asked
        /\ current' \in {link, NoName} /\ faults' \in 0 .. MaxFaults
        /\ dropped' \subseteq {"idle"}
    BY <1>1, <1>h, BeginFacts
  <2>3. QED
    BY <2>1, <2>2 DEF Folders, Steps
<1>. USE <1>c, <1>d, <1>e, ReleasesAssumption
     DEF ReleasesAssumption, TypeOK, Goto, NoName,
         hostVars, sessionVars, nameVars, historyVars, faultVars
<1>2. CASE UNCHANGED vars
  BY <1>1, <1>2 DEF vars, hostVars, sessionVars, nameVars, historyVars, faultVars
<1>3. CASE BeginDeployment
  <2>1. OnHost \subseteq Names \cup PendingNames
    BY DEF OnHost
  <2>2. BeginSession("creating", {})
    BY <1>3 DEF BeginDeployment
  <2>3. /\ folders' \subseteq Folders /\ cache' \subseteq Names \cup PendingNames
        /\ current' \in Names \cup {NoName} /\ faults' \in 0 .. MaxFaults
        /\ dropped' \subseteq Steps
    BY <1>h, <2>1, <2>2
  <2>4. QED
    BY <1>1, <1>g, <1>3, <2>1, <2>2, <2>3 DEF BeginDeployment, BeginSession
<1>4. ASSUME NEW r \in Names, BeginRollback(r) PROVE TypeOK'
  <2>1. r \in Names /\ OnHost \subseteq Names \cup PendingNames
    BY <1>4 DEF OnHost
  <2>2. BeginSession("marking", {r})
    BY <1>4 DEF BeginRollback
  <2>3. /\ folders' \subseteq Folders /\ cache' \subseteq Names \cup PendingNames
        /\ current' \in Names \cup {NoName} /\ faults' \in 0 .. MaxFaults
        /\ dropped' \subseteq Steps
    BY <1>h, <2>1, <2>2
  <2>4. QED
    BY <1>1, <1>4, <2>1, <2>2, <2>3 DEF BeginRollback, BeginSession
<1>5. CASE ForgetName
  BY <1>1, <1>5 DEF ForgetName
<1>6. CASE MakePending
  <2>1. name \in Names /\ Pending(name) \in PendingNames
    BY <1>b, <1>6, NameFacts DEF MakePending, Deploying
  <2>2. QED
    BY <1>1, <1>6, <2>1 DEF MakePending, Folders, Empty
<1>7. CASE MakePendingFails
  BY <1>1, <1>7 DEF MakePendingFails
<1>8. CASE SavePending
  <2>1. /\ folders' \subseteq Folders
        /\ cache' \subseteq Names \cup PendingNames
        /\ target' \in Names \cup {NoName}
    BY <1>1, <1>a, <1>8 DEF SavePending, Remember, OnHost, Folders
  <2>2. QED
    BY <1>1, <1>8, <2>1 DEF SavePending
<1>9. CASE Build
  BY <1>1, <1>b, <1>9, NameFacts DEF Build, Deploying
<1>10. CASE BuildFails
  <2>1. Pending(name) \in PendingNames /\ deploys \in 1 .. MaxDeploys
    BY <1>b, <1>10, NameFacts DEF BuildFails
  <2>2. dirs' \in [Names \cup PendingNames -> {Absent, Empty} \cup 1 .. MaxDeploys]
    BY <1>1, <1>10, <2>1 DEF BuildFails
  <2>3. QED
    BY <1>1, <1>10, <2>2 DEF BuildFails
<1>11. CASE Move
  <2>1. name \in Names /\ Pending(name) \in PendingNames
    BY <1>b, <1>11, NameFacts DEF Move, Deploying
  <2>2. dirs[name] \in {Absent, Empty} \cup 1 .. MaxDeploys
    BY <1>1, <2>1
  <2>3. dirs[Pending(name)] \in {Absent, Empty} \cup 1 .. MaxDeploys
    BY <1>1, <2>1
  <2>4. dirs' \in [Names \cup PendingNames -> {Absent, Empty} \cup 1 .. MaxDeploys]
    BY <1>1, <1>11, <2>1, <2>2, <2>3 DEF Move
  <2>5. folders' \subseteq Folders /\ cache' \subseteq Names \cup PendingNames
    BY <1>1, <1>11, <2>1 DEF Move, Folders
  <2>6. /\ pc' = "unlinking" /\ current' = name /\ (Succeeds \/ Fails)
        /\ UNCHANGED <<link, saved, target, nameVars, outcome, before, completed>>
    BY <1>11 DEF Move
  <2>7. QED
    BY <1>1, <1>f, <1>11, <2>1, <2>4, <2>5, <2>6
<1>12. CASE Unlink("unlinking", "linking")
  BY <1>1, <1>12 DEF Unlink
<1>13. CASE Link("linking", "sweeping")
  BY <1>1, <1>13 DEF Link, Remember, OnHost, Folders
<1>14. CASE SwitchFails("unlinking", "sweeping")
  BY <1>1, <1>14 DEF SwitchFails, Remember, OnHost, Folders
<1>15. CASE Sweep
  BY <1>1, <1>15 DEF Sweep, Without
<1>16. CASE Trim
  <2>1. Succeeds \/ Fails
    BY <1>16 DEF Trim, RemoveListed
  <2>2. link' \in Names \cup {NoName}
    BY <1>1, <1>16 DEF Trim, RemoveListed
  <2>3. dirs' \in [Names \cup PendingNames -> {Absent, Empty} \cup 1 .. MaxDeploys]
    BY <1>1, <1>16 DEF Trim, RemoveListed, Without
  <2>4. QED
    BY <1>1, <1>16, <2>1, <2>2, <2>3 DEF Trim
<1>17. CASE Save
  BY <1>1, <1>17 DEF Save
<1>18. CASE Start
  BY <1>1, <1>b, <1>18 DEF Start, Finish, Deploying
<1>19. CASE StartFails
  BY <1>1, <1>19 DEF StartFails
<1>20. CASE Mark
  <2>1. folders' \subseteq Folders /\ cache' \subseteq Names \cup PendingNames
    BY <1>1, <1>20 DEF Mark, Remember, OnHost, Folders
  <2>2. saved' = NoFile \/ saved' \subseteq Names \cup PendingNames
    BY <1>1, <1>a, <1>20 DEF Mark
  <2>3. QED
    BY <1>1, <1>20, <2>1, <2>2 DEF Mark
<1>21. CASE Choose
  BY <1>1, <1>21 DEF Choose, Remember, OnHost, Folders
<1>22. CASE ChooseNone
  BY <1>1, <1>22 DEF ChooseNone, Finish, Result
<1>23. CASE ChooseThrows
  BY <1>1, <1>23 DEF ChooseThrows, Finish
<1>24. CASE Unlink("unlinking back", "linking back")
  BY <1>1, <1>24 DEF Unlink
<1>25. CASE Link("linking back", "rolled back")
  BY <1>1, <1>25 DEF Link, Remember, OnHost, Folders
<1>26. CASE SwitchFails("unlinking back", "rolled back")
  BY <1>1, <1>26 DEF SwitchFails, Remember, OnHost, Folders
<1>27. CASE EndRollback
  BY <1>1, <1>27 DEF EndRollback, Finish, Result
<1>28. CASE Crash
  BY <1>1, <1>28 DEF Crash, Finish
<1>29. QED
  BY <1>1, <1>2, <1>3, <1>4, <1>5, <1>6, <1>7, <1>8, <1>9, <1>10, <1>11, <1>12, <1>13,
     <1>14, <1>15, <1>16, <1>17, <1>18, <1>19, <1>20, <1>21, <1>22, <1>23, <1>24, <1>25, <1>26,
     <1>27, <1>28
  DEF Next, Activate, Rollback, Switch

LEMMA StepStep == TypeOK /\ StepInv /\ [Next]_vars => StepInv'
<1>1. SUFFICES ASSUME TypeOK, StepInv, [Next]_vars PROVE StepInv'
  OBVIOUS
<1>a. name \in Nat
  BY <1>1 DEF TypeOK
<1>. USE DEF StepInv, Deploying, RollingBack, Goto, nameVars
<1>2. CASE UNCHANGED vars
  BY <1>1, <1>2 DEF vars, hostVars, sessionVars, nameVars, historyVars, faultVars
<1>3. CASE BeginDeployment
  BY <1>1, <1>a, <1>3 DEF BeginDeployment, BeginSession, NoName
<1>4. ASSUME NEW r \in Names, BeginRollback(r) PROVE StepInv'
  BY <1>1, <1>4 DEF BeginRollback, BeginSession
<1>5. CASE ForgetName
  BY <1>1, <1>5 DEF ForgetName
<1>6. CASE MakePending
  BY <1>1, <1>6 DEF MakePending
<1>7. CASE MakePendingFails
  BY <1>1, <1>7 DEF MakePendingFails
<1>8. CASE SavePending
  BY <1>1, <1>8 DEF SavePending, Remember
<1>9. CASE Build
  BY <1>1, <1>9 DEF Build
<1>10. CASE BuildFails
  BY <1>1, <1>10 DEF BuildFails
<1>11. CASE Move
  BY <1>1, <1>11 DEF Move
<1>12. CASE Unlink("unlinking", "linking")
  BY <1>1, <1>12 DEF Unlink
<1>13. CASE Link("linking", "sweeping")
  BY <1>1, <1>13 DEF Link, Remember
<1>14. CASE SwitchFails("unlinking", "sweeping")
  BY <1>1, <1>14 DEF SwitchFails, Remember
<1>15. CASE Sweep
  BY <1>1, <1>15 DEF Sweep, Without
<1>16. CASE Trim
  BY <1>1, <1>16 DEF Trim, Without
<1>17. CASE Save
  BY <1>1, <1>17 DEF Save
<1>18. CASE Start
  BY <1>1, <1>18 DEF Start, Finish
<1>19. CASE StartFails
  BY <1>1, <1>19 DEF StartFails
<1>20. CASE Mark
  BY <1>1, <1>20 DEF Mark, Remember
<1>21. CASE Choose
  BY <1>1, <1>21 DEF Choose, Remember
<1>22. CASE ChooseNone
  BY <1>1, <1>22 DEF ChooseNone, Finish, Result
<1>23. CASE ChooseThrows
  BY <1>1, <1>23 DEF ChooseThrows, Finish
<1>24. CASE Unlink("unlinking back", "linking back")
  BY <1>1, <1>24 DEF Unlink
<1>25. CASE Link("linking back", "rolled back")
  BY <1>1, <1>25 DEF Link, Remember
<1>26. CASE SwitchFails("unlinking back", "rolled back")
  BY <1>1, <1>26 DEF SwitchFails, Remember
<1>27. CASE EndRollback
  BY <1>1, <1>27 DEF EndRollback, Finish, Result
<1>28. CASE Crash
  BY <1>1, <1>28 DEF Crash, Finish
<1>29. QED
  BY <1>1, <1>2, <1>3, <1>4, <1>5, <1>6, <1>7, <1>8, <1>9, <1>10, <1>11, <1>12, <1>13,
     <1>14, <1>15, <1>16, <1>17, <1>18, <1>19, <1>20, <1>21, <1>22, <1>23, <1>24, <1>25, <1>26,
     <1>27, <1>28
  DEF Next, Activate, Rollback, Switch

LEMMA LinkStep == TypeOK /\ StepInv /\ LinkInv /\ [Next]_vars => LinkInv'
<1>1. SUFFICES ASSUME TypeOK, StepInv, LinkInv, [Next]_vars PROVE LinkInv'
  OBVIOUS
<1>a. current # LinkEntry /\ target # LinkEntry
  BY <1>1, NameFacts DEF TypeOK
<1>b. pc \in Deploying => name # LinkEntry /\ Pending(name) # LinkEntry
  BY <1>1, NameInNames, NameFacts DEF StepInv
<1>. USE DEF LinkInv, Goto, hostVars, sessionVars, Succeeds, Fails, faultVars, Deploying
<1>2. CASE UNCHANGED vars
  BY <1>1, <1>2 DEF vars, hostVars, sessionVars, nameVars, historyVars, faultVars
<1>3. CASE BeginDeployment
  BY <1>1, <1>3, BeginFacts DEF BeginDeployment, BeginSession
<1>4. ASSUME NEW r \in Names, BeginRollback(r) PROVE LinkInv'
  BY <1>1, <1>4, BeginFacts DEF BeginRollback, BeginSession
<1>5. CASE ForgetName
  BY <1>1, <1>5 DEF ForgetName
<1>6. CASE MakePending
  BY <1>1, <1>b, <1>6 DEF MakePending
<1>7. CASE MakePendingFails
  BY <1>1, <1>7 DEF MakePendingFails
<1>8. CASE SavePending
  BY <1>1, <1>a, <1>8 DEF SavePending, Remember
<1>9. CASE Build
  BY <1>1, <1>9 DEF Build
<1>10. CASE BuildFails
  BY <1>1, <1>10 DEF BuildFails
<1>11. CASE Move
  BY <1>1, <1>b, <1>11 DEF Move
<1>12. CASE Unlink("unlinking", "linking")
  BY <1>1, <1>12 DEF Unlink
<1>13. CASE Link("linking", "sweeping")
  BY <1>1, <1>a, <1>13 DEF Link, Remember
<1>14. CASE SwitchFails("unlinking", "sweeping")
  BY <1>1, <1>a, <1>14 DEF SwitchFails, Remember
<1>15. CASE Sweep
  BY <1>1, <1>15 DEF Sweep
<1>16. CASE Trim
  BY <1>1, <1>16 DEF Trim, RemoveListed
<1>17. CASE Save
  BY <1>1, <1>17 DEF Save
<1>18. CASE Start
  BY <1>1, <1>18 DEF Start, Finish
<1>19. CASE StartFails
  BY <1>1, <1>19 DEF StartFails
<1>20. CASE Mark
  BY <1>1, <1>a, <1>20 DEF Mark, Remember
<1>21. CASE Choose
  BY <1>1, <1>a, <1>21 DEF Choose, Remember
<1>22. CASE ChooseNone
  BY <1>1, <1>22 DEF ChooseNone, Finish, Result
<1>23. CASE ChooseThrows
  BY <1>1, <1>23 DEF ChooseThrows, Finish
<1>24. CASE Unlink("unlinking back", "linking back")
  BY <1>1, <1>24 DEF Unlink
<1>25. CASE Link("linking back", "rolled back")
  BY <1>1, <1>a, <1>25 DEF Link, Remember
<1>26. CASE SwitchFails("unlinking back", "rolled back")
  BY <1>1, <1>a, <1>26 DEF SwitchFails, Remember
<1>27. CASE EndRollback
  BY <1>1, <1>27 DEF EndRollback, Finish, Result
<1>28. CASE Crash
  BY <1>1, <1>28 DEF Crash, Finish
<1>29. QED
  BY <1>1, <1>2, <1>3, <1>4, <1>5, <1>6, <1>7, <1>8, <1>9, <1>10, <1>11, <1>12, <1>13,
     <1>14, <1>15, <1>16, <1>17, <1>18, <1>19, <1>20, <1>21, <1>22, <1>23, <1>24, <1>25, <1>26,
     <1>27, <1>28
  DEF Next, Activate, Rollback, Switch

\* A command that fails is remembered, so nothing has to be shown after it.
LEMMA DroppedFacts == Fails => dropped' # {}
BY DEF Fails

LEMMA BuildStep == TypeOK /\ StepInv /\ LinkInv /\ BuildInv /\ [Next]_vars => BuildInv'
<1>1. SUFFICES ASSUME TypeOK, StepInv, LinkInv, BuildInv, [Next]_vars PROVE BuildInv'
  OBVIOUS
<1>b. pc \in Deploying => name \in Names
  BY <1>1, NameInNames DEF StepInv
<1>c. (pc \in Deploying => outcome = "none") /\ (pc \in RollingBack => outcome # "ok")
  BY <1>1 DEF StepInv
<1>d. dirs \in [Names \cup PendingNames -> {Absent, Empty} \cup 1 .. MaxDeploys]
  BY <1>1 DEF TypeOK
<1>. USE <1>c, DroppedFacts
     DEF Deploying, RollingBack, BuildInv, SuccessServesBuild, Moved, Switched, Goto, hostVars,
        nameVars, historyVars,
         Succeeds, faultVars, sessionVars
<1>2. CASE UNCHANGED vars
  BY <1>1, <1>2 DEF vars, hostVars, sessionVars, nameVars, historyVars, faultVars
<1>3. CASE BeginDeployment
  BY <1>1, <1>3 DEF BeginDeployment, BeginSession
<1>4. ASSUME NEW r \in Names, BeginRollback(r) PROVE BuildInv'
  BY <1>1, <1>4 DEF BeginRollback, BeginSession
<1>5. CASE ForgetName
  BY <1>1, <1>5 DEF ForgetName
<1>6. CASE MakePending
  BY <1>1, <1>6 DEF MakePending
<1>7. CASE MakePendingFails
  BY <1>1, <1>7 DEF MakePendingFails
<1>8. CASE SavePending
  BY <1>1, <1>8 DEF SavePending, Remember
<1>9. CASE Build
  <2>1. Pending(name) \in PendingNames
    BY <1>b, <1>9, NameFacts DEF Build
  <2>2. QED
    BY <1>1, <1>d, <1>9, <2>1 DEF Build
<1>10. CASE BuildFails
  BY <1>1, <1>10 DEF BuildFails
<1>11. CASE Move
  <2>1. name \in Names /\ Pending(name) \in PendingNames /\ Pending(name) # name
    BY <1>b, <1>11, NameFacts DEF Move
  <2>2. ~reused' => dirs[name] = Absent
    BY <2>1, <1>11 DEF Move, OnHost
  <2>3. dropped' = {} /\ ~reused' => dirs'[name] = dirs[Pending(name)]
    BY <1>d, <2>1, <2>2, <1>11 DEF Move
  <2>4. QED
    BY <1>1, <1>11, <2>3 DEF Move
<1>12. CASE Unlink("unlinking", "linking")
  BY <1>1, <1>12 DEF Unlink
<1>13. CASE Link("linking", "sweeping")
  BY <1>1, <1>13 DEF Link, Remember
<1>14. CASE SwitchFails("unlinking", "sweeping")
  BY <1>1, <1>14 DEF SwitchFails, Remember
<1>15. CASE Sweep
  <2>1. name \in Names /\ name \notin PendingNames
    BY <1>b, <1>15, NameFacts DEF Sweep
  <2>2. dirs'[name] = dirs[name]
    BY <1>d, <2>1, <1>15 DEF Sweep, Without
  <2>3. QED
    BY <1>1, <1>15, <2>2 DEF Sweep
<1>16. CASE Trim
  <2>1. name \in Names /\ current \notin ListToDelete
    BY <1>1, <1>b, <1>16, ListFacts DEF Trim, TypeOK
  <2>2. dropped' = {} => dirs'[name] = dirs[name]
    BY <1>1, <1>d, <2>1, <1>16 DEF Trim, RemoveListed, Without
  <2>3. dropped' = {} => link' = link
    BY <1>1, <1>16, ListFacts DEF Trim, RemoveListed, LinkInv, TypeOK
  <2>4. QED
    BY <1>1, <1>16, <2>2, <2>3 DEF Trim, RemoveListed
<1>17. CASE Save
  BY <1>1, <1>17 DEF Save
<1>18. CASE Start
  BY <1>1, <1>18 DEF Start, Finish
<1>19. CASE StartFails
  BY <1>1, <1>19 DEF StartFails
<1>20. CASE Mark
  BY <1>1, <1>20 DEF Mark, Remember
<1>21. CASE Choose
  BY <1>1, <1>21 DEF Choose, Remember
<1>22. CASE ChooseNone
  BY <1>1, <1>22 DEF ChooseNone, Finish, Result
<1>23. CASE ChooseThrows
  BY <1>1, <1>23 DEF ChooseThrows, Finish
<1>24. CASE Unlink("unlinking back", "linking back")
  BY <1>1, <1>24 DEF Unlink
<1>25. CASE Link("linking back", "rolled back")
  BY <1>1, <1>25 DEF Link, Remember
<1>26. CASE SwitchFails("unlinking back", "rolled back")
  BY <1>1, <1>26 DEF SwitchFails, Remember
<1>27. CASE EndRollback
  BY <1>1, <1>27 DEF EndRollback, Finish, Result
<1>28. CASE Crash
  BY <1>1, <1>28 DEF Crash, Finish
<1>29. QED
  BY <1>1, <1>2, <1>3, <1>4, <1>5, <1>6, <1>7, <1>8, <1>9, <1>10, <1>11, <1>12, <1>13,
     <1>14, <1>15, <1>16, <1>17, <1>18, <1>19, <1>20, <1>21, <1>22, <1>23, <1>24, <1>25, <1>26,
     <1>27, <1>28
  DEF Next, Activate, Rollback, Switch

LEMMA SavedStep == IInv /\ [Next]_vars => SavedInv'
<1>1. SUFFICES ASSUME IInv, [Next]_vars PROVE SavedInv'
  OBVIOUS
<1>b. pc \in Deploying => name \in Names
  BY <1>1, NameInNames DEF IInv, StepInv
<1>d. /\ dirs \in [Names \cup PendingNames -> {Absent, Empty} \cup 1 .. MaxDeploys]
      /\ {link, current, target} \subseteq Names \cup {NoName}
      /\ cache \subseteq Names \cup PendingNames
  BY <1>1 DEF IInv, TypeOK
<1>e. name \in Names => Pending(name) \in PendingNames /\ Pending(name) # name
  BY NameFacts
<1>f. Names \cap PendingNames = {} /\ NoName \notin Names \cup PendingNames
  BY NameFacts
<1>. USE DroppedFacts
     DEF IInv, SavedInv, SavedReleasesExist, Deploying, RollingBack, Goto, hostVars, sessionVars,
         Succeeds, faultVars, OnHost
<1>2. CASE UNCHANGED vars
  BY <1>1, <1>2 DEF vars, hostVars, sessionVars, nameVars, historyVars, faultVars
<1>3. CASE BeginDeployment
  <2>1. cache' \subseteq (saved \cap OnHost) \cup {}
    BY <1>1, <1>3, BeginFacts DEF BeginDeployment
  <2>2. QED
    BY <1>1, <1>3, <2>1 DEF BeginDeployment, BeginSession
<1>4. ASSUME NEW r \in Names, BeginRollback(r) PROVE SavedInv'
  <2>1. cache' \subseteq (saved \cap OnHost) \cup {r}
    BY <1>1, <1>4, BeginFacts DEF BeginRollback
  <2>2. QED
    BY <1>1, <1>4, <2>1 DEF BeginRollback, BeginSession
<1>5. CASE ForgetName
  BY <1>1, <1>5 DEF ForgetName
<1>6. CASE MakePending
  <2>1. OnHost \subseteq OnHost'
    BY <1>b, <1>d, <1>e, <1>6 DEF MakePending, Empty, Absent
  <2>2. QED
    BY <1>1, <1>b, <1>e, <1>f, <1>6, <2>1 DEF MakePending
<1>7. CASE MakePendingFails
  BY <1>1, <1>7 DEF MakePendingFails
<1>8. CASE SavePending
  BY <1>1, <1>8 DEF SavePending, Remember
<1>9. CASE Build
  <2>1. OnHost \subseteq OnHost'
    BY <1>1, <1>b, <1>d, <1>e, <1>9, NameInNames DEF Build, StepInv, Absent
  <2>2. QED
    BY <1>1, <1>9, <2>1 DEF Build
<1>10. CASE BuildFails
  <2>1. OnHost \subseteq OnHost'
    BY <1>1, <1>b, <1>d, <1>e, <1>10, NameInNames DEF BuildFails, StepInv, Absent
  <2>2. QED
    BY <1>1, <1>10, <2>1 DEF BuildFails
<1>11. CASE Move
  <2>1. dropped' = {} => dirs[Pending(name)] = deploys /\ deploys # Absent
    BY <1>1, <1>b, <1>11, NameInNames DEF Move, StepInv, BuildInv, Absent
  <2>2. dropped' = {} => (OnHost \cap Names) \cup {name} \subseteq OnHost'
    BY <1>b, <1>d, <1>e, <1>f, <1>11, <2>1 DEF Move
  <2>3. dropped' = {} => cache' \cap Names \subseteq OnHost'
    BY <1>1, <1>b, <1>d, <1>f, <1>11, <2>2 DEF Move
  <2>4. QED
    BY <1>1, <1>d, <1>11, <2>2, <2>3 DEF Move
<1>12. CASE Unlink("unlinking", "linking")
  BY <1>1, <1>12 DEF Unlink
<1>13. CASE Link("linking", "sweeping")
  BY <1>1, <1>13 DEF Link, Remember
<1>14. CASE SwitchFails("unlinking", "sweeping")
  BY <1>1, <1>14 DEF SwitchFails, Remember
<1>15. CASE Sweep
  <2>1. OnHost \cap Names \subseteq OnHost'
    BY <1>d, <1>f, <1>15 DEF Sweep, Without
  <2>2. QED
    BY <1>1, <1>15, <2>1 DEF Sweep
<1>16. CASE Trim
  <2>1. dropped' = {} => (OnHost \cap Names) \ ListToDelete \subseteq OnHost'
    BY <1>d, <1>16 DEF Trim, RemoveListed, Without
  <2>2. dropped' = {} => cache' \cap Names \subseteq OnHost'
    BY <1>1, <1>d, <1>16, <2>1 DEF Trim, RemoveListed
  <2>3. QED
    BY <1>1, <1>16, <2>2 DEF Trim, RemoveListed
<1>17. CASE Save
  BY <1>1, <1>17 DEF Save
<1>18. CASE Start
  BY <1>1, <1>18 DEF Start, Finish
<1>19. CASE StartFails
  BY <1>1, <1>19 DEF StartFails
<1>20. CASE Mark
  <2>1. dropped' = {} => saved' = saved \/ saved' \cap Names \subseteq OnHost
    BY <1>1, <1>d, <1>20 DEF Mark, IsPresent
  <2>2. dropped' = {} => cache' \cap Names \subseteq OnHost
    BY <1>1, <1>20 DEF Mark, Remember
  <2>3. QED
    BY <1>1, <1>20, <2>1, <2>2 DEF Mark
<1>21. CASE Choose
  BY <1>1, <1>21 DEF Choose, Remember
<1>22. CASE ChooseNone
  BY <1>1, <1>22 DEF ChooseNone, Finish, Result
<1>23. CASE ChooseThrows
  <2>1. target \notin OnHost /\ outcome \in {"none", "failed"}
    BY <1>1, <1>23 DEF ChooseThrows, IsPresent, StepInv
  <2>2. QED
    BY <1>1, <1>23, <2>1 DEF ChooseThrows, Finish
<1>24. CASE Unlink("unlinking back", "linking back")
  BY <1>1, <1>24 DEF Unlink
<1>25. CASE Link("linking back", "rolled back")
  BY <1>1, <1>25 DEF Link, Remember
<1>26. CASE SwitchFails("unlinking back", "rolled back")
  BY <1>1, <1>26 DEF SwitchFails, Remember
<1>27. CASE EndRollback
  BY <1>1, <1>27 DEF EndRollback, Finish, Result
<1>28. CASE Crash
  BY <1>1, <1>28 DEF Crash, Finish
<1>29. QED
  BY <1>1, <1>2, <1>3, <1>4, <1>5, <1>6, <1>7, <1>8, <1>9, <1>10, <1>11, <1>12, <1>13,
     <1>14, <1>15, <1>16, <1>17, <1>18, <1>19, <1>20, <1>21, <1>22, <1>23, <1>24, <1>25, <1>26,
     <1>27, <1>28
  DEF Next, Activate, Rollback, Switch

LEMMA InvStep == IInv /\ [Next]_vars => IInv'
BY TypeStep, StepStep, LinkStep, BuildStep, SavedStep DEF IInv

LEMMA InvHolds == Spec => []IInv
BY InitInv, InvStep, PTL DEF Spec

\* The types, and with them the bounds of the history variables.
THEOREM TypeCorrect == Spec => []TypeOK
BY InvHolds, PTL DEF IInv

\* A success serves its build (Start), however many deployments crashed or
\* failed before it and however many releases are kept.
THEOREM SuccessServes == Spec => []SuccessServesBuild
<1>1. IInv => SuccessServesBuild
  BY DEF IInv, BuildInv, SuccessServesBuild
<1>2. QED
  BY <1>1, InvHolds, PTL

\* What is saved at the end of a session that lost no command is there
\* (saveJson against delete and load).
THEOREM SavedExist == Spec => []SavedReleasesExist
<1>1. IInv => SavedReleasesExist
  BY DEF IInv, SavedInv, SavedReleasesExist
<1>2. QED
  BY <1>1, InvHolds, PTL

\* No step removes the directory under the link: rm of pending directories
\* cannot reach it, and listToDelete spares it as the link is the session's.
LEMMA KeepsCurrent ==
    IInv /\ [Next]_vars /\ link' = link /\ link \in OnHost /\ "unlinking" \notin dropped'
        => link' \in OnHost'
<1>1. SUFFICES ASSUME IInv, [Next]_vars, link' = link, link \in OnHost, "unlinking" \notin dropped'
               PROVE  link \in OnHost'
  OBVIOUS
<1>a. /\ dirs \in [Names \cup PendingNames -> {Absent, Empty} \cup 1 .. MaxDeploys]
      /\ link \in Names \cup {NoName}
  BY <1>1 DEF IInv, TypeOK
<1>b. link \in Names
  BY <1>1, <1>a, NameFacts DEF OnHost
<1>c. pc \in Deploying => name \in Names /\ deploys # Absent
  BY <1>1, NameInNames DEF IInv, StepInv, Absent
<1>d. name \in Names => Pending(name) \in PendingNames
  BY NameFacts
<1>e. link \notin PendingNames
  BY <1>b, NameFacts
<1>. USE DEF OnHost, Goto, hostVars, Deploying
<1>2. CASE UNCHANGED vars
  BY <1>1, <1>2 DEF vars, hostVars, sessionVars, nameVars, historyVars, faultVars
<1>3. CASE BeginDeployment
  BY <1>1, <1>3 DEF BeginDeployment, BeginSession
<1>4. ASSUME NEW r \in Names, BeginRollback(r) PROVE link \in OnHost'
  BY <1>1, <1>4 DEF BeginRollback, BeginSession
<1>5. CASE ForgetName
  BY <1>1, <1>5 DEF ForgetName
<1>6. CASE MakePending
  BY <1>1, <1>a, <1>b, <1>c, <1>d, <1>e, <1>6 DEF MakePending, Empty, Absent
<1>7. CASE MakePendingFails
  BY <1>1, <1>7 DEF MakePendingFails
<1>8. CASE SavePending
  BY <1>1, <1>8 DEF SavePending, Remember
<1>9. CASE Build
  BY <1>1, <1>a, <1>b, <1>c, <1>d, <1>e, <1>9 DEF Build
<1>10. CASE BuildFails
  BY <1>1, <1>a, <1>b, <1>c, <1>d, <1>e, <1>10 DEF BuildFails
<1>11. CASE Move
  BY <1>1, <1>a, <1>b, <1>c, <1>d, <1>e, <1>11 DEF Move
<1>12. CASE Unlink("unlinking", "linking")
  BY <1>1, <1>12 DEF Unlink
<1>13. CASE Link("linking", "sweeping")
  BY <1>1, <1>13 DEF Link, Remember
<1>14. CASE SwitchFails("unlinking", "sweeping")
  BY <1>1, <1>14 DEF SwitchFails, Remember
<1>15. CASE Sweep
  BY <1>1, <1>a, <1>b, <1>e, <1>15 DEF Sweep, Without
<1>16. CASE Trim
  <2>1. link = current
    BY <1>1, <1>b, <1>16, NameFacts DEF Trim, RemoveListed, IInv, LinkInv, Succeeds, Fails, faultVars
  <2>2. link \notin ListToDelete
    BY <1>1, <2>1, ListFacts DEF IInv, TypeOK
  <2>3. QED
    BY <1>1, <1>a, <1>b, <1>16, <2>2 DEF Trim, RemoveListed, Without
<1>17. CASE Save
  BY <1>1, <1>17 DEF Save
<1>18. CASE Start
  BY <1>1, <1>18 DEF Start, Finish
<1>19. CASE StartFails
  BY <1>1, <1>19 DEF StartFails
<1>20. CASE Mark
  BY <1>1, <1>20 DEF Mark, Remember
<1>21. CASE Choose
  BY <1>1, <1>21 DEF Choose, Remember
<1>22. CASE ChooseNone
  BY <1>1, <1>22 DEF ChooseNone, Finish, Result
<1>23. CASE ChooseThrows
  BY <1>1, <1>23 DEF ChooseThrows, Finish
<1>24. CASE Unlink("unlinking back", "linking back")
  BY <1>1, <1>24 DEF Unlink
<1>25. CASE Link("linking back", "rolled back")
  BY <1>1, <1>25 DEF Link, Remember
<1>26. CASE SwitchFails("unlinking back", "rolled back")
  BY <1>1, <1>26 DEF SwitchFails, Remember
<1>27. CASE EndRollback
  BY <1>1, <1>27 DEF EndRollback, Finish, Result
<1>28. CASE Crash
  BY <1>1, <1>28 DEF Crash, Finish
<1>29. QED
  BY <1>1, <1>2, <1>3, <1>4, <1>5, <1>6, <1>7, <1>8, <1>9, <1>10, <1>11, <1>12, <1>13,
     <1>14, <1>15, <1>16, <1>17, <1>18, <1>19, <1>20, <1>21, <1>22, <1>23, <1>24, <1>25, <1>26,
     <1>27, <1>28
  DEF Next, Activate, Rollback, Switch

\* cleanPending and listToDelete under the running application.
THEOREM CurrentIsKept == Spec => CurrentStays
<1>1. IInv /\ [Next]_vars =>
        [link' = link /\ link \in OnHost /\ "unlinking" \notin dropped' => link' \in OnHost']_vars
  BY KeepsCurrent
<1>2. QED
  BY <1>1, InvHolds, PTL DEF Spec, CurrentStays
=============================================================================
