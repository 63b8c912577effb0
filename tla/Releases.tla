------------------------------ MODULE Releases ------------------------------
(***************************************************************************)
(* The releases of a project on one host: bear.plugins.misc.Releases, as   *)
(* the deployment steps of DeploymentPlugin and their rollback by          *)
(* SessionRunner use it.  The host keeps a directory per release, a link   *)
(* to the current one and releases.json; a session has its own view of     *)
(* them, loaded when the deployment begins.  One action per remote         *)
(* command: bear may die between any two of them, and a command that fails *)
(* has no effect while the code, which ignores most results, goes on.      *)
(*                                                                         *)
(* A directory is known by the build it holds.  Left out: the status of a  *)
(* release (active, inactive, failed), which is only shown, the symlinks   *)
(* step, which has no task, and what the project's own callables do.       *)
(***************************************************************************)
EXTENDS Integers, FiniteSets

CONSTANTS
    KeepX,      \* keepXReleases, 5 unless the project sets it
    MaxDeploys, \* bound on the deployments
    MaxFaults,  \* bound on the commands that fail
    MayCrash    \* BOOLEAN: the process may die

ASSUME ReleasesAssumption ==
    /\ KeepX \in Nat \ {0, 1}
    /\ MaxDeploys \in Nat \ {0}
    /\ MaxFaults \in Nat
    /\ MayCrash \in BOOLEAN

\* The names of a folder as ls sorts them: the releases by their date, then the
\* link current, pending_ and a date, releases.json. Names are dates: later is more.
Names == 1 .. MaxDeploys
LinkEntry == MaxDeploys + 1
Pending(n) == MaxDeploys + 1 + n
PendingNames == {Pending(n) : n \in Names}
JsonFile == 2 * MaxDeploys + 2
Folders == Names \cup PendingNames \cup {LinkEntry, JsonFile}

NoName == 0
Absent == -1    \* of a directory
Empty == 0      \* a directory without a build
NoFile == {JsonFile}    \* there is no releases.json

VARIABLES
    dirs,       \* host: the build each directory holds
    link,       \* host: the release current points to
    saved,      \* host: the keys in releases.json
    pc,         \* the step the deployment stands at
    folders,    \* session: Releases.folders
    cache,      \* session: the folders with a release in folderMap
    current,    \* session: Releases.current
    target,     \* session: rollbackToRelease, NoName if absent or undefined
    name,       \* the releaseName made last
    memoised,   \* the process has one, and uses it again
    deploys,    \* number of deployments, and so of the build in progress
    outcome,    \* of the session: none yet, ok, failed, rolledBack or crashed
    faults,     \* how many commands have failed
    before,     \* history: the release that was current when the session began
    reused,     \* history: the release's directory was already there
    completed,  \* history: the last deployment of a release that went through, 0 if none
    dropped     \* history: the steps of this session whose command failed

hostVars == <<dirs, link, saved>>
sessionVars == <<folders, cache, current, target>>
nameVars == <<name, memoised, deploys>>
historyVars == <<before, reused, completed>>
faultVars == <<faults, dropped>>
vars == <<hostVars, pc, sessionVars, nameVars, outcome, historyVars, faultVars>>

OnHost == {f \in Names \cup PendingNames : dirs[f] # Absent}

Init ==
    /\ dirs = [f \in Names \cup PendingNames |-> Absent]
    /\ link = NoName
    /\ saved = NoFile
    /\ pc = "idle"
    /\ folders = {} /\ cache = {} /\ current = NoName /\ target = NoName
    /\ name = NoName /\ memoised = FALSE /\ deploys = 0
    /\ outcome = "none"
    /\ faults = 0
    /\ before = NoName /\ reused = FALSE /\ completed = [n \in Names |-> 0] /\ dropped = {}

Goto(from, to) ==
    /\ pc = from
    /\ pc' = to

\* The command of this step has its effect, ...
Succeeds == UNCHANGED faultVars

\* ... or it has none.
Fails ==
    /\ faults < MaxFaults
    /\ faults' = faults + 1
    /\ dropped' = dropped \cup {pc}

\* The run is over and its session with it.
Finish(result) ==
    /\ pc' = "idle"
    /\ outcome' = result
    /\ folders' = {} /\ cache' = {} /\ current' = NoName /\ target' = NoName

\* getRelease: a folder that is asked for is in folders ever after, and its
\* release in the cache if there is one.
Remember(f) ==
    /\ folders' = folders \cup ({f} \ {NoName})
    /\ cache' = cache \cup ({f} \cap OnHost)

IsPresent(f) == f \in cache \cup OnHost

-----------------------------------------------------------------------------
(* A session begins *)

Listed == OnHost \cup (IF saved = NoFile THEN {} ELSE {JsonFile})

\* load: ls, of which the link is taken out again, then releases.json without the
\* entries ls does not know, then readlink; some releases are asked for right away.
Load(asked) ==
    /\ folders' = Listed
    /\ cache' = (saved \cap OnHost) \cup asked
    /\ current' = link
    /\ dropped' = {} /\ faults' = faults

\* A read fails, and load goes on: without a current release, or without what
\* releases.json says; if that was not to be parsed, the exception leaves the link
\* among the folders.
LoadFails(asked) ==
    /\ faults < MaxFaults
    /\ faults' = faults + 1
    /\ dropped' = {pc}
    /\ \/ /\ folders' = Listed
          /\ cache' = (saved \cap OnHost) \cup asked
          /\ current' = NoName
       \/ /\ saved # NoFile
          /\ folders' \in {Listed, Listed \cup (IF link = NoName THEN {} ELSE {LinkEntry})}
          /\ cache' = asked
          /\ current' = link

BeginSession(step, asked) ==
    /\ Goto("idle", step)
    /\ Load(asked) \/ LoadFails(asked)
    /\ before' = IF link \in OnHost THEN link ELSE NoName
    /\ outcome' = "none"
    /\ reused' = FALSE
    /\ UNCHANGED <<hostVars, completed>>

BeginDeployment ==
    /\ deploys < MaxDeploys
    /\ BeginSession("creating", {})
    /\ target' = NoName
    /\ deploys' = deploys + 1
    /\ name' = IF memoised THEN name ELSE name + 1
    /\ memoised' = TRUE

\* rollbackTo of the project: findReleaseToRollbackTo and the rollback task.
BeginRollback(r) ==
    /\ r \in OnHost
    /\ BeginSession("marking", {r})
    /\ target' = r
    /\ UNCHANGED nameVars

\* The process is restarted, or the project's script removes the constant.
ForgetName ==
    /\ pc = "idle" /\ memoised
    /\ memoised' = FALSE
    /\ UNCHANGED <<hostVars, pc, sessionVars, name, deploys, outcome, historyVars, faultVars>>

-----------------------------------------------------------------------------
(* newPendingRelease and the build *)

\* mkdir -p
MakePending ==
    /\ Goto("creating", "announcing")
    /\ Succeeds
    /\ dirs' = [dirs EXCEPT ![Pending(name)] = IF @ = Absent THEN Empty ELSE @]
    /\ folders' = folders \cup {Pending(name)}
    /\ cache' = cache \cup {Pending(name)}
    /\ UNCHANGED <<link, saved, current, target, nameVars, outcome, historyVars>>

\* The host refuses, or computeRelease does not find the directory:
\* newPendingRelease throws, and the rollback does not know yet where to go.
MakePendingFails ==
    /\ Goto("creating", "marking")
    /\ Fails
    /\ outcome' = "failed"
    /\ UNCHANGED <<hostVars, sessionVars, nameVars, historyVars>>

\* Faulty: the latest release there is.
SavePendingLatest ==
    /\ Goto("announcing", "building")
    /\ \/ Succeeds /\ saved' = cache
       \/ Fails /\ saved' = saved
    /\ LET Releases == folders \cap Names
       IN  target' = IF Releases = {} THEN NoName
                     ELSE CHOOSE r \in Releases : \A s \in Releases : s <= r
    /\ Remember(current)
    /\ UNCHANGED <<dirs, link, current, nameVars, outcome, historyVars>>

\* saveJson; the current release is the one to roll back to.
SavePending ==
    /\ Goto("announcing", "building")
    /\ \/ Succeeds /\ saved' = cache
       \/ Fails /\ saved' = saved
    /\ target' = IF IsPresent(current) THEN current ELSE NoName
    /\ Remember(current)
    /\ UNCHANGED <<dirs, link, current, nameVars, outcome, historyVars>>

\* checkout, build and stop: the project's callables
Build ==
    /\ Goto("building", "moving")
    /\ dirs' = [dirs EXCEPT ![Pending(name)] = deploys]
    /\ UNCHANGED <<link, saved, sessionVars, nameVars, outcome, historyVars, faultVars>>

BuildFails ==
    /\ Goto("building", "marking")
    /\ outcome' = "failed"
    /\ dirs' \in {dirs, [dirs EXCEPT ![Pending(name)] = deploys]}
    /\ UNCHANGED <<link, saved, sessionVars, nameVars, historyVars, faultVars>>

-----------------------------------------------------------------------------
(* activatePending *)

\* Faulty: current is left to the next load.
MoveOnly ==
    /\ Goto("moving", "unlinking")
    /\ Succeeds
    /\ dirs' = [dirs EXCEPT ![Pending(name)] = Absent, ![name] = dirs[Pending(name)]]
    /\ reused' = (name \in OnHost)
    /\ folders' = (folders \ {Pending(name)}) \cup {name}
    /\ cache' = (cache \ {Pending(name)}) \cup {name}
    /\ UNCHANGED <<link, saved, current, target, nameVars, outcome, before, completed>>

\* Faulty: the clean-up comes before the switch.
MoveThenClean ==
    /\ Goto("moving", "sweeping")
    /\ Succeeds
    /\ dirs' = [dirs EXCEPT ![Pending(name)] = Absent, ![name] = dirs[Pending(name)]]
    /\ reused' = (name \in OnHost)
    /\ folders' = (folders \ {Pending(name)}) \cup {name}
    /\ cache' = (cache \ {Pending(name)}) \cup {name}
    /\ current' = name
    /\ UNCHANGED <<link, saved, target, nameVars, outcome, before, completed>>

\* mv, which puts the pending directory INTO the release's if that is there,
\* and the session's view of it: the release is current from here on.
Move ==
    /\ Goto("moving", "unlinking")
    /\ \/ /\ Succeeds
          /\ dirs' = [dirs EXCEPT ![Pending(name)] = Absent,
                                  ![name] = IF @ = Absent THEN dirs[Pending(name)] ELSE @]
       \/ /\ Fails
          /\ dirs' = dirs
    /\ reused' = (name \in OnHost)
    /\ folders' = (folders \ {Pending(name)}) \cup {name}
    /\ cache' = (cache \ {Pending(name)}) \cup {name}
    /\ current' = name
    /\ UNCHANGED <<link, saved, target, nameVars, outcome, before, completed>>

\* switchLinkTo is one command line, rm current; ln -s path current: it fails as
\* a whole, ...
SwitchFails(from, to) ==
    /\ Goto(from, to)
    /\ Fails
    /\ Remember(current)
    /\ UNCHANGED <<hostVars, current, target, nameVars, outcome, historyVars>>

\* ... or there is no link for a moment, ...
Unlink(from, to) ==
    /\ Goto(from, to)
    /\ Succeeds
    /\ link' = NoName
    /\ UNCHANGED <<dirs, saved, sessionVars, nameVars, outcome, historyVars>>

\* ... and then the new one, unless ln fails.
Link(from, to) ==
    /\ Goto(from, to)
    /\ \/ Succeeds /\ link' = current
       \/ Fails /\ link' = link
    /\ Remember(current)
    /\ UNCHANGED <<dirs, saved, current, target, nameVars, outcome, historyVars>>

Without(gone) == [f \in DOMAIN dirs |-> IF f \in gone THEN Absent ELSE dirs[f]]

\* cleanPending: rm pending_*; folders keeps the others' names.
Sweep ==
    /\ Goto("sweeping", "trimming")
    /\ \/ Succeeds /\ dirs' = Without(PendingNames)
       \/ Fails /\ dirs' = dirs
    /\ UNCHANGED <<link, saved, sessionVars, nameVars, outcome, historyVars>>

Rank(f) == Cardinality({g \in folders : g < f})

\* Faulty: keeps one more.
ListToDeleteLess ==
    LET toIndex == Cardinality(folders) - KeepX - 2
        First == {f \in folders : Rank(f) < toIndex}
    IN  IF current \in First
          THEN (First \ {current}) \cup {f \in folders : Rank(f) = toIndex}
          ELSE First

\* Faulty: keeps one less.
ListToDeleteMore ==
    LET toIndex == Cardinality(folders) - KeepX + 1
        First == {f \in folders : Rank(f) < toIndex}
    IN  IF current \in First
          THEN (First \ {current}) \cup {f \in folders : Rank(f) = toIndex}
          ELSE First

\* listToDelete: the first of all folders, pending ones and releases.json
\* counted; in place of the current release, the one after them.
ListToDelete ==
    LET toIndex == Cardinality(folders) - KeepX
        First == {f \in folders : Rank(f) < toIndex}
    IN  IF current \in First
          THEN (First \ {current}) \cup {f \in folders : Rank(f) = toIndex}
          ELSE First

\* rm -rf of all that is in the list, the link too if it got there
RemoveListed ==
    \/ /\ Succeeds
       /\ dirs' = Without(ListToDelete)
       /\ link' = IF LinkEntry \in ListToDelete THEN NoName ELSE link
    \/ /\ Fails
       /\ UNCHANGED <<dirs, link>>

\* Faulty: the entries stay in folderMap.
TrimFolders ==
    /\ Goto("trimming", "saving")
    /\ folders' = folders \ ListToDelete
    /\ RemoveListed
    /\ UNCHANGED <<saved, cache, current, target, nameVars, outcome, historyVars>>

\* delete
Trim ==
    /\ Goto("trimming", "saving")
    /\ folders' = folders \ ListToDelete
    /\ cache' = cache \ ListToDelete
    /\ RemoveListed
    /\ UNCHANGED <<saved, current, target, nameVars, outcome, historyVars>>

\* saveJson
Save ==
    /\ Goto("saving", "starting")
    /\ \/ Succeeds /\ saved' = cache
       \/ Fails /\ saved' = saved
    /\ UNCHANGED <<dirs, link, sessionVars, nameVars, outcome, historyVars>>

\* start and whenStarted: the project's callables
Start ==
    /\ pc = "starting"
    /\ Finish("ok")
    /\ completed' = IF dropped = {} THEN [completed EXCEPT ![name] = deploys] ELSE completed
    /\ UNCHANGED <<hostVars, nameVars, before, reused, faultVars>>

StartFails ==
    /\ Goto("starting", "marking")
    /\ outcome' = "failed"
    /\ UNCHANGED <<hostVars, sessionVars, nameVars, historyVars, faultVars>>

-----------------------------------------------------------------------------
(* The rollback: ifRollbackCallable *)

\* markFailed of the release that is active, the one before if the new one is
\* not yet: saveJson.
Mark ==
    /\ Goto("marking", "choosing")
    /\ \/ Succeeds /\ saved' = IF IsPresent(current) THEN cache \cup {current} ELSE saved
       \/ Fails /\ saved' = saved
    /\ Remember(current)
    /\ UNCHANGED <<dirs, link, current, target, nameVars, outcome, historyVars>>

\* rollbackTo, if there is a release to go back to
Choose ==
    /\ Goto("choosing", "unlinking back")
    /\ target # NoName /\ IsPresent(target)
    /\ current' = target
    /\ Remember(target)
    /\ UNCHANGED <<hostVars, target, nameVars, outcome, historyVars, faultVars>>

Result == IF outcome = "failed" THEN "failed" ELSE "rolledBack"

\* There was no release before the deployment.
ChooseNone ==
    /\ pc = "choosing" /\ target = NoName
    /\ Finish(Result)
    /\ UNCHANGED <<hostVars, nameVars, historyVars, faultVars>>

\* "no such release": the exception ends the rollback, the link stays.
ChooseThrows ==
    /\ pc = "choosing" /\ target # NoName /\ ~IsPresent(target)
    /\ Finish("failed")
    /\ UNCHANGED <<hostVars, nameVars, historyVars, faultVars>>

EndRollback ==
    /\ pc = "rolled back"
    /\ Finish(Result)
    /\ UNCHANGED <<hostVars, nameVars, historyVars, faultVars>>

-----------------------------------------------------------------------------
\* The process dies, or the connection to the host.
Crash ==
    /\ MayCrash
    /\ pc # "idle"
    /\ Finish("crashed")
    /\ memoised' = FALSE
    /\ UNCHANGED <<hostVars, name, deploys, historyVars, faultVars>>

Switch(unlinking, linking, to) ==
    Unlink(unlinking, linking) \/ Link(linking, to) \/ SwitchFails(unlinking, to)

Activate ==
    Move \/ Switch("unlinking", "linking", "sweeping") \/ Sweep \/ Trim \/ Save

Rollback ==
    \/ Mark \/ Choose \/ ChooseNone \/ ChooseThrows
    \/ Switch("unlinking back", "linking back", "rolled back") \/ EndRollback

Next ==
    \/ BeginDeployment \/ (\E r \in Names : BeginRollback(r)) \/ ForgetName
    \/ MakePending \/ MakePendingFails \/ SavePending
    \/ Build \/ BuildFails \/ Activate \/ Start \/ StartFails \/ Rollback \/ Crash

Spec == Init /\ [][Next]_vars

-----------------------------------------------------------------------------
Steps == {"idle", "creating", "announcing", "building", "moving", "unlinking", "linking",
          "sweeping", "trimming", "saving", "starting", "marking", "choosing",
          "unlinking back", "linking back", "rolled back"}

TypeOK ==
    /\ dirs \in [Names \cup PendingNames -> {Absent, Empty} \cup 1 .. MaxDeploys]
    /\ {link, current, target, before} \subseteq Names \cup {NoName}
    /\ saved = NoFile \/ saved \subseteq Names \cup PendingNames
    /\ pc \in Steps
    /\ folders \subseteq Folders
    /\ cache \subseteq Names \cup PendingNames
    /\ name \in 0 .. deploys
    /\ memoised \in BOOLEAN
    /\ deploys \in 0 .. MaxDeploys
    /\ outcome \in {"none", "ok", "failed", "rolledBack", "crashed"}
    /\ faults \in 0 .. MaxFaults
    /\ reused \in BOOLEAN
    /\ completed \in [Names -> 0 .. MaxDeploys]
    /\ dropped \subseteq Steps

\* The directory that current points to is never removed under the running
\* application, whatever has crashed or failed before, unless the switch of the
\* link failed in the same session.
CurrentStays ==
    [][link' = link /\ link \in OnHost /\ "unlinking" \notin dropped' => link' \in OnHost']_vars

\* A deployment that ends well serves what it has built, whatever crashed or
\* failed before, unless one of its own commands failed or its release was
\* there already: a process that deploys twice uses the same name twice, and the
\* link goes to the old build.
SuccessServesBuild ==
    outcome = "ok" /\ dropped = {} /\ ~reused => link = name /\ dirs[name] = deploys

\* A release can be trusted as a place to go back to: a deployment of it went
\* through with no command failing, and no more than KeepX - 2 deployments have been begun since.
Recent(r) == r # NoName /\ completed[r] # 0 /\ deploys - completed[r] <= KeepX - 2

\* The release to roll back to survives the clean-up of the deployment that may
\* fail, if it is recent: whatever the deployments since have left, releases,
\* pending directories and releases.json, is counted among the releases to keep.
\* Excepted is a session that could not read the host: with releases.json not
\* to be parsed, the link is counted as well.
TargetSurvives == Recent(target) /\ "idle" \notin dropped => target \in OnHost

\* A deployment that fails leaves the host with the release it found if that is
\* recent, unless one of its commands failed.
RollbackRestores ==
    outcome = "failed" /\ pc = "idle" /\ dropped = {} /\ Recent(before)
        => link = before /\ link \in OnHost

\* "if it fails to start, then play plugin rolls back the label" (todo.txt:299):
\* a deployment that fails leaves the host with the release it found.
FailureRollsBack ==
    outcome = "failed" /\ pc = "idle" /\ dropped = {} /\ before # NoName => link = before

\* What releases.json says is there when a session is over, is, unless a
\* command failed: crashes before do no harm, as load checks the entries.
SavedReleasesExist ==
    outcome \in {"ok", "failed"} /\ pc = "idle" /\ dropped = {}
        => saved \cap Names \subseteq OnHost

\* After a deployment there are no more than KeepX releases on the host,
\* releases.json counted, and nothing is pending, whatever was left before.
HostIsBounded ==
    pc = "starting" /\ dropped = {} =>
        /\ OnHost \cap PendingNames = {}
        /\ Cardinality(OnHost \cup (folders \cap {JsonFile})) <= KeepX
=============================================================================
