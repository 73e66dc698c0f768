-------------------------- MODULE CoordinatedUpgrade --------------------------
(***************************************************************************)
(* The version check of the heartbeat and what it may lead to.  A prod and *)
(* a dev daemon share one binary; only the prod daemon replaces it, and it *)
(* stops the dev daemon first, noting in .upgrade-restore-state that it    *)
(* did so and holding .upgrade.lock meanwhile.  It then exits, and the     *)
(* process its service manager launches undoes the rest: starts dev again, *)
(* removes both files.  Anything may end the prod process in between.      *)
(***************************************************************************)
EXTENDS Integers

CONSTANTS Systems,      \* the service managers: "launchd", "systemd", "schtasks"
          Sources,      \* where the binary came from: "brew", "github"
          MaxReleases,  \* bound: releases published
          MaxMoves      \* bound: faults, restarts, and commands of the user

ASSUME UpgradeAssumption == MaxReleases \in Nat /\ MaxMoves \in Nat

VARIABLES
    os,          \* the service manager of this machine
    source,      \* the configuration's install_source
    latest,      \* the newest release published
    disk,        \* the version of the binary the service unit runs
    prod,        \* the prod process: down, boot, restored, up
    prodVersion, \* the version it runs
    beatPc,      \* where its heartbeat is in the upgrade
    wasRunning,  \* devWasRunning of the upgrade in progress
    coordinated, \* coordinatedUpgradeDeps was built when this process started
    checked,     \* last_version_check_at is within the interval
    updateMark,  \* the UPDATE_AVAILABLE sentinel
    lock,        \* .upgrade.lock exists
    restore,     \* .upgrade-restore-state exists (devWasRunning is true in it)
    dev,         \* the dev process: down, stopping, up
    devVersion,  \* the version it runs
    devConfig,   \* dev/config.toml exists
    devLoaded,   \* the dev service is registered
    devStopped,  \* the dev profile's SESSION_STOPPED, of this boot
    owed,        \* an upgrade stopped dev; nobody else started or stopped it since
    failed,      \* a start of dev failed, or its stop took too long
    moves        \* faults, restarts and commands so far

binary == <<os, source, latest, disk>>
prodVars == <<prod, prodVersion, beatPc, wasRunning, coordinated, checked, updateMark>>
files == <<lock, restore>>
devVars == <<dev, devVersion, devConfig, devLoaded, devStopped>>
ghosts == <<owed, failed>>
upgradeVars == <<binary, prodVars, files, devVars, ghosts, moves>>

UpgradeInit ==
    /\ os \in Systems /\ source \in Sources
    /\ latest = 0 /\ disk = 0
    /\ prod = "boot" /\ prodVersion = 0
    /\ beatPc = "idle" /\ wasRunning = FALSE /\ coordinated = FALSE
    /\ checked = FALSE /\ updateMark = FALSE
    /\ lock = FALSE /\ restore = FALSE
    /\ devConfig \in BOOLEAN
    /\ dev = IF devConfig THEN "up" ELSE "down"
    /\ devVersion = 0 /\ devLoaded = devConfig /\ devStopped = FALSE
    /\ owed = FALSE /\ failed = FALSE /\ moves = 0

Moves == moves < MaxMoves /\ moves' = moves + 1

-----------------------------------------------------------------------------
(* The dev service.  A started process whose profile has SESSION_STOPPED of *)
(* this boot exits at once.                                                 *)

DevRuns ==
    /\ dev' = IF dev = "down" /\ ~devStopped THEN "up" ELSE dev
    /\ devVersion' = IF dev = "down" /\ ~devStopped THEN disk ELSE devVersion
    /\ devLoaded' = TRUE

\* start as buildDevServiceManager makes it: on launchd it would load the prod
\* profile's plist, so an unloaded dev service is not started.  A process that is
\* still ending makes it a no-op.
DevStart ==
    \/ /\ devConfig /\ (os = "launchd" => devLoaded)
       /\ DevRuns
       /\ owed' = (owed /\ dev = "stopping")
       /\ failed' = (failed \/ dev = "stopping")
       /\ UNCHANGED moves
    \/ /\ UNCHANGED <<dev, devVersion, devLoaded, owed>>
       /\ failed' = TRUE
       /\ IF os = "launchd" /\ ~devLoaded THEN UNCHANGED moves ELSE Moves

-----------------------------------------------------------------------------
(* The heartbeat of the prod daemon.                                       *)

\* Throttled by last_version_check_at, then by the kind of installation.
HeartbeatBegins ==
    /\ prod = "up" /\ beatPc = "idle" /\ ~checked
    /\ beatPc' = CASE source = "brew" -> "brew"
                   [] source # "brew" /\ coordinated -> "lock"
                   [] OTHER -> "plain"
    /\ UNCHANGED <<binary, prod, prodVersion, wasRunning, coordinated, checked,
                   updateMark, files, devVars, ghosts, moves>>

IntervalPasses ==
    /\ checked /\ checked' = FALSE
    /\ UNCHANGED <<binary, prod, prodVersion, beatPc, wasRunning, coordinated,
                   updateMark, files, devVars, ghosts, moves>>

\* brew replaces the binary itself; the daemon only says that it could.  Without
\* a release or an answer the sentinel stays as it is.
BrewCheck ==
    /\ prod = "up" /\ beatPc = "brew"
    /\ updateMark' \in {updateMark, latest > prodVersion}
    /\ checked' = TRUE /\ beatPc' = "idle"
    /\ UNCHANGED <<binary, prod, prodVersion, wasRunning, coordinated, files, devVars,
                   ghosts, moves>>

\* replaceBinary: renamed over the binary, but on Windows left beside it.
Replaced == IF os = "schtasks" THEN disk ELSE latest

\* runAutoUpgrade: every failure is swallowed and counts as a check; a success
\* exits before the check is recorded.
PlainUpgrade ==
    /\ prod = "up" /\ beatPc = "plain"
    /\ \/ checked' = TRUE /\ UNCHANGED <<disk, prod>>
       \/ /\ latest > prodVersion
          /\ disk' = Replaced /\ prod' = "down"
          /\ UNCHANGED checked
    /\ beatPc' = "idle"
    /\ UNCHANGED <<os, source, latest, prodVersion, wasRunning, coordinated,
                   updateMark, files, devVars, ghosts, moves>>

\* The lock is created exclusively; a lock already there ends the heartbeat.
TakeLock ==
    /\ prod = "up" /\ beatPc = "lock"
    /\ lock' = TRUE
    /\ beatPc' = IF lock THEN "idle" ELSE "look"
    /\ UNCHANGED <<binary, prod, prodVersion, wasRunning, coordinated, checked,
                   updateMark, restore, devVars, ghosts, moves>>

\* Mutant: the restore state is written only once dev is down.
LookAtDevUnrecorded ==
    /\ prod = "up" /\ beatPc = "look"
    /\ wasRunning' = (dev # "down")
    /\ beatPc' = IF dev # "down" THEN "stop" ELSE "download"
    /\ UNCHANGED <<binary, prod, prodVersion, coordinated, checked, updateMark, files,
                   devVars, ghosts, moves>>

LookAtDev ==
    /\ prod = "up" /\ beatPc = "look"
    /\ wasRunning' = (dev # "down")
    /\ restore' = (restore \/ dev # "down")
    /\ beatPc' = IF dev # "down" THEN "stop" ELSE "download"
    /\ UNCHANGED <<binary, prod, prodVersion, coordinated, checked, updateMark, lock,
                   devVars, ghosts, moves>>

StopDev ==
    /\ prod = "up" /\ beatPc = "stop"
    /\ dev' = IF dev = "up" THEN "stopping" ELSE dev
    /\ devLoaded' = (devLoaded /\ os # "launchd")
    /\ owed' = (owed \/ dev = "up")
    /\ failed' = (failed /\ dev # "up")
    /\ beatPc' = "poll"
    /\ UNCHANGED <<binary, prod, prodVersion, wasRunning, coordinated, checked,
                   updateMark, files, devVersion, devConfig, devStopped, moves>>

PollStopped ==
    /\ prod = "up" /\ beatPc = "poll" /\ dev = "down"
    /\ beatPc' = "download"
    /\ UNCHANGED <<binary, prod, prodVersion, wasRunning, coordinated, checked,
                   updateMark, files, devVars, ghosts, moves>>

\* Thirty seconds pass: both files go, and the error reaches the catch block.
PollTimesOut ==
    /\ prod = "up" /\ beatPc = "poll" /\ dev # "down"
    /\ lock' = FALSE /\ restore' = FALSE /\ failed' = TRUE
    /\ beatPc' = "undo"
    /\ UNCHANGED <<binary, prod, prodVersion, wasRunning, coordinated, checked,
                   updateMark, devVars, owed, moves>>

\* downloadAndReplaceBinary: nothing to do, or a new binary; both are a success.
Download ==
    /\ prod = "up" /\ beatPc = "download"
    /\ \/ UNCHANGED disk
       \/ latest > prodVersion /\ disk' = Replaced
    /\ beatPc' = "release"
    /\ UNCHANGED <<os, source, latest, prod, prodVersion, wasRunning, coordinated,
                   checked, updateMark, files, devVars, ghosts, moves>>

DownloadFails ==
    /\ prod = "up" /\ beatPc = "download" /\ Moves
    /\ beatPc' = "undo"
    /\ UNCHANGED <<binary, prod, prodVersion, wasRunning, coordinated, checked,
                   updateMark, files, devVars, ghosts>>

\* The catch block: dev is started again, the lock released, the restore state
\* left where it is, the check not recorded.
UndoUpgrade ==
    /\ prod = "up" /\ beatPc = "undo"
    /\ IF wasRunning THEN DevStart
       ELSE UNCHANGED <<dev, devVersion, devLoaded, ghosts, moves>>
    /\ lock' = FALSE /\ beatPc' = "idle"
    /\ UNCHANGED <<binary, prod, prodVersion, wasRunning, coordinated, checked,
                   updateMark, restore, devConfig, devStopped>>

ReleaseAndExit ==
    /\ prod = "up" /\ beatPc = "release"
    /\ lock' = FALSE /\ checked' = TRUE
    /\ prod' = "down" /\ beatPc' = "idle"
    /\ UNCHANGED <<binary, prodVersion, wasRunning, coordinated, updateMark, restore,
                   devVars, ghosts, moves>>

-----------------------------------------------------------------------------
(* The prod process.                                                       *)

ProdCrash ==
    /\ prod # "down" /\ Moves
    /\ prod' = "down" /\ beatPc' = "idle"
    /\ UNCHANGED <<binary, prodVersion, wasRunning, coordinated, checked, updateMark,
                   files, devVars, ghosts>>

ProdRelaunch ==
    /\ prod = "down"
    /\ prod' = "boot" /\ prodVersion' = disk
    /\ UNCHANGED <<binary, beatPc, wasRunning, coordinated, checked, updateMark, files,
                   devVars, ghosts, moves>>

\* Mutant: dev is started again only while the lock is still there.
RestoreDevLocked ==
    /\ prod = "boot"
    /\ prod' = "restored"
    /\ IF restore /\ lock /\ devConfig THEN DevStart
       ELSE UNCHANGED <<dev, devVersion, devLoaded, ghosts, moves>>
    /\ UNCHANGED <<binary, prodVersion, beatPc, wasRunning, coordinated, checked,
                   updateMark, files, devConfig, devStopped>>

\* runUpgradePostRespawnRestore: dev first, then both files, whatever happened.
RestoreDev ==
    /\ prod = "boot"
    /\ prod' = "restored"
    /\ IF restore /\ devConfig THEN DevStart
       ELSE UNCHANGED <<dev, devVersion, devLoaded, ghosts, moves>>
    /\ UNCHANGED <<binary, prodVersion, beatPc, wasRunning, coordinated, checked,
                   updateMark, files, devConfig, devStopped>>

RestoreDone ==
    /\ prod = "restored"
    /\ prod' = "up"
    /\ restore' = FALSE /\ lock' = FALSE
    /\ coordinated' = devConfig
    /\ UNCHANGED <<binary, prodVersion, beatPc, wasRunning, checked, updateMark, devVars,
                   ghosts, moves>>

-----------------------------------------------------------------------------
(* The rest of the world.                                                  *)

DevEnds ==
    /\ dev = "stopping" /\ dev' = "down"
    /\ UNCHANGED <<binary, prodVars, files, devVersion, devConfig, devLoaded, devStopped,
                   ghosts, moves>>

\* stop --profile dev and start --profile dev; dev setup and dev on, which leave
\* SESSION_STOPPED in place.
UserStopsDev ==
    /\ devConfig /\ Moves
    /\ devStopped' = TRUE /\ owed' = FALSE
    /\ dev' = IF dev = "up" THEN "stopping" ELSE dev
    /\ devLoaded' = (devLoaded /\ os # "launchd")
    /\ UNCHANGED <<binary, prodVars, files, devVersion, devConfig, failed>>

UserStartsDev ==
    /\ devConfig /\ dev = "down" /\ Moves
    /\ devStopped' = FALSE /\ devLoaded' = TRUE /\ owed' = FALSE
    /\ dev' = "up" /\ devVersion' = disk
    /\ UNCHANGED <<binary, prodVars, files, devConfig, failed>>

DevSetup ==
    /\ ~devConfig /\ Moves
    /\ devConfig' = TRUE
    /\ DevRuns
    /\ UNCHANGED <<binary, prodVars, files, devStopped, ghosts>>

DevOn ==
    /\ devConfig /\ dev = "down" /\ Moves
    /\ DevRuns /\ owed' = FALSE
    /\ UNCHANGED <<binary, prodVars, files, devConfig, devStopped, failed>>

\* proxai-gateway upgrade takes no lock: it replaces the binary and restarts prod.
ManualUpgrade ==
    /\ latest > disk /\ Moves
    /\ disk' = Replaced
    /\ prod' = "boot" /\ prodVersion' = disk' /\ beatPc' = "idle"
    /\ UNCHANGED <<os, source, latest, wasRunning, coordinated, checked, updateMark,
                   files, devVars, ghosts>>

Publish ==
    /\ latest < MaxReleases
    /\ latest' = latest + 1
    /\ UNCHANGED <<os, source, disk, prodVars, files, devVars, ghosts, moves>>

\* Both services start again at login; the files survive, the session marks do not.
MachineBoots ==
    /\ Moves
    /\ prod' = "boot" /\ prodVersion' = disk /\ beatPc' = "idle"
    /\ dev' = IF devConfig THEN "up" ELSE "down"
    /\ devVersion' = disk /\ devLoaded' = devConfig
    /\ devStopped' = FALSE /\ owed' = FALSE
    /\ UNCHANGED <<binary, wasRunning, coordinated, checked, updateMark, files, devConfig,
                   failed>>

UpgradeStep == \/ TakeLock \/ LookAtDev \/ StopDev \/ PollStopped \/ PollTimesOut
               \/ Download \/ UndoUpgrade \/ ReleaseAndExit \/ BrewCheck \/ PlainUpgrade

ProdStarts == ProdRelaunch \/ RestoreDev \/ RestoreDone

UpgradeNext ==
    \/ HeartbeatBegins \/ IntervalPasses \/ UpgradeStep \/ DownloadFails
    \/ ProdCrash \/ ProdStarts \/ DevEnds \/ UserStopsDev \/ UserStartsDev \/ DevSetup
    \/ DevOn \/ ManualUpgrade \/ Publish \/ MachineBoots

\* The service manager relaunches prod, a process that was told to stop ends, a
\* step of an upgrade begun is taken.
UpgradeFairness ==
    /\ WF_upgradeVars(UpgradeStep)
    /\ WF_upgradeVars(ProdStarts)
    /\ WF_upgradeVars(DevEnds)

UpgradeSpec == UpgradeInit /\ [][UpgradeNext]_upgradeVars /\ UpgradeFairness

-----------------------------------------------------------------------------
BeatPcs == {"idle", "brew", "plain", "lock", "look", "stop", "poll", "download",
            "undo", "release"}

\* Every variable keeps to the values named where it is declared.
UpgradeTypeOK ==
    /\ os \in Systems /\ source \in Sources
    /\ {latest, disk, prodVersion, devVersion} \subseteq 0 .. MaxReleases
    /\ prod \in {"down", "boot", "restored", "up"} /\ beatPc \in BeatPcs
    /\ dev \in {"down", "stopping", "up"}
    /\ {wasRunning, coordinated, checked, updateMark, lock, restore, devConfig,
        devLoaded, devStopped, owed, failed} \subseteq BOOLEAN
    /\ moves \in 0 .. MaxMoves

\* While the dev daemon is down because an upgrade stopped it, the restore state
\* says so on disk, whatever step the prod process dies in: otherwise no later
\* start of prod would bring it back.  A start that failed, or a stop that took
\* too long, is given up by the code.
StoppedDevIsRecorded == owed /\ ~failed => restore

\* The lock is held by a live upgrade or by nobody that will keep it: a prod
\* process past its start finds no lock but its own.
LockIsOwn ==
    prod = "up" /\ lock => beatPc \in BeatPcs \ {"idle", "brew", "plain"}

\* The binary is replaced under a coordinated upgrade only with the dev daemon
\* down, or started meanwhile by its user.
SwapIsQuiet ==
    [][beatPc = "download" /\ disk' # disk /\ wasRunning /\ owed
         => dev = "down"]_upgradeVars

\* A dev daemon an upgrade stopped runs again, unless its user took it over or
\* the service manager refused.  (launchd always refuses: see DevStart.)
DevComesBack == owed /\ os # "launchd" ~> ~owed \/ failed

=============================================================================
