---------------------------- MODULE RescueWatchdog ----------------------------
(***************************************************************************)
(* Who may start the daemon of one profile, and who may stop it.  The      *)
(* commands start, stop, restart, setup, setup reset and uninstall, the    *)
(* operating system's supervisor, the boot of the machine and the watchdog *)
(* (`rescue`, run every 15 minutes) all launch or end the same process;    *)
(* they agree through the SESSION_STOPPED sentinel, which carries the boot *)
(* it was written in, the upgrade files and the rescue ledger.             *)
(*                                                                         *)
(* Time is counted in watchdog periods of 15 minutes and kept as AGES that *)
(* stop growing once no threshold can tell them apart, so that behaviours  *)
(* are unbounded and the state is not.  Null is an instant never recorded. *)
(***************************************************************************)
EXTENDS Integers, FiniteSets

CONSTANTS Platforms,    \* the service managers: "launchd", "systemd", "schtasks"
          MaxEvents     \* bound: faults, sleeps, boots and commands of one behaviour

Loops == {"capture", "drain"}
Attempts == {"start", "restart"}     \* the decisions that launch the daemon
Null == -1

ASSUME RescueAssumption ==
    /\ Platforms \subseteq {"launchd", "systemd", "schtasks"}
    /\ MaxEvents \in Nat

SUSTAINED_DOWN == 0             \* older than 10 minutes: at least one period
WEDGE_STALE == 2                \* older than 30 minutes
RESCUE_RATE_CAP == 4            \* younger than 60 minutes
RESUME_GAP_THRESHOLD == 2       \* more than 30 minutes
MAX_CONSECUTIVE_FAILURES == 3
Ages == {Null} \cup 0 .. RESCUE_RATE_CAP    \* older ages are not told apart

VARIABLES
    platform,    \* the service manager of this machine
    config,      \* config.toml exists
    unit,        \* the service unit file exists
    registered,  \* launchd has it loaded, systemd enabled, schtasks created
    watchdog,    \* the watchdog's timer is installed
    proc,        \* the daemon: down, boot (run started), prepared, clearing, up
    supervised,  \* the service manager relaunches the process when it ends
    stuck,       \* the loops that no longer finish a cycle
    sick,        \* the process dies whenever it starts
    paused,      \* AUTH_FAILED or BUFFER_FULL is present
    upgrading,   \* .upgrade.lock or .upgrade-restore-state is present
    beat,        \* the age of each loop's last finished cycle
    sentinel,    \* SESSION_STOPPED: none, of this boot, of an old one
    ledger,      \* rescue-ledger.json; a missing file reads as FreshLedger
    rescue,      \* the rescue command: its program counter and what it read
    due,         \* the watchdog has not run in this period yet
    cycled,      \* the loops that finished a cycle since rescue last looked
    cmd,         \* the user's command between two of its steps
    userStopped, \* a `stop` of this boot stands: no command took it back, and its
                 \* sentinel was not removed in place of an old one
    launches,    \* rescues since the last healthy verdict that was written down, the last
                 \* boot or the last uninstall with --reset
    lost,        \* those of them whose attempt never came into the ledger
    events       \* faults, sleeps, boots and commands so far

service == <<config, unit, registered, watchdog>>
process == <<proc, supervised, stuck, sick, paused, upgrading>>
marks == <<sentinel, userStopped>>
rescued == <<launches, lost>>
watch == <<ledger, rescue, due, cycled, rescued>>
rescueVars == <<platform, service, process, beat, marks, watch, cmd, events>>

-----------------------------------------------------------------------------
(* The service managers, external: what their commands do to the process.  *)

\* isRegistered: systemctl lists the unit file, the others ask for the loaded job.
Registered == IF platform = "systemd" THEN unit ELSE registered

\* start and restart load what is not loaded, from the unit, or throw.
LaunchctlLoads == registered \/ unit
SystemctlLoads == unit
SchtasksLoads == registered \/ unit
CanLaunch == CASE platform = "launchd" -> LaunchctlLoads
               [] platform = "systemd" -> SystemctlLoads
               [] platform = "schtasks" -> SchtasksLoads

\* start leaves a running process alone, restart replaces it.
Launch(kill) ==
    /\ registered' = TRUE
    /\ supervised' = TRUE
    /\ proc' = IF proc = "down" \/ kill THEN "boot" ELSE proc
    /\ stuck' = IF proc = "down" \/ kill THEN {} ELSE stuck

\* stop ends the process; launchctl does it with bootout, which unloads the job.
LaunchctlStops == registered' = FALSE
SystemctlStops == UNCHANGED registered
SchtasksStops == UNCHANGED registered
Halt ==
    /\ proc' = "down"
    /\ stuck' = {}
    /\ supervised' = FALSE
    /\ CASE platform = "launchd" -> LaunchctlStops
         [] platform = "systemd" -> SystemctlStops
         [] platform = "schtasks" -> SchtasksStops

\* What a command or a process finds missing it writes and installs again.
EnsureUnit == unit' = TRUE
EnsureWatchdog == watchdog' = TRUE

-----------------------------------------------------------------------------
FreshLedger == [fails |-> 0, last |-> Null, run |-> Null, seen |-> {}, boot |-> "this"]
IdleRescue == [pc |-> "idle", config |-> FALSE, registered |-> FALSE,
               running |-> FALSE, beat |-> [l \in Loops |-> Null], seen |-> {},
               paused |-> FALSE, stopped |-> FALSE, draft |-> FreshLedger,
               decision |-> "none", unmoved |-> {}]

RescueInit ==
    /\ platform \in Platforms
    /\ config = TRUE /\ unit = TRUE /\ registered = TRUE /\ watchdog = TRUE
    /\ proc = "boot" /\ supervised = TRUE /\ stuck = {} /\ sick = FALSE
    /\ paused = FALSE /\ upgrading = FALSE
    /\ beat = [l \in Loops |-> Null]
    /\ sentinel = "none" /\ userStopped = FALSE
    /\ ledger = FreshLedger /\ rescue = IdleRescue
    /\ due = TRUE /\ cycled = {} /\ launches = 0 /\ lost = 0
    /\ cmd = "none" /\ events = 0

Happens == events < MaxEvents /\ events' = events + 1

-----------------------------------------------------------------------------
(* `proxai-gateway run`: what the process does before and after its loops. *)

\* The watchdog is put back if missing; the restore after an upgrade removes
\* both upgrade files (the prod profile: the dev one never upgrades).
BootPrepare ==
    /\ proc = "boot"
    /\ EnsureWatchdog
    /\ upgrading' = FALSE
    /\ proc' = IF config /\ ~sick THEN "prepared" ELSE "down"
    /\ UNCHANGED <<platform, config, unit, registered, supervised, stuck, sick,
                   paused, beat, marks, watch, cmd, events>>

\* Mutant: run does not look whether the session was stopped.
BootCheckSessionBlind ==
    /\ proc = "prepared"
    /\ proc' = IF sentinel = "old" THEN "clearing" ELSE "up"
    /\ UNCHANGED <<platform, service, supervised, stuck, sick, paused, upgrading,
                   beat, marks, watch, cmd, events>>

\* isCurrentSessionStopped reads the sentinel: of this boot, run exits with 0;
\* of another boot, it is removed in a second step.
BootCheckSession ==
    /\ proc = "prepared"
    /\ proc' = CASE sentinel = "this" -> "down"
                 [] sentinel = "old"  -> "clearing"
                 [] sentinel = "none" -> "up"
    /\ UNCHANGED <<platform, service, supervised, stuck, sick, paused, upgrading,
                   beat, marks, watch, cmd, events>>

BootClearSession ==
    /\ proc = "clearing"
    /\ sentinel' = "none" /\ userStopped' = FALSE
    /\ proc' = "up"
    /\ UNCHANGED <<platform, service, supervised, stuck, sick, paused, upgrading,
                   beat, watch, cmd, events>>

\* A cycle hangs.
Wedge(l) ==
    /\ proc = "up" /\ l \notin stuck /\ Happens
    /\ stuck' = stuck \cup {l}
    /\ UNCHANGED <<platform, service, proc, supervised, sick, paused, upgrading,
                   beat, marks, watch, cmd>>

\* The cycles that end in this step: each records the time in the buffer, so that
\* what the ledger saw of these loops is no longer their last cycle.
Finish(loops) ==
    /\ ledger' = [ledger EXCEPT !.seen = @ \ loops]
    /\ cycled' = cycled \cup loops

\* A hanging cycle ends after all.
Recover(l) ==
    /\ l \in stuck
    /\ stuck' = stuck \ {l}
    /\ beat' = [beat EXCEPT ![l] = 0]
    /\ Finish({l})
    /\ UNCHANGED <<platform, service, proc, supervised, sick, paused, upgrading,
                   marks, rescue, due, rescued, cmd, events>>

\* The process dies, perhaps of something that will kill it again at once.
Crash ==
    /\ proc # "down" /\ Happens
    /\ proc' = "down" /\ stuck' = {} /\ sick' \in BOOLEAN
    /\ UNCHANGED <<platform, service, supervised, paused, upgrading, beat, marks,
                   watch, cmd>>

\* The sentinels the loops write and setup or a recovery removes, and the files
\* of an upgrade in progress.
Pause ==
    /\ proc = "up" /\ ~paused /\ Happens
    /\ paused' = TRUE
    /\ UNCHANGED <<platform, service, proc, supervised, stuck, sick, upgrading,
                   beat, marks, watch, cmd>>

Unpause ==
    /\ paused /\ proc = "up"
    /\ paused' = FALSE
    /\ UNCHANGED <<platform, service, proc, supervised, stuck, sick, upgrading,
                   beat, marks, watch, cmd, events>>

BeginUpgrade ==
    /\ proc = "up" /\ ~upgrading /\ Happens
    /\ upgrading' = TRUE
    /\ UNCHANGED <<platform, service, proc, supervised, stuck, sick, paused,
                   beat, marks, watch, cmd>>

EndUpgrade ==
    /\ proc = "up" /\ upgrading
    /\ upgrading' = FALSE
    /\ UNCHANGED <<platform, service, proc, supervised, stuck, sick, paused,
                   beat, marks, watch, cmd, events>>

-----------------------------------------------------------------------------
(* The machine: the supervisor, time, sleep and boot.                      *)

\* KeepAlive, Restart=always, RestartOnFailure.
Relaunch ==
    /\ proc = "down" /\ supervised
    /\ proc' = "boot"
    /\ UNCHANGED <<platform, service, supervised, stuck, sick, paused, upgrading,
                   beat, marks, watch, cmd, events>>

\* systemd gives up after five starts in five minutes, the Task Scheduler after
\* its restarts or a clean exit; launchd never does.
GiveUp ==
    /\ proc = "down" /\ supervised /\ platform # "launchd"
    /\ supervised' = FALSE
    /\ UNCHANGED <<platform, service, proc, stuck, sick, paused, upgrading,
                   beat, marks, watch, cmd, events>>

Older(age, n, oldest) ==
    IF age = Null THEN Null ELSE IF age + n > oldest THEN oldest ELSE age + n

\* n periods pass, in which the given loops finished cycles.
Pass(n, live) ==
    /\ beat' = [l \in Loops |-> IF l \in live THEN 0
                                ELSE Older(beat[l], n, WEDGE_STALE + 1)]
    /\ ledger' = [ledger EXCEPT !.seen = @ \ live,
                                !.last = Older(@, n, RESCUE_RATE_CAP),
                                !.run = Older(@, n, RESUME_GAP_THRESHOLD + 1)]
    /\ cycled' = cycled \cup live
    /\ due' = TRUE
    /\ UNCHANGED <<platform, service, process, marks, rescue, rescued, cmd>>

\* A period passes.  The watchdog has run in it, and every healthy loop, whose
\* interval is far below 15 minutes, has just finished a cycle.
Tick ==
    /\ rescue.pc = "idle" /\ cmd = "none"
    /\ watchdog => ~due
    /\ Pass(1, IF proc = "up" /\ ~paused THEN Loops \ stuck ELSE {})
    /\ UNCHANGED events

\* The machine sleeps n periods: nothing runs, the clock goes on.
Sleep(n) ==
    /\ rescue.pc = "idle" /\ cmd = "none" /\ Happens
    /\ Pass(n, {})

\* Every process ends; what is registered is launched again at login (launchd
\* loads the unit files it finds), under a new boot id.
Reboot ==
    /\ Happens
    /\ registered' = IF platform = "launchd" THEN unit ELSE registered
    /\ proc' = IF registered' THEN "boot" ELSE "down"
    /\ supervised' = registered'
    /\ stuck' = {}
    /\ sentinel' = IF sentinel = "this" THEN "old" ELSE sentinel
    /\ userStopped' = FALSE
    /\ ledger' = [ledger EXCEPT !.boot = "old"]
    /\ rescue' = IdleRescue /\ due' = TRUE /\ launches' = 0 /\ lost' = 0
    /\ cmd' = "none"
    /\ UNCHANGED <<platform, config, unit, watchdog, sick, paused, upgrading,
                   beat, cycled>>

-----------------------------------------------------------------------------
(* The user's commands, one at a time, in the steps other actors see.      *)

\* stop: the sentinel first, then the service, if it is registered.
StopWrite ==
    /\ cmd = "none" /\ Happens
    /\ cmd' = "stop" /\ sentinel' = "this"
    /\ UNCHANGED <<platform, service, process, beat, userStopped, watch>>

StopService ==
    /\ cmd = "stop"
    /\ IF Registered THEN Halt ELSE UNCHANGED <<registered, proc, stuck, supervised>>
    /\ cmd' = "none"
    /\ userStopped' = (sentinel = "this" /\ (userStopped \/ Registered))
    /\ UNCHANGED <<platform, config, unit, watchdog, sick, paused, upgrading, beat,
                   sentinel, watch, events>>

\* start, restart and setup: the sentinel goes, a missing unit is written again.
StartClear(name) ==
    /\ cmd = "none" /\ Happens
    /\ config \/ name = "setup"
    /\ config' = TRUE /\ EnsureUnit
    /\ sentinel' = "none" /\ userStopped' = FALSE
    /\ paused' = (paused /\ name # "setup")
    /\ cmd' = name
    /\ UNCHANGED <<platform, registered, watchdog, proc, supervised, stuck, sick,
                   upgrading, beat, watch>>

StartService ==
    /\ cmd \in {"start", "restart", "setup"}
    /\ Launch(cmd = "restart")
    /\ IF cmd = "restart" THEN UNCHANGED watchdog ELSE EnsureWatchdog
    /\ cmd' = "none"
    /\ UNCHANGED <<platform, config, unit, sick, paused, upgrading, beat, marks,
                   watch, events>>

\* start updates the binary before it launches anything; when an update was
\* installed the command exits there.
StartUpgradeExit ==
    /\ cmd = "start"
    /\ cmd' = "none"
    /\ UNCHANGED <<platform, service, process, beat, marks, watch, events>>

\* setup reset: the service goes, then the unit, the configuration and the
\* sentinels.  The watchdog stays.
SetupReset ==
    /\ cmd = "none" /\ config /\ Happens
    /\ proc' = "down" /\ stuck' = {} /\ supervised' = FALSE
    /\ registered' = FALSE /\ unit' = FALSE /\ config' = FALSE
    /\ paused' = FALSE /\ sentinel' = "none" /\ userStopped' = FALSE
    /\ UNCHANGED <<platform, watchdog, sick, upgrading, beat, watch, cmd>>

\* A rescue that has launched the daemon and has not written its attempt down.
Unrecorded == IF rescue.pc = "write" /\ rescue.decision \in Attempts THEN 1 ELSE 0

\* uninstall: the watchdog goes first (launchd ends its running job with it),
\* then the service, the unit and, with --reset, everything that was written.
UninstallWatchdog ==
    /\ cmd = "none" /\ Happens
    /\ config \/ unit \/ Registered
    /\ cmd' = "uninstall" /\ watchdog' = FALSE
    /\ rescue' = IF platform = "launchd" THEN IdleRescue ELSE rescue
    /\ lost' = IF platform = "launchd" THEN lost + Unrecorded ELSE lost
    /\ UNCHANGED <<platform, config, unit, registered, process, beat, marks, ledger,
                   due, cycled, launches>>

UninstallStop ==
    /\ cmd = "uninstall"
    /\ Halt
    /\ cmd' = "unregister"
    /\ UNCHANGED <<platform, config, unit, watchdog, sick, paused, upgrading, beat,
                   marks, watch, events>>

\* With the ledger goes what a rescue would have read of it.
UninstallRemove(reset) ==
    /\ cmd = "unregister"
    /\ registered' = FALSE /\ unit' = FALSE
    /\ config' = (config /\ ~reset)
    /\ paused' = (paused /\ ~reset) /\ upgrading' = (upgrading /\ ~reset)
    /\ sentinel' = IF reset THEN "none" ELSE sentinel
    /\ userStopped' = (userStopped /\ ~reset)
    /\ ledger' = IF reset THEN FreshLedger ELSE ledger
    /\ beat' = IF reset THEN [l \in Loops |-> Null] ELSE beat
    /\ rescue' = IF reset THEN [rescue EXCEPT !.seen = {}] ELSE rescue
    /\ launches' = IF reset THEN 0 ELSE launches
    /\ lost' = IF reset THEN 0 ELSE lost
    /\ cmd' = "none"
    /\ UNCHANGED <<platform, watchdog, proc, supervised, stuck, sick, due, cycled,
                   events>>

-----------------------------------------------------------------------------
(* The rescue command.                                                     *)

RescueLook ==
    /\ watchdog /\ due /\ rescue.pc = "idle"
    /\ rescue' = [IdleRescue EXCEPT
                    !.pc = "session", !.config = config, !.registered = Registered,
                    !.running = proc # "down", !.beat = beat, !.paused = paused,
                    !.seen = IF ledger.boot = "this" THEN ledger.seen ELSE {},
                    !.unmoved = Loops \ cycled]
    /\ due' = FALSE
    /\ cycled' = {}
    /\ UNCHANGED <<platform, service, process, beat, marks, ledger, rescued, cmd,
                   events>>

\* The same self-clearing read of the sentinel as in run.
RescueSession ==
    /\ rescue.pc = "session"
    /\ rescue' = [rescue EXCEPT !.stopped = sentinel = "this",
                                !.pc = IF sentinel = "old" THEN "clear" ELSE "judge"]
    /\ UNCHANGED <<platform, service, process, beat, marks, ledger, due, cycled,
                   rescued, cmd, events>>

RescueClear ==
    /\ rescue.pc = "clear"
    /\ sentinel' = "none" /\ userStopped' = FALSE
    /\ rescue' = [rescue EXCEPT !.pc = "judge"]
    /\ UNCHANGED <<platform, service, process, beat, ledger, due, cycled, rescued,
                   cmd, events>>

\* A ledger of another boot is read as a fresh one, and written so.
ReadLedger == IF ledger.boot = "this" THEN ledger ELSE FreshLedger

\* Mutant: any earlier attempt holds the next one back, however old.
RateCappedForEver(l) == l.last # Null
RateCapped(l) == l.last # Null /\ l.last < RESCUE_RATE_CAP

\* Mutant: the machine's sleep goes unnoticed.
LikelyResumedNever(l) == FALSE
LikelyResumed(l) == l.run # Null /\ l.run > RESUME_GAP_THRESHOLD

\* No cycle was ever recorded, or the latest one is too long ago.
SustainedDown(r) ==
    \A l \in Loops : r.beat[l] = Null \/ r.beat[l] > SUSTAINED_DOWN

\* The loop's last cycle is old and the last rescue already saw the same one.
Wedged(r, l) == r.beat[l] > WEDGE_STALE /\ l \in r.seen

\* Mutant: the breaker trips one failure too late.
DecideLate(r, l, upgradeInProgress) ==
    IF ~r.config THEN "not-configured"
    ELSE IF ~r.registered THEN "not-registered"
    ELSE IF r.stopped THEN "user-stopped"
    ELSE IF upgradeInProgress THEN "upgrading"
    ELSE IF l.fails > MAX_CONSECUTIVE_FAILURES THEN "circuit-broken"
    ELSE IF RateCapped(l) THEN "rate-capped"
    ELSE IF ~r.running THEN IF SustainedDown(r) THEN "start" ELSE "healthy"
    ELSE IF r.paused THEN "paused"
    ELSE IF LikelyResumed(l) THEN "healthy"
    ELSE IF \E loop \in Loops : Wedged(r, loop) THEN "restart"
    ELSE "healthy"

\* The early returns of decideRescue, in their order.
Decide(r, l, upgradeInProgress) ==
    IF ~r.config THEN "not-configured"
    ELSE IF ~r.registered THEN "not-registered"
    ELSE IF r.stopped THEN "user-stopped"
    ELSE IF upgradeInProgress THEN "upgrading"
    ELSE IF l.fails >= MAX_CONSECUTIVE_FAILURES THEN "circuit-broken"
    ELSE IF RateCapped(l) THEN "rate-capped"
    ELSE IF ~r.running THEN IF SustainedDown(r) THEN "start" ELSE "healthy"
    ELSE IF r.paused THEN "paused"
    ELSE IF LikelyResumed(l) THEN "healthy"
    ELSE IF \E loop \in Loops : Wedged(r, loop) THEN "restart"
    ELSE "healthy"

\* What else was read is not needed any more.
RescueJudge ==
    /\ rescue.pc = "judge"
    /\ ledger' = ReadLedger
    /\ LET d == Decide(rescue, ReadLedger, upgrading) IN
       rescue' = [IdleRescue EXCEPT !.decision = d, !.draft = ReadLedger,
                                    !.beat = rescue.beat, !.unmoved = rescue.unmoved,
                                    !.pc = IF d \in Attempts THEN "act" ELSE "write"]
    /\ UNCHANGED <<platform, service, process, beat, marks, due, cycled, rescued,
                   cmd, events>>

\* Mutant: the attempt is timed but not counted.
RecordAttemptUncounted(l) == [l EXCEPT !.last = 0]

\* The attempt is counted in the ledger's copy, then the service is called.
RecordAttempt(l) ==
    [l EXCEPT !.fails = IF l.last = Null THEN @ ELSE @ + 1, !.last = 0]

RescueAct ==
    /\ rescue.pc = "act" /\ CanLaunch
    /\ Launch(rescue.decision = "restart")
    /\ launches' = launches + 1
    /\ rescue' = [rescue EXCEPT !.draft = RecordAttempt(@), !.pc = "write"]
    /\ UNCHANGED <<platform, config, unit, watchdog, sick, paused, upgrading, beat,
                   marks, ledger, due, cycled, lost, cmd, events>>

\* The service manager's command fails: rescue ends without writing the ledger.
RescueActFails ==
    /\ rescue.pc = "act"
    /\ IF CanLaunch THEN Happens ELSE UNCHANGED events
    /\ rescue' = IdleRescue
    /\ UNCHANGED <<platform, service, process, beat, marks, ledger, due, cycled,
                   rescued, cmd>>

MarkDaemonHealthy(l) == [l EXCEPT !.fails = 0, !.last = Null]

\* Mutant: the last cycles observed are not written.
RescueWriteForgetful ==
    /\ rescue.pc = "write"
    /\ LET healthy == rescue.decision = "healthy"
           marked == IF healthy THEN MarkDaemonHealthy(rescue.draft) ELSE rescue.draft
       IN  /\ ledger' = [marked EXCEPT !.run = 0, !.seen = {}]
           /\ launches' = IF healthy THEN 0 ELSE launches
           /\ lost' = IF healthy THEN 0 ELSE lost
    /\ rescue' = IdleRescue
    /\ UNCHANGED <<platform, service, process, beat, marks, due, cycled, cmd, events>>

\* Every decision ends with what was observed being written to the ledger.
RescueWrite ==
    /\ rescue.pc = "write"
    /\ LET healthy == rescue.decision = "healthy"
           marked == IF healthy THEN MarkDaemonHealthy(rescue.draft) ELSE rescue.draft
       IN  /\ ledger' = [marked EXCEPT
                           !.run = 0,
                           !.seen = {l \in Loops \ cycled : rescue.beat[l] # Null}]
           /\ launches' = IF healthy THEN 0 ELSE launches
           /\ lost' = IF healthy THEN 0 ELSE lost
    /\ rescue' = IdleRescue
    /\ UNCHANGED <<platform, service, process, beat, marks, due, cycled, cmd, events>>

\* The command is killed, or the ledger cannot be written, which is only logged.  A
\* launch of the daemon comes before the writing and is then in no ledger.
RescueDies ==
    /\ rescue.pc # "idle" /\ Happens
    /\ rescue' = IdleRescue
    /\ lost' = lost + Unrecorded
    /\ UNCHANGED <<platform, service, process, beat, marks, ledger, due, cycled,
                   launches, cmd>>

-----------------------------------------------------------------------------
RescueStep == \/ RescueLook \/ RescueSession \/ RescueClear \/ RescueJudge
              \/ RescueAct \/ RescueActFails \/ RescueWrite

BootStep == BootPrepare \/ BootCheckSession \/ BootClearSession

CommandEnds == \/ StopService \/ StartService \/ StartUpgradeExit \/ UninstallStop
               \/ \E reset \in BOOLEAN : UninstallRemove(reset)

Command == \/ StopWrite \/ SetupReset \/ UninstallWatchdog \/ CommandEnds
           \/ \E name \in {"start", "restart", "setup"} : StartClear(name)

Daemon == \/ BootStep \/ Crash \/ Pause \/ Unpause \/ BeginUpgrade \/ EndUpgrade
          \/ \E l \in Loops : Wedge(l) \/ Recover(l)

Machine == \/ Relaunch \/ GiveUp \/ Tick \/ Reboot \/ RescueDies
           \/ \E n \in WEDGE_STALE .. WEDGE_STALE + 1 : Sleep(n)

RescueNext == RescueStep \/ Command \/ Daemon \/ Machine

\* The timer fires every period, loops and commands come to an end, processes
\* start; nothing is promised about faults, the user or the supervisor.
RescueFairness ==
    /\ WF_rescueVars(RescueStep)
    /\ WF_rescueVars(BootStep)
    /\ WF_rescueVars(CommandEnds)
    /\ WF_rescueVars(Tick)

RescueSpec == RescueInit /\ [][RescueNext]_rescueVars /\ RescueFairness

-----------------------------------------------------------------------------
Ledgers == [fails : 0 .. MAX_CONSECUTIVE_FAILURES, last : Ages, run : Ages,
            seen : SUBSET Loops, boot : {"this", "old"}]

Decisions == Attempts \cup {"none", "healthy", "paused", "user-stopped", "upgrading",
              "not-configured", "not-registered", "rate-capped", "circuit-broken"}

\* Every variable keeps to the values named where it is declared.
RescueTypeOK ==
    /\ platform \in Platforms
    /\ config \in BOOLEAN /\ unit \in BOOLEAN /\ registered \in BOOLEAN
    /\ watchdog \in BOOLEAN /\ supervised \in BOOLEAN /\ sick \in BOOLEAN
    /\ paused \in BOOLEAN /\ upgrading \in BOOLEAN /\ due \in BOOLEAN
    /\ userStopped \in BOOLEAN
    /\ proc \in {"down", "boot", "prepared", "clearing", "up"}
    /\ stuck \subseteq Loops /\ cycled \subseteq Loops
    /\ beat \in [Loops -> Ages]
    /\ sentinel \in {"none", "this", "old"}
    /\ ledger \in Ledgers /\ rescue.draft \in Ledgers
    /\ rescue.decision \in Decisions
    /\ cmd \in {"none", "stop", "start", "restart", "setup", "uninstall", "unregister"}
    /\ launches \in Nat /\ lost \in Nat /\ events \in 0 .. MaxEvents

\* A daemon the user stopped does not run while the stop stands, whoever launched
\* a process meanwhile: a rescue that had read the sentinel before the user wrote
\* it, the supervisor, or a start the user has not asked for.  (A stop whose fresh
\* sentinel was removed in place of an old one stands no longer.)
StopHolds == userStopped => proc # "up"

\* Between two healthy verdicts, and within a boot, the watchdog launches the
\* daemon at most once more than the failures that trip the breaker, but for the
\* launches that never came into the ledger (the command was killed after them, or
\* the ledger could not be written): a daemon that can never run is not restarted
\* for ever by a watchdog that can write down what it does.  A lost attempt costs
\* one launch more and does not make the breaker forget the ones it has counted.
BoundedLaunches == launches <= MAX_CONSECUTIVE_FAILURES + 1 + lost

\* The watchdog replaces a running daemon only when one of its loops has finished
\* no cycle between the last two runs of the watchdog in this boot, and these are not
\* so far apart that the machine must have slept: neither the first look after a boot
\* or a sleep, nor one stale time read twice, is enough.
RestartsOnlyUnmoved ==
    [][rescue.pc = "act" /\ rescue'.pc = "write" /\ rescue.decision = "restart"
         => /\ rescue.unmoved # {}
            /\ rescue.draft.run \in 0 .. RESUME_GAP_THRESHOLD]_rescueVars

\* A configured daemon that lies dead, unstopped and given up by its supervisor,
\* is launched again, and one whose loop hangs after it once finished a cycle is
\* replaced, unless it recovers or the breaker, an upgrade, a pause or the user
\* keeps the watchdog from interfering.
Served == config /\ Registered /\ watchdog /\ cmd = "none" /\ ~upgrading
          /\ ReadLedger.fails < MAX_CONSECUTIVE_FAILURES
Abandoned == Served /\ proc = "down" /\ ~supervised /\ sentinel # "this"
Stalled ==
    Served /\ proc = "up" /\ sentinel = "none" /\ ~paused /\ \E l \in stuck : beat[l] # Null
RescueComes == (Abandoned ~> ~Abandoned) /\ (Stalled ~> ~Stalled)

=============================================================================
