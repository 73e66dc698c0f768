--------------------------- MODULE ServiceProofs ---------------------------
(***************************************************************************)
(* Proofs about the daemon as a service: the rescue watchdog, which starts *)
(* it again, the coordinated upgrade, the move of a profile's files into   *)
(* prod/, and the commands that write config.toml.  They hold for any      *)
(* number of events, releases, faults, restarts, resets, commands and      *)
(* edits, and for every limit on failures and attempts.                    *)
(***************************************************************************)
EXTENDS MCServiceLifecycle, Sequences, TLAPS

-----------------------------------------------------------------------------
(* RescueWatchdog.  Three facts carry the properties: a stop that stands   *)
(* has its sentinel and no process that has passed the sentinel; every     *)
(* launch of the watchdog since the last healthy verdict is in the ledger, *)
(* in the copy that is about to become the ledger, or among the lost ones; *)
(* and a loop the ledger has seen has finished no cycle since.             *)

USE RescueAssumption

\* What the rescue command remembers between two of its steps.
Rescues == [pc : {"idle", "session", "clear", "judge", "act", "write"},
            config : BOOLEAN, registered : BOOLEAN, running : BOOLEAN,
            beat : [Loops -> Ages], seen : SUBSET Loops, paused : BOOLEAN,
            stopped : BOOLEAN, draft : Ledgers, decision : Decisions,
            unmoved : SUBSET Loops]

\* No process that will not look at the sentinel any more outlives a stop.
StopStands == userStopped => sentinel = "this" /\ proc \notin {"clearing", "up"}

\* The launches a ledger knows of: the first attempt is no failure yet.
Known(l) == IF l.last = Null THEN 0 ELSE l.fails + 1
Counted(l) == launches <= Known(l) + lost

AttemptsCounted ==
    /\ launches <= Known(ReadLedger) + lost + Unrecorded
    /\ rescue.pc \in {"act", "write"} => Counted(rescue.draft) /\ rescue.draft.boot = "this"
    /\ rescue.pc = "act" => rescue.draft.fails < MAX_CONSECUTIVE_FAILURES

\* What the ledger has seen is still the loop's last cycle, and it was written by a
\* watchdog that ran in this boot; so a restart is decided about a loop that stands still.
SeenUnmoved ==
    /\ ledger.seen \cap cycled = {}
    /\ ledger.seen # {} => ledger.run # Null
    /\ rescue.seen \subseteq rescue.unmoved
    /\ rescue.seen # {} => ledger.boot = "this" /\ ledger.run # Null
    /\ rescue.pc = "act" => rescue.decision \in Attempts
    /\ rescue.pc = "act" /\ rescue.decision = "restart" =>
         rescue.unmoved # {} /\ rescue.draft.run \in 0 .. RESUME_GAP_THRESHOLD

\* RescueTypeOK in three parts, with all of what rescue remembers.
FlagTypes ==
    /\ config \in BOOLEAN /\ unit \in BOOLEAN /\ registered \in BOOLEAN
    /\ watchdog \in BOOLEAN /\ supervised \in BOOLEAN /\ sick \in BOOLEAN
    /\ paused \in BOOLEAN /\ upgrading \in BOOLEAN /\ due \in BOOLEAN
    /\ userStopped \in BOOLEAN

PlaceTypes ==
    /\ platform \in Platforms
    /\ proc \in {"down", "boot", "prepared", "clearing", "up"}
    /\ stuck \subseteq Loops
    /\ sentinel \in {"none", "this", "old"}
    /\ cmd \in {"none", "stop", "start", "restart", "setup", "uninstall", "unregister"}
    /\ events \in 0 .. MaxEvents

MemoryTypes ==
    /\ beat \in [Loops -> Ages] /\ ledger \in Ledgers /\ rescue \in Rescues
    /\ cycled \subseteq Loops /\ launches \in Nat /\ lost \in Nat

Types == FlagTypes /\ PlaceTypes /\ MemoryTypes

RescueInv ==
    /\ Types
    /\ StopStands /\ AttemptsCounted /\ SeenUnmoved

-----------------------------------------------------------------------------
(* The steps that leave the watchdog's own memory alone.                   *)

QuietStep ==
    \/ BootStep \/ Crash \/ Pause \/ Unpause \/ BeginUpgrade \/ EndUpgrade
    \/ \E l \in Loops : Wedge(l)
    \/ Relaunch \/ GiveUp
    \/ StopWrite \/ StopService \/ SetupReset \/ StartService \/ StartUpgradeExit
    \/ UninstallStop \/ \E name \in {"start", "restart", "setup"} : StartClear(name)

LEMMA QuietFrame == QuietStep => UNCHANGED watch
<1> SUFFICES ASSUME QuietStep PROVE UNCHANGED watch
  OBVIOUS
<1>1. CASE BootStep
  BY <1>1 DEF BootStep, BootPrepare, BootCheckSession, BootClearSession, watch
<1>2. CASE Crash \/ Pause \/ Unpause \/ BeginUpgrade \/ EndUpgrade
  BY <1>2 DEF Crash, Pause, Unpause, BeginUpgrade, EndUpgrade
<1>3. CASE \E l \in Loops : Wedge(l)
  BY <1>3 DEF Wedge
<1>4. CASE Relaunch \/ GiveUp \/ StopWrite \/ StopService
  BY <1>4 DEF Relaunch, GiveUp, StopWrite, StopService
<1>5. CASE SetupReset \/ StartService \/ StartUpgradeExit \/ UninstallStop
  BY <1>5 DEF SetupReset, StartService, StartUpgradeExit, UninstallStop
<1>6. CASE \E name \in {"start", "restart", "setup"} : StartClear(name)
  BY <1>6 DEF StartClear
<1> QED
  BY <1>1, <1>2, <1>3, <1>4, <1>5, <1>6 DEF QuietStep

\* Every step is quiet, or one of those that write the watchdog's memory.
LEMMA StepKinds ==
  RescueNext =>
    \/ QuietStep \/ Tick \/ Reboot \/ UninstallWatchdog
    \/ \E n \in WEDGE_STALE .. WEDGE_STALE + 1 : Sleep(n)
    \/ \E l \in Loops : Recover(l)
    \/ \E reset \in BOOLEAN : UninstallRemove(reset)
    \/ RescueLook \/ RescueSession \/ RescueClear \/ RescueJudge \/ RescueAct
    \/ RescueActFails \/ RescueWrite \/ RescueDies
  BY DEF RescueNext, RescueStep, Command, CommandEnds, Daemon, Machine, QuietStep

-----------------------------------------------------------------------------
(* The data the watchdog computes with.                                    *)

LEMMA OlderType ==
  ASSUME NEW age \in Ages, NEW n \in Nat, NEW oldest \in 0 .. RESCUE_RATE_CAP
  PROVE  Older(age, n, oldest) \in Ages /\ (Older(age, n, oldest) = Null <=> age = Null)
  BY DEF Older, Ages, Null, RESCUE_RATE_CAP

LEMMA FreshTypes == FreshLedger \in Ledgers /\ IdleRescue \in Rescues
<1>1. FreshLedger \in Ledgers
  BY DEF FreshLedger, Ledgers, Ages, Null, MAX_CONSECUTIVE_FAILURES
<1>2. [l \in Loops |-> Null] \in [Loops -> Ages]
  BY DEF Ages
<1> QED
  BY <1>1, <1>2 DEF IdleRescue, Rescues, Decisions

LEMMA UnrecordedType == Unrecorded \in {0, 1} /\ Unrecorded' \in {0, 1}
  BY DEF Unrecorded

LEMMA ReadLedgerType == ASSUME ledger \in Ledgers PROVE ReadLedger \in Ledgers
  BY FreshTypes DEF ReadLedger

\* A rescue is attempted only while the breaker has not tripped, and a restart only for
\* a loop that was seen before.
LEMMA DecideFacts ==
  ASSUME NEW r \in Rescues, NEW l \in Ledgers, NEW u \in BOOLEAN
  PROVE  /\ Decide(r, l, u) \in Decisions
         /\ Decide(r, l, u) \in Attempts => l.fails < MAX_CONSECUTIVE_FAILURES
         /\ Decide(r, l, u) = "restart" => r.seen # {}
<1>1. l.fails \in 0 .. MAX_CONSECUTIVE_FAILURES
  BY DEF Ledgers
<1>2. Decide(r, l, u) \in Decisions
  BY DEF Decide, Decisions, Attempts
<1>3. ASSUME Decide(r, l, u) \in Attempts PROVE l.fails < MAX_CONSECUTIVE_FAILURES
  BY <1>1, <1>3 DEF Decide, Attempts, MAX_CONSECUTIVE_FAILURES
<1>4. ASSUME Decide(r, l, u) = "restart" PROVE r.seen # {}
  <2>1. \E loop \in Loops : Wedged(r, loop)
    BY <1>4 DEF Decide
  <2> QED
    BY <2>1 DEF Wedged
<1> QED
  BY <1>2, <1>3, <1>4

\* An attempt is a failure of the one before it, if there was one.
LEMMA RecordAttemptFacts ==
  ASSUME NEW l \in Ledgers, l.fails < MAX_CONSECUTIVE_FAILURES
  PROVE  /\ RecordAttempt(l) \in Ledgers
         /\ RecordAttempt(l).last = 0 /\ RecordAttempt(l).boot = l.boot
         /\ RecordAttempt(l).fails = IF l.last = Null THEN l.fails ELSE l.fails + 1
<1>1. /\ l.fails \in 0 .. MAX_CONSECUTIVE_FAILURES /\ 0 \in Ages
      /\ l.fails + 1 \in 0 .. MAX_CONSECUTIVE_FAILURES
  BY DEF Ledgers, Ages, RESCUE_RATE_CAP, MAX_CONSECUTIVE_FAILURES
<1> DEFINE fails == IF l.last = Null THEN l.fails ELSE l.fails + 1
<1>2. fails \in 0 .. MAX_CONSECUTIVE_FAILURES
  BY <1>1
<1>3. RecordAttempt(l) = [l EXCEPT !.fails = fails, !.last = 0]
  BY DEF RecordAttempt
<1> HIDE DEF fails
<1> QED
  BY <1>1, <1>2, <1>3 DEF Ledgers, fails

\* What is written at the end: the copy, marked healthy if it is.
LEMMA WrittenFacts ==
  ASSUME RescueWrite, rescue.draft \in Ledgers
  PROVE  /\ ledger' \in Ledgers /\ ledger'.run # Null /\ ledger'.seen \subseteq Loops \ cycled
         /\ ledger'.boot = rescue.draft.boot
         /\ \/ ledger'.fails = rescue.draft.fails /\ ledger'.last = rescue.draft.last
               /\ launches' = launches /\ lost' = lost
            \/ launches' = 0 /\ lost' = 0
<1> DEFINE healthy == rescue.decision = "healthy"
           marked == IF healthy THEN MarkDaemonHealthy(rescue.draft) ELSE rescue.draft
           seen == {l \in Loops \ cycled : rescue.beat[l] # Null}
<1>1. /\ ledger' = [marked EXCEPT !.run = 0, !.seen = seen]
      /\ launches' = IF healthy THEN 0 ELSE launches
      /\ lost' = IF healthy THEN 0 ELSE lost
  BY DEF RescueWrite
<1>2. /\ marked \in Ledgers /\ marked.boot = rescue.draft.boot
      /\ ~healthy => marked = rescue.draft
  <2>1. Null \in Ages /\ 0 \in 0 .. MAX_CONSECUTIVE_FAILURES
    BY DEF Ages, MAX_CONSECUTIVE_FAILURES
  <2>2. /\ MarkDaemonHealthy(rescue.draft) \in Ledgers
        /\ MarkDaemonHealthy(rescue.draft).boot = rescue.draft.boot
    BY <2>1 DEF MarkDaemonHealthy, Ledgers
  <2> QED
    BY <2>2
<1>3. seen \subseteq Loops \ cycled /\ 0 \in Ages /\ 0 # Null
  BY DEF Ages, RESCUE_RATE_CAP, Null
<1> HIDE DEF healthy, marked, seen
<1>4. /\ ledger' \in Ledgers /\ ledger'.run = 0 /\ ledger'.seen = seen
      /\ ledger'.fails = marked.fails /\ ledger'.last = marked.last
      /\ ledger'.boot = marked.boot
  BY <1>1, <1>2, <1>3 DEF Ledgers
<1> QED
  BY <1>1, <1>2, <1>3, <1>4

-----------------------------------------------------------------------------
(* Types.                                                                  *)

LEMMA TypesSuffice == Types => RescueTypeOK
<1> SUFFICES ASSUME Types PROVE RescueTypeOK
  OBVIOUS
<1>1. rescue.draft \in Ledgers /\ rescue.decision \in Decisions
  BY DEF Types, MemoryTypes, Rescues
<1> QED
  BY <1>1 DEF Types, FlagTypes, PlaceTypes, MemoryTypes, RescueTypeOK

LEMMA TypeInit == RescueInit => Types
<1> SUFFICES ASSUME RescueInit PROVE Types
  OBVIOUS
<1>1. MemoryTypes
  <2>1. beat \in [Loops -> Ages]
    BY DEF RescueInit, Ages
  <2> QED
    BY <2>1, FreshTypes DEF RescueInit, MemoryTypes
<1>2. FlagTypes
  BY DEF RescueInit, FlagTypes
<1>3. PlaceTypes
  BY DEF RescueInit, PlaceTypes
<1> QED
  BY <1>1, <1>2, <1>3 DEF Types

\* What a service manager does to the daemon's process keeps the types.
LEMMA LaunchType ==
  ASSUME Types, NEW kill \in BOOLEAN, Launch(kill)
  PROVE  /\ registered' \in BOOLEAN /\ supervised' \in BOOLEAN
         /\ proc' \in {"down", "boot", "prepared", "clearing", "up"} /\ stuck' \subseteq Loops
  BY DEF Launch, Types, PlaceTypes

LEMMA HaltType ==
  ASSUME Types, Halt
  PROVE  /\ registered' \in BOOLEAN /\ supervised' = FALSE /\ proc' = "down" /\ stuck' = {}
<1>1. registered \in BOOLEAN /\ platform \in {"launchd", "systemd", "schtasks"}
  BY DEF Types, FlagTypes, PlaceTypes
<1>2. CASE platform = "launchd"
  BY <1>2 DEF Halt, LaunchctlStops
<1>3. CASE platform = "systemd"
  BY <1>1, <1>3 DEF Halt, SystemctlStops
<1>4. CASE platform = "schtasks"
  BY <1>1, <1>4 DEF Halt, SchtasksStops
<1> QED
  BY <1>1, <1>2, <1>3, <1>4

LEMMA HappensType == ASSUME Types, Happens PROVE events' \in 0 .. MaxEvents
  BY DEF Types, PlaceTypes, Happens

\* Quiet steps: the daemon, its sentinels and files, and the commands.
LEMMA QuietFlags == ASSUME Types, QuietStep PROVE FlagTypes'
<1>1. FlagTypes /\ due' = due
  BY QuietFrame DEF Types, watch
<1> USE DEF FlagTypes
<1>2. CASE BootStep
  <2>1. CASE BootPrepare
    BY <1>1, <2>1 DEF BootPrepare, EnsureWatchdog, marks
  <2>2. CASE BootCheckSession
    BY <1>1, <2>2 DEF BootCheckSession, service, marks
  <2>3. CASE BootClearSession
    BY <1>1, <2>3 DEF BootClearSession, service
  <2> QED
    BY <1>2, <2>1, <2>2, <2>3 DEF BootStep
<1>3. CASE Crash \/ Pause \/ Unpause \/ BeginUpgrade \/ EndUpgrade
  <2>1. CASE Crash
    BY <1>1, <2>1 DEF Crash, service, marks
  <2>2. CASE Pause
    BY <1>1, <2>2 DEF Pause, service, marks
  <2>3. CASE Unpause
    BY <1>1, <2>3 DEF Unpause, service, marks
  <2>4. CASE BeginUpgrade
    BY <1>1, <2>4 DEF BeginUpgrade, service, marks
  <2>5. CASE EndUpgrade
    BY <1>1, <2>5 DEF EndUpgrade, service, marks
  <2> QED
    BY <1>3, <2>1, <2>2, <2>3, <2>4, <2>5
<1>4. CASE \E l \in Loops : Wedge(l)
  <2>1. PICK l \in Loops : Wedge(l)
    BY <1>4
  <2> QED
    BY <1>1, <2>1 DEF Wedge, service, process, marks
<1>5. CASE Relaunch \/ GiveUp
  <2>1. CASE Relaunch
    BY <1>1, <2>1 DEF Relaunch, service, marks
  <2>2. CASE GiveUp
    BY <1>1, <2>2 DEF GiveUp, service, marks
  <2> QED
    BY <1>5, <2>1, <2>2
<1>6. CASE StopWrite \/ SetupReset \/ StartUpgradeExit
  <2>1. CASE StopWrite
    BY <1>1, <2>1 DEF StopWrite, service, process, marks
  <2>2. CASE SetupReset
    BY <1>1, <2>2 DEF SetupReset, service, process, marks
  <2>3. CASE StartUpgradeExit
    BY <1>1, <2>3 DEF StartUpgradeExit, service, process, marks
  <2> QED
    BY <1>6, <2>1, <2>2, <2>3
<1>7. CASE StopService
  <2>1. userStopped' \in BOOLEAN
    BY <1>7 DEF StopService
  <2>2. registered' \in BOOLEAN /\ supervised' \in BOOLEAN
    BY <1>1, <1>7, HaltType DEF StopService
  <2> QED
    BY <1>1, <1>7, <2>1, <2>2 DEF StopService
<1>8. CASE StartService
  <2>1. registered' \in BOOLEAN /\ supervised' \in BOOLEAN
    BY <1>8, LaunchType DEF StartService
  <2> QED
    BY <1>1, <1>8, <2>1 DEF StartService, EnsureWatchdog, marks
<1>9. CASE UninstallStop
  BY <1>1, <1>9, HaltType DEF UninstallStop, marks
<1>10. CASE \E name \in {"start", "restart", "setup"} : StartClear(name)
  BY <1>1, <1>10 DEF StartClear, EnsureUnit
<1> QED
  BY <1>2, <1>3, <1>4, <1>5, <1>6, <1>7, <1>8, <1>9, <1>10 DEF QuietStep

LEMMA QuietPlaces == ASSUME Types, QuietStep PROVE PlaceTypes'
<1>1. PlaceTypes
  BY DEF Types
<1> USE DEF PlaceTypes
<1>2. CASE BootStep
  BY <1>1, <1>2 DEF BootStep, BootPrepare, BootCheckSession, BootClearSession, process, marks
<1>3. CASE Crash \/ Pause \/ Unpause \/ BeginUpgrade \/ EndUpgrade
  BY <1>1, <1>3, HappensType DEF Crash, Pause, Unpause, BeginUpgrade, EndUpgrade, marks
<1>4. CASE \E l \in Loops : Wedge(l)
  BY <1>1, <1>4, HappensType DEF Wedge, marks
<1>5. CASE Relaunch \/ GiveUp
  BY <1>1, <1>5 DEF Relaunch, GiveUp, marks
<1>6. CASE StopWrite \/ SetupReset \/ StartUpgradeExit
  BY <1>1, <1>6, HappensType DEF StopWrite, SetupReset, StartUpgradeExit, process, marks
<1>7. CASE StopService
  BY <1>1, <1>7, HaltType DEF StopService
<1>8. CASE StartService
  BY <1>1, <1>8, LaunchType DEF StartService, marks
<1>9. CASE UninstallStop
  BY <1>1, <1>9, HaltType DEF UninstallStop, marks
<1>10. CASE \E name \in {"start", "restart", "setup"} : StartClear(name)
  BY <1>1, <1>10, HappensType DEF StartClear
<1> QED
  BY <1>2, <1>3, <1>4, <1>5, <1>6, <1>7, <1>8, <1>9, <1>10 DEF QuietStep

LEMMA QuietMemory == ASSUME Types, QuietStep PROVE MemoryTypes'
<1>1. UNCHANGED <<ledger, rescue, due, cycled, launches, lost>>
  BY QuietFrame DEF watch, rescued
<1>2. beat' = beat
  BY DEF QuietStep, BootStep, BootPrepare, BootCheckSession, BootClearSession, Crash, Pause,
         Unpause, BeginUpgrade, EndUpgrade, Wedge, Relaunch, GiveUp, StopWrite, SetupReset,
         StartUpgradeExit, StopService, StartService, UninstallStop, StartClear
<1> QED
  BY <1>1, <1>2 DEF Types, MemoryTypes

\* The passing of time makes recorded instants older and takes away what has changed.
LEMMA PassFacts ==
  ASSUME Types, NEW n \in Nat, NEW live \in SUBSET Loops, Pass(n, live)
  PROVE  /\ beat' \in [Loops -> Ages] /\ ledger' \in Ledgers /\ cycled' \subseteq Loops
         /\ ledger'.seen = ledger.seen \ live /\ cycled' = cycled \cup live
         /\ ledger'.fails = ledger.fails /\ ledger'.boot = ledger.boot
         /\ ledger'.last = Null <=> ledger.last = Null
         /\ ledger'.run = Null <=> ledger.run = Null
<1>1. /\ WEDGE_STALE + 1 \in 0 .. RESCUE_RATE_CAP
      /\ RESUME_GAP_THRESHOLD + 1 \in 0 .. RESCUE_RATE_CAP
      /\ RESCUE_RATE_CAP \in 0 .. RESCUE_RATE_CAP
  BY DEF WEDGE_STALE, RESUME_GAP_THRESHOLD, RESCUE_RATE_CAP
<1>2. /\ ledger \in Ledgers /\ ledger.last \in Ages /\ ledger.run \in Ages
      /\ beat \in [Loops -> Ages]
  BY DEF Types, MemoryTypes, Ledgers
<1>3. beat' \in [Loops -> Ages]
  <2>1. 0 \in Ages
    BY DEF Ages, RESCUE_RATE_CAP
  <2>2. \A l \in Loops : Older(beat[l], n, WEDGE_STALE + 1) \in Ages
    BY <1>1, <1>2, OlderType
  <2> QED
    BY <2>1, <2>2 DEF Pass
<1> DEFINE last == Older(ledger.last, n, RESCUE_RATE_CAP)
           run == Older(ledger.run, n, RESUME_GAP_THRESHOLD + 1)
<1>4. /\ last \in Ages /\ (last = Null <=> ledger.last = Null)
      /\ run \in Ages /\ (run = Null <=> ledger.run = Null)
  BY <1>1, <1>2, OlderType
<1>5. ledger' = [ledger EXCEPT !.seen = ledger.seen \ live, !.last = last, !.run = run]
  BY DEF Pass
<1> HIDE DEF last, run
<1>6. /\ ledger' \in Ledgers /\ ledger'.seen = ledger.seen \ live
      /\ ledger'.last = last /\ ledger'.run = run
      /\ ledger'.fails = ledger.fails /\ ledger'.boot = ledger.boot
  BY <1>2, <1>4, <1>5 DEF Ledgers
<1>7. cycled' = cycled \cup live /\ cycled' \subseteq Loops
  BY DEF Pass, Types, MemoryTypes
<1> QED
  BY <1>3, <1>4, <1>6, <1>7

LEMMA TickPasses == ASSUME Tick PROVE \E live \in SUBSET Loops : Pass(1, live)
  BY DEF Tick

LEMMA PassType ==
  ASSUME Types, NEW n \in Nat, NEW live \in SUBSET Loops, Pass(n, live), events' \in 0 .. MaxEvents
  PROVE  Types'
<1>1. MemoryTypes'
  BY PassFacts DEF Pass, Types, MemoryTypes, rescued
<1>2. FlagTypes'
  BY DEF Pass, Types, FlagTypes, service, process, marks
<1>3. PlaceTypes'
  BY DEF Pass, Types, PlaceTypes, process, marks
<1> QED
  BY <1>1, <1>2, <1>3 DEF Types

LEMMA RebootType == ASSUME Types, Reboot PROVE Types'
<1>1. MemoryTypes'
  <2>1. ledger' \in Ledgers
    BY DEF Reboot, Types, MemoryTypes, Ledgers
  <2> QED
    BY <2>1, FreshTypes DEF Reboot, Types, MemoryTypes
<1>2. FlagTypes'
  BY DEF Reboot, Types, FlagTypes
<1>3. PlaceTypes'
  BY HappensType DEF Reboot, Types, PlaceTypes
<1> QED
  BY <1>1, <1>2, <1>3 DEF Types

LEMMA RecoverType == ASSUME Types, NEW l \in Loops, Recover(l) PROVE Types'
<1>1. MemoryTypes'
  <2>1. ledger' \in Ledgers /\ cycled' \subseteq Loops
    BY DEF Recover, Finish, Types, MemoryTypes, Ledgers
  <2>2. beat' \in [Loops -> Ages]
    BY DEF Recover, Types, MemoryTypes, Ages, RESCUE_RATE_CAP
  <2> QED
    BY <2>1, <2>2 DEF Recover, Types, MemoryTypes, rescued
<1>2. FlagTypes'
  BY DEF Recover, Types, FlagTypes, service, marks
<1>3. PlaceTypes'
  BY DEF Recover, Types, PlaceTypes, marks
<1> QED
  BY <1>1, <1>2, <1>3 DEF Types

LEMMA UninstallWatchdogType == ASSUME Types, UninstallWatchdog PROVE Types'
<1>1. MemoryTypes'
  BY FreshTypes, UnrecordedType DEF UninstallWatchdog, Types, MemoryTypes
<1>2. FlagTypes'
  BY DEF UninstallWatchdog, Types, FlagTypes, process, marks
<1>3. PlaceTypes'
  BY HappensType DEF UninstallWatchdog, Types, PlaceTypes, process, marks
<1> QED
  BY <1>1, <1>2, <1>3 DEF Types

LEMMA RescueDiesType == ASSUME Types, RescueDies PROVE Types'
<1>1. MemoryTypes'
  BY FreshTypes, UnrecordedType DEF RescueDies, Types, MemoryTypes
<1>2. FlagTypes'
  BY DEF RescueDies, Types, FlagTypes, service, process, marks
<1>3. PlaceTypes'
  BY HappensType DEF RescueDies, Types, PlaceTypes, process, marks
<1> QED
  BY <1>1, <1>2, <1>3 DEF Types

LEMMA UninstallRemoveType ==
  ASSUME Types, NEW reset \in BOOLEAN, UninstallRemove(reset) PROVE Types'
<1>1. MemoryTypes'
  <2>1. rescue' \in Rescues
    BY DEF UninstallRemove, Types, MemoryTypes, Rescues
  <2>2. beat' \in [Loops -> Ages]
    BY DEF UninstallRemove, Types, MemoryTypes, Ages
  <2> QED
    BY <2>1, <2>2, FreshTypes DEF UninstallRemove, Types, MemoryTypes
<1>2. FlagTypes'
  BY DEF UninstallRemove, Types, FlagTypes
<1>3. PlaceTypes'
  BY DEF UninstallRemove, Types, PlaceTypes
<1> QED
  BY <1>1, <1>2, <1>3 DEF Types

\* The rescue command's steps keep what it remembers in Rescues.
LEMMA RescueMemory == ASSUME Types, AttemptsCounted, RescueStep PROVE MemoryTypes'
<1>1. ledger \in Ledgers /\ rescue \in Rescues /\ IdleRescue \in Rescues
  BY FreshTypes DEF Types, MemoryTypes
<1>2. CASE RescueLook
  <2>1. Registered \in BOOLEAN /\ config \in BOOLEAN /\ paused \in BOOLEAN
    BY DEF Types, FlagTypes, Registered
  <2> DEFINE seen == IF ledger.boot = "this" THEN ledger.seen ELSE {}
             running == proc # "down"
             unmoved == Loops \ cycled
  <2>2. seen \in SUBSET Loops /\ running \in BOOLEAN /\ unmoved \in SUBSET Loops
    BY <1>1 DEF Ledgers
  <2>4. beat \in [Loops -> Ages]
    BY DEF Types, MemoryTypes
  <2>5. rescue' = [IdleRescue EXCEPT
                    !.pc = "session", !.config = config, !.registered = Registered,
                    !.running = running, !.beat = beat, !.paused = paused,
                    !.seen = seen, !.unmoved = unmoved]
    BY <1>2 DEF RescueLook
  <2>6. FreshLedger \in Ledgers /\ "none" \in Decisions
    BY FreshTypes DEF Decisions
  <2> HIDE DEF seen, running, unmoved
  <2>3. rescue' \in Rescues
    <3>1. rescue' = [pc |-> "session", config |-> config, registered |-> Registered,
                     running |-> running, beat |-> beat, seen |-> seen, paused |-> paused,
                     stopped |-> FALSE, draft |-> FreshLedger, decision |-> "none",
                     unmoved |-> unmoved]
      BY <2>5 DEF IdleRescue
    <3> QED
      BY <2>1, <2>2, <2>4, <2>6, <3>1 DEF Rescues
  <2> QED
    BY <1>2, <2>3 DEF RescueLook, Types, MemoryTypes, rescued
<1>3. CASE RescueSession
  <2>1. rescue' \in Rescues
    BY <1>1, <1>3 DEF RescueSession, Rescues
  <2> QED
    BY <1>3, <2>1 DEF RescueSession, Types, MemoryTypes, rescued
<1>4. CASE RescueClear
  <2>1. rescue' \in Rescues
    BY <1>1, <1>4 DEF RescueClear, Rescues
  <2> QED
    BY <1>4, <2>1 DEF RescueClear, Types, MemoryTypes, rescued
<1>5. CASE RescueJudge
  <2>1. ReadLedger \in Ledgers /\ upgrading \in BOOLEAN
    BY <1>1, ReadLedgerType DEF Types, FlagTypes
  <2>2. Decide(rescue, ReadLedger, upgrading) \in Decisions
    BY <1>1, <2>1, DecideFacts
  <2>3. rescue' \in Rescues
    BY <1>1, <1>5, <2>1, <2>2 DEF RescueJudge, Rescues
  <2> QED
    BY <1>5, <2>1, <2>3 DEF RescueJudge, Types, MemoryTypes, rescued
<1>6. CASE RescueAct
  <2>1. /\ rescue' = [rescue EXCEPT !.draft = RecordAttempt(rescue.draft), !.pc = "write"]
        /\ launches' = launches + 1
    BY <1>6 DEF RescueAct
  <2>2. rescue.draft \in Ledgers /\ rescue.draft.fails < MAX_CONSECUTIVE_FAILURES
    BY <1>1, <1>6 DEF RescueAct, AttemptsCounted, Rescues
  <2>3. RecordAttempt(rescue.draft) \in Ledgers
    BY <2>2, RecordAttemptFacts
  <2>4. rescue' \in Rescues
    BY <1>1, <2>1, <2>3 DEF Rescues
  <2> QED
    BY <1>6, <2>1, <2>4 DEF RescueAct, Types, MemoryTypes, rescued
<1>7. CASE RescueActFails
  BY <1>1, <1>7 DEF RescueActFails, Types, MemoryTypes, rescued
<1>8. CASE RescueWrite
  <2>1. rescue.draft \in Ledgers
    BY <1>1 DEF Rescues
  <2>2. ledger' \in Ledgers
    BY <1>8, <2>1, WrittenFacts
  <2> QED
    BY <1>1, <1>8, <2>2 DEF RescueWrite, Types, MemoryTypes, rescued
<1> QED
  BY <1>2, <1>3, <1>4, <1>5, <1>6, <1>7, <1>8 DEF RescueStep

LEMMA RescueFlagsAndPlaces == ASSUME Types, RescueStep PROVE FlagTypes' /\ PlaceTypes'
<1>0. FlagTypes /\ PlaceTypes
  BY DEF Types
<1> USE <1>0 DEF FlagTypes, PlaceTypes
<1>1. CASE RescueLook
  <2>1. UNCHANGED <<platform, service, process, marks, cmd, events>> /\ due' = FALSE
    BY <1>1 DEF RescueLook
  <2>2. FlagTypes'
    BY <2>1 DEF service, process, marks
  <2>3. PlaceTypes'
    BY <2>1 DEF process, marks
  <2> QED
    BY <2>2, <2>3
<1>2. CASE RescueSession
  BY <1>2 DEF RescueSession, service, process, marks
<1>3. CASE RescueClear
  <2>1. /\ UNCHANGED <<platform, service, process, due, cmd, events>>
        /\ sentinel' = "none" /\ userStopped' = FALSE
    BY <1>3 DEF RescueClear
  <2>2. FlagTypes'
    BY <2>1 DEF service, process
  <2>3. PlaceTypes'
    BY <2>1 DEF process
  <2> QED
    BY <2>2, <2>3
<1>4. CASE RescueJudge
  <2>1. UNCHANGED <<platform, service, process, marks, due, cmd, events>>
    BY <1>4 DEF RescueJudge
  <2> QED
    BY <2>1 DEF service, process, marks
<1>5. CASE RescueAct
  <2>1. PICK kill \in BOOLEAN : Launch(kill)
    BY <1>5 DEF RescueAct
  <2>2. /\ registered' \in BOOLEAN /\ supervised' \in BOOLEAN
        /\ proc' \in {"down", "boot", "prepared", "clearing", "up"} /\ stuck' \subseteq Loops
    BY <2>1, LaunchType
  <2>3. FlagTypes'
    BY <1>5, <2>2 DEF RescueAct, marks
  <2>4. PlaceTypes'
    BY <1>5, <2>2 DEF RescueAct, marks
  <2> QED
    BY <2>3, <2>4
<1>6. CASE RescueActFails
  <2>1. events' \in 0 .. MaxEvents
    BY <1>6, HappensType DEF RescueActFails
  <2> QED
    BY <1>6, <2>1 DEF RescueActFails, service, process, marks
<1>7. CASE RescueWrite
  BY <1>7 DEF RescueWrite, service, process, marks
<1> QED
  BY <1>1, <1>2, <1>3, <1>4, <1>5, <1>6, <1>7 DEF RescueStep

LEMMA TypeStep == ASSUME Types, AttemptsCounted, RescueNext PROVE Types'
<1>1. CASE QuietStep
  BY <1>1, QuietFlags, QuietPlaces, QuietMemory DEF Types
<1>2. CASE Tick
  <2>1. events' \in 0 .. MaxEvents
    BY <1>2 DEF Tick, Types, PlaceTypes
  <2> QED
    BY <1>2, <2>1, TickPasses, PassType
<1>3. CASE \E n \in WEDGE_STALE .. WEDGE_STALE + 1 : Sleep(n)
  <2>1. PICK n \in WEDGE_STALE .. WEDGE_STALE + 1 : Sleep(n)
    BY <1>3
  <2>2. n \in Nat /\ Pass(n, {}) /\ events' \in 0 .. MaxEvents
    BY <2>1, HappensType DEF Sleep, WEDGE_STALE
  <2> QED
    BY <2>2, PassType
<1>4. CASE RescueLook \/ RescueSession \/ RescueClear \/ RescueJudge \/ RescueAct
           \/ RescueActFails \/ RescueWrite
  BY <1>4, RescueMemory, RescueFlagsAndPlaces DEF RescueStep, Types
<1> QED
  BY <1>1, <1>2, <1>3, <1>4, RebootType, UninstallWatchdogType, RecoverType,
     UninstallRemoveType, RescueDiesType, StepKinds

-----------------------------------------------------------------------------
(* The user's stop.                                                        *)

LEMMA StopStep == ASSUME Types, StopStands, RescueNext PROVE StopStands'
<1> USE DEF StopStands
<1>1. CASE QuietStep
  <2>1. CASE BootStep
    BY <2>1 DEF BootStep, BootPrepare, BootCheckSession, BootClearSession, marks, Types, PlaceTypes
  <2>2. CASE Crash \/ Pause \/ Unpause \/ BeginUpgrade \/ EndUpgrade
    BY <2>2 DEF Crash, Pause, Unpause, BeginUpgrade, EndUpgrade, marks
  <2>3. CASE \E l \in Loops : Wedge(l)
    BY <2>3 DEF Wedge, marks
  <2>4. CASE Relaunch \/ GiveUp
    BY <2>4 DEF Relaunch, GiveUp, marks
  <2>5. CASE StopWrite \/ SetupReset \/ StartUpgradeExit
    BY <2>5 DEF StopWrite, SetupReset, StartUpgradeExit, process, marks
  <2>6. CASE StopService
    <3>1. CASE Registered
      BY <2>6, <3>1, HaltType DEF StopService
    <3>2. CASE ~Registered
      BY <2>6, <3>2 DEF StopService
    <3> QED
      BY <3>1, <3>2
  <2>7. CASE StartService
    BY <2>7 DEF StartService, Launch, marks
  <2>8. CASE UninstallStop
    BY <2>8, HaltType DEF UninstallStop, marks
  <2>9. CASE \E name \in {"start", "restart", "setup"} : StartClear(name)
    BY <2>9 DEF StartClear
  <2> QED
    BY <1>1, <2>1, <2>2, <2>3, <2>4, <2>5, <2>6, <2>7, <2>8, <2>9 DEF QuietStep
<1>2. CASE Tick \/ \E n \in WEDGE_STALE .. WEDGE_STALE + 1 : Sleep(n)
  BY <1>2 DEF Tick, Sleep, Pass, process, marks
<1>3. CASE Reboot
  BY <1>3 DEF Reboot
<1>4. CASE UninstallWatchdog
  BY <1>4 DEF UninstallWatchdog, process, marks
<1>5. CASE \E l \in Loops : Recover(l)
  BY <1>5 DEF Recover, marks
<1>6. CASE \E reset \in BOOLEAN : UninstallRemove(reset)
  BY <1>6 DEF UninstallRemove
<1>7. CASE RescueLook \/ RescueSession \/ RescueJudge \/ RescueActFails \/ RescueWrite
           \/ RescueDies
  BY <1>7 DEF RescueLook, RescueSession, RescueJudge, RescueActFails, RescueWrite, RescueDies,
              process, marks
<1>8. CASE RescueClear
  BY <1>8 DEF RescueClear
<1>9. CASE RescueAct
  BY <1>9 DEF RescueAct, Launch, marks
<1> QED
  BY <1>1, <1>2, <1>3, <1>4, <1>5, <1>6, <1>7, <1>8, <1>9, StepKinds

-----------------------------------------------------------------------------
(* The launches.                                                           *)

\* No launch is ever too many for a ledger.
LEMMA NoLaunches ==
  ASSUME NEW l \in Ledgers, launches' = 0, lost' \in Nat
  PROVE  /\ Counted(l)'
         /\ launches' <= Known(l) + lost' + Unrecorded'
<1>1. Known(l) \in Nat
  BY DEF Known, Ledgers
<1>2. Known(l)' = Known(l)
  BY DEF Known
<1> QED
  BY <1>1, <1>2, UnrecordedType DEF Counted

LEMMA CountStep ==
  ASSUME Types, Types', AttemptsCounted, SeenUnmoved, RescueNext PROVE AttemptsCounted'
<1>1. /\ ReadLedger \in Ledgers /\ ReadLedger' \in Ledgers
      /\ rescue \in Rescues /\ rescue' \in Rescues /\ ledger \in Ledgers
      /\ rescue.draft \in Ledgers /\ rescue'.draft \in Ledgers
      /\ launches \in Nat /\ lost \in Nat /\ lost' \in Nat /\ ledger' \in Ledgers
  BY ReadLedgerType, FreshTypes DEF Types, MemoryTypes, Rescues, ReadLedger
<1>0. \A l \in Ledgers : Known(l) \in Nat
  BY DEF Known, Ledgers
<1>2. CASE QuietStep
  BY <1>2, QuietFrame DEF watch, rescued, AttemptsCounted, Counted, Known, Unrecorded, ReadLedger
<1>3. ASSUME NEW n \in Nat, NEW live \in SUBSET Loops, Pass(n, live) PROVE AttemptsCounted'
  <2>1. /\ ledger'.fails = ledger.fails /\ ledger'.boot = ledger.boot
        /\ ledger'.last = Null <=> ledger.last = Null
    BY <1>3, PassFacts
  <2>2. UNCHANGED <<rescue, launches, lost>>
    BY <1>3 DEF Pass, rescued
  <2> QED
    BY <2>1, <2>2 DEF AttemptsCounted, Counted, Known, Unrecorded, ReadLedger
<1>4. CASE Tick
  BY <1>3, <1>4, TickPasses
<1>5. CASE \E n \in WEDGE_STALE .. WEDGE_STALE + 1 : Sleep(n)
  BY <1>3, <1>5 DEF Sleep, WEDGE_STALE
<1>6. CASE Reboot
  <2>1. launches' = 0 /\ rescue'.pc = "idle"
    BY <1>6 DEF Reboot, IdleRescue
  <2> QED
    BY <1>1, <2>1, NoLaunches DEF AttemptsCounted, Known
<1>7. CASE UninstallWatchdog
  <2>1. UNCHANGED <<ledger, launches>>
    BY <1>7 DEF UninstallWatchdog
  <2>2. CASE UNCHANGED <<rescue, lost>>
    BY <2>1, <2>2 DEF AttemptsCounted, Counted, Known, Unrecorded, ReadLedger
  <2>3. CASE rescue' = IdleRescue /\ lost' = lost + Unrecorded
    <3>1. rescue'.pc = "idle" /\ Unrecorded' = 0
      BY <2>3 DEF IdleRescue, Unrecorded
    <3>2. ReadLedger' = ReadLedger
      BY <2>1 DEF ReadLedger
    <3> QED
      BY <1>0, <1>1, <2>1, <2>3, <3>1, <3>2, UnrecordedType DEF AttemptsCounted, Known
  <2> QED
    BY <1>7, <2>2, <2>3 DEF UninstallWatchdog
<1>8. CASE \E l \in Loops : Recover(l)
  <2>1. UNCHANGED <<rescue, launches, lost>>
    BY <1>8 DEF Recover, rescued
  <2>2. ledger'.fails = ledger.fails /\ ledger'.last = ledger.last /\ ledger'.boot = ledger.boot
    BY <1>1, <1>8 DEF Recover, Finish, Ledgers
  <2> QED
    BY <2>1, <2>2 DEF AttemptsCounted, Counted, Known, Unrecorded, ReadLedger
<1>9. CASE \E reset \in BOOLEAN : UninstallRemove(reset)
  <2>1. /\ rescue'.pc = rescue.pc /\ rescue'.draft = rescue.draft
        /\ rescue'.decision = rescue.decision
    BY <1>1, <1>9 DEF UninstallRemove, Rescues
  <2>2. UNCHANGED <<ledger, launches, lost>> \/ launches' = 0
    BY <1>9 DEF UninstallRemove
  <2>3. CASE UNCHANGED <<ledger, launches, lost>>
    BY <2>1, <2>3 DEF AttemptsCounted, Counted, Known, Unrecorded, ReadLedger
  <2>4. CASE launches' = 0
    BY <1>1, <2>1, <2>4, NoLaunches DEF AttemptsCounted, Known
  <2> QED
    BY <2>2, <2>3, <2>4
<1>10. CASE RescueLook
  <2>1. /\ rescue'.pc = "session" /\ UNCHANGED <<ledger, launches, lost>>
        /\ rescue.pc = "idle"
    BY <1>10 DEF RescueLook, rescued, IdleRescue
  <2> QED
    BY <2>1 DEF AttemptsCounted, Known, Unrecorded, ReadLedger
<1>11. CASE RescueSession \/ RescueClear
  <2>1. /\ rescue'.pc \in {"clear", "judge"} /\ UNCHANGED <<ledger, launches, lost>>
        /\ rescue.pc \in {"session", "clear"}
    BY <1>1, <1>11 DEF RescueSession, RescueClear, rescued, Rescues
  <2> QED
    BY <2>1 DEF AttemptsCounted, Known, Unrecorded, ReadLedger
<1>12. CASE RescueJudge
  <2> DEFINE d == Decide(rescue, ReadLedger, upgrading)
  <2>1. /\ ledger' = ReadLedger /\ rescue'.draft = ReadLedger
        /\ launches' = launches /\ lost' = lost
        /\ rescue'.pc = (IF d \in Attempts THEN "act" ELSE "write") /\ rescue'.decision = d
    BY <1>12 DEF RescueJudge, IdleRescue, rescued
  <2>2. Counted(ReadLedger)
    BY <1>0, <1>1, <1>12 DEF RescueJudge, AttemptsCounted, Unrecorded, Counted
  <2>3. d \in Attempts => ReadLedger.fails < MAX_CONSECUTIVE_FAILURES
    BY <1>1, DecideFacts DEF Types, FlagTypes
  <2>4. ReadLedger' = ReadLedger /\ ReadLedger.boot = "this"
    BY <2>1 DEF ReadLedger, FreshLedger
  <2> HIDE DEF d
  <2>5. Unrecorded' = 0
    BY <2>1 DEF Unrecorded
  <2> QED
    BY <1>0, <1>1, <2>1, <2>2, <2>3, <2>4, <2>5 DEF AttemptsCounted, Counted, Known
<1>13. CASE RescueAct
  <2>1. /\ rescue.pc = "act" /\ launches' = launches + 1 /\ lost' = lost /\ ledger' = ledger
        /\ rescue'.draft = RecordAttempt(rescue.draft) /\ rescue'.pc = "write"
        /\ rescue'.decision = rescue.decision
    BY <1>1, <1>13 DEF RescueAct, Rescues
  <2>2. /\ Counted(rescue.draft) /\ rescue.draft.fails < MAX_CONSECUTIVE_FAILURES
        /\ rescue.draft.boot = "this"
    BY <2>1 DEF AttemptsCounted
  <2>3. /\ rescue'.draft.last = 0 /\ rescue'.draft.boot = "this"
        /\ rescue'.draft.fails = IF rescue.draft.last = Null THEN rescue.draft.fails
                                  ELSE rescue.draft.fails + 1
    BY <1>1, <2>1, <2>2, RecordAttemptFacts
  <2>4. rescue.draft.fails \in Nat
    BY <1>1 DEF Ledgers
  <2>5. Counted(rescue.draft)'
    BY <1>1, <2>1, <2>2, <2>3, <2>4 DEF Counted, Known, Null
  <2>6. Unrecorded = 0 /\ Unrecorded' = 1
    BY <2>1 DEF Unrecorded, SeenUnmoved
  <2>7. launches' <= Known(ReadLedger)' + lost' + Unrecorded'
    <3>1. ReadLedger' = ReadLedger
      BY <2>1 DEF ReadLedger
    <3> QED
      BY <1>0, <1>1, <2>1, <2>6, <3>1 DEF AttemptsCounted, Known
  <2> QED
    BY <2>1, <2>3, <2>5, <2>7 DEF AttemptsCounted
<1>14. CASE RescueActFails
  <2>1. /\ rescue.pc = "act" /\ rescue'.pc = "idle" /\ UNCHANGED <<ledger, launches, lost>>
    BY <1>14 DEF RescueActFails, IdleRescue, rescued
  <2> QED
    BY <2>1 DEF AttemptsCounted, Known, Unrecorded, ReadLedger
<1>15. CASE RescueWrite
  <2>1. rescue.pc = "write" /\ rescue'.pc = "idle"
    BY <1>15 DEF RescueWrite, IdleRescue
  <2>2. Counted(rescue.draft) /\ rescue.draft.boot = "this"
    BY <2>1 DEF AttemptsCounted
  <2>3. ledger'.boot = "this" /\ ReadLedger' = ledger'
    BY <1>1, <1>15, <2>2, WrittenFacts DEF ReadLedger
  <2>4. launches' <= Known(ledger') + lost'
    <3>1. CASE launches' = 0
      BY <1>0, <1>1, <3>1
    <3>2. CASE /\ ledger'.fails = rescue.draft.fails /\ ledger'.last = rescue.draft.last
               /\ launches' = launches /\ lost' = lost
      BY <2>2, <3>2 DEF Counted, Known
    <3> QED
      BY <1>1, <1>15, <3>1, <3>2, WrittenFacts
  <2>5. Unrecorded' = 0
    BY <2>1 DEF Unrecorded
  <2> QED
    BY <1>0, <1>1, <2>1, <2>3, <2>4, <2>5 DEF AttemptsCounted, Known
<1>16. CASE RescueDies
  <2>1. /\ UNCHANGED <<ledger, launches>> /\ rescue' = IdleRescue
        /\ lost' = lost + Unrecorded
    BY <1>16 DEF RescueDies
  <2>2. rescue'.pc = "idle" /\ Unrecorded' = 0 /\ ReadLedger' = ReadLedger
    BY <2>1 DEF IdleRescue, Unrecorded, ReadLedger
  <2> QED
    BY <1>0, <1>1, <2>1, <2>2, UnrecordedType DEF AttemptsCounted, Known
<1> QED
  BY <1>2, <1>4, <1>5, <1>6, <1>7, <1>8, <1>9, <1>10, <1>11, <1>12, <1>13, <1>14, <1>15, <1>16,
     StepKinds

-----------------------------------------------------------------------------
(* The restarts.                                                           *)

LEMMA SeenStep ==
  ASSUME Types, Types', SeenUnmoved, RescueNext PROVE SeenUnmoved'
<1>1. /\ rescue \in Rescues /\ ledger \in Ledgers /\ ReadLedger \in Ledgers
      /\ upgrading \in BOOLEAN /\ rescue.draft \in Ledgers
  BY ReadLedgerType DEF Types, MemoryTypes, FlagTypes, Rescues
<1> USE DEF SeenUnmoved
<1>2. CASE QuietStep
  BY <1>2, QuietFrame DEF watch
<1>3. ASSUME NEW n \in Nat, NEW live \in SUBSET Loops, Pass(n, live) PROVE SeenUnmoved'
  <2>1. /\ ledger'.seen = ledger.seen \ live /\ cycled' = cycled \cup live
        /\ ledger'.boot = ledger.boot /\ (ledger'.run = Null <=> ledger.run = Null)
    BY <1>3, PassFacts
  <2>2. rescue' = rescue
    BY <1>3 DEF Pass
  <2>3. ledger'.seen \cap cycled' = {} /\ ledger'.seen \subseteq ledger.seen
    BY <2>1
  <2> QED
    BY <2>1, <2>2, <2>3
<1>4. CASE Tick
  BY <1>3, <1>4, TickPasses
<1>5. CASE \E n \in WEDGE_STALE .. WEDGE_STALE + 1 : Sleep(n)
  BY <1>3, <1>5 DEF Sleep, WEDGE_STALE
<1>6. CASE Reboot
  <2>1. ledger'.seen = ledger.seen /\ ledger'.run = ledger.run
    BY <1>1, <1>6 DEF Reboot, Ledgers
  <2>2. cycled' = cycled /\ rescue' = IdleRescue
    BY <1>6 DEF Reboot
  <2> QED
    BY <2>1, <2>2 DEF IdleRescue
<1>7. CASE UninstallWatchdog
  <2>1. UNCHANGED <<ledger, cycled>> /\ (rescue' = rescue \/ rescue' = IdleRescue)
    BY <1>7 DEF UninstallWatchdog
  <2> QED
    BY <2>1 DEF IdleRescue
<1>8. CASE \E l \in Loops : Recover(l)
  <2>1. PICK l \in Loops : Recover(l)
    BY <1>8
  <2>2. /\ ledger'.seen = ledger.seen \ {l} /\ ledger'.run = ledger.run
        /\ ledger'.boot = ledger.boot /\ cycled' = cycled \cup {l} /\ rescue' = rescue
    BY <1>1, <2>1 DEF Recover, Finish, Ledgers
  <2>3. ledger'.seen \cap cycled' = {} /\ ledger'.seen \subseteq ledger.seen
    BY <2>2
  <2> QED
    BY <2>2, <2>3
<1>9. CASE \E reset \in BOOLEAN : UninstallRemove(reset)
  <2>1. PICK reset \in BOOLEAN : UninstallRemove(reset)
    BY <1>9
  <2>2. CASE reset
    <3>1. rescue' = [rescue EXCEPT !.seen = {}] /\ ledger' = FreshLedger /\ cycled' = cycled
      BY <2>1, <2>2 DEF UninstallRemove
    <3>2. /\ rescue'.seen = {} /\ rescue'.pc = rescue.pc /\ rescue'.decision = rescue.decision
          /\ rescue'.unmoved = rescue.unmoved /\ rescue'.draft = rescue.draft
      BY <1>1, <3>1 DEF Rescues
    <3> QED
      BY <3>1, <3>2 DEF FreshLedger
  <2>3. CASE ~reset
    BY <2>1, <2>3 DEF UninstallRemove
  <2> QED
    BY <2>2, <2>3
<1>10. CASE RescueLook
  <2> DEFINE seen == IF ledger.boot = "this" THEN ledger.seen ELSE {}
  <2>1. /\ rescue'.pc = "session" /\ rescue'.seen = seen /\ rescue'.unmoved = Loops \ cycled
        /\ ledger' = ledger /\ cycled' = {}
    BY <1>10 DEF RescueLook, IdleRescue
  <2>2. seen \subseteq Loops \ cycled
    BY <1>1 DEF Ledgers
  <2> QED
    BY <2>1, <2>2
<1>11. CASE RescueSession \/ RescueClear
  <2>1. /\ rescue'.pc \in {"clear", "judge"} /\ UNCHANGED <<ledger, cycled>>
        /\ rescue'.seen = rescue.seen /\ rescue'.unmoved = rescue.unmoved
    BY <1>1, <1>11 DEF RescueSession, RescueClear, Rescues
  <2> QED
    BY <2>1
<1>12. CASE RescueJudge
  <2> DEFINE d == Decide(rescue, ReadLedger, upgrading)
  <2>1. /\ ledger' = ReadLedger /\ rescue'.draft = ReadLedger /\ cycled' = cycled
        /\ rescue'.pc = (IF d \in Attempts THEN "act" ELSE "write") /\ rescue'.decision = d
        /\ rescue'.seen = {} /\ rescue'.unmoved = rescue.unmoved
    BY <1>12 DEF RescueJudge, IdleRescue
  <2>2. ReadLedger.seen \cap cycled = {} /\ (ReadLedger.seen # {} => ReadLedger.run # Null)
    BY DEF ReadLedger, FreshLedger
  <2>3. d = "restart" => rescue.unmoved # {} /\ ReadLedger.run \in 0 .. RESUME_GAP_THRESHOLD
    <3>1. d = "restart" => rescue.unmoved # {} /\ ReadLedger.run # Null
      BY <1>1, DecideFacts DEF ReadLedger
    <3>2. d = "restart" => ~LikelyResumed(ReadLedger)
      BY DEF Decide
    <3>3. ReadLedger.run \in Ages
      BY <1>1 DEF ReadLedger, FreshLedger, Ledgers, Ages, Null
    <3> QED
      BY <3>1, <3>2, <3>3 DEF LikelyResumed, Ages, Null, RESUME_GAP_THRESHOLD, RESCUE_RATE_CAP
  <2> HIDE DEF d
  <2> QED
    BY <2>1, <2>2, <2>3
<1>13. CASE RescueAct
  <2>1. /\ rescue'.pc = "write" /\ rescue'.seen = rescue.seen
        /\ rescue'.unmoved = rescue.unmoved /\ UNCHANGED <<ledger, cycled>>
    BY <1>1, <1>13 DEF RescueAct, Rescues
  <2> QED
    BY <2>1
<1>14. CASE RescueActFails
  BY <1>14 DEF RescueActFails, IdleRescue
<1>15. CASE RescueWrite
  <2>1. ledger'.run # Null /\ ledger'.seen \subseteq Loops \ cycled
    BY <1>1, <1>15, WrittenFacts
  <2>2. cycled' = cycled /\ rescue' = IdleRescue
    BY <1>15 DEF RescueWrite
  <2> QED
    BY <2>1, <2>2 DEF IdleRescue
<1>16. CASE RescueDies
  BY <1>16 DEF RescueDies, IdleRescue
<1> QED
  BY <1>2, <1>4, <1>5, <1>6, <1>7, <1>8, <1>9, <1>10, <1>11, <1>12, <1>13, <1>14, <1>15, <1>16,
     StepKinds

-----------------------------------------------------------------------------
(* The theorems.                                                           *)

LEMMA RescueInvInit == RescueInit => RescueInv
<1> SUFFICES ASSUME RescueInit PROVE RescueInv
  OBVIOUS
<1>1. StopStands
  BY DEF RescueInit, StopStands
<1>2. AttemptsCounted
  BY DEF RescueInit, AttemptsCounted, Known, Unrecorded, ReadLedger, FreshLedger, IdleRescue
<1>3. SeenUnmoved
  BY DEF RescueInit, SeenUnmoved, FreshLedger, IdleRescue
<1> QED
  BY <1>1, <1>2, <1>3, TypeInit DEF RescueInv

LEMMA RescueInvStep == RescueInv /\ [RescueNext]_rescueVars => RescueInv'
<1> SUFFICES ASSUME RescueInv, [RescueNext]_rescueVars PROVE RescueInv'
  OBVIOUS
<1>1. CASE RescueNext
  <2>1. Types'
    BY <1>1, TypeStep DEF RescueInv
  <2> QED
    BY <1>1, <2>1, StopStep, CountStep, SeenStep DEF RescueInv
<1>2. CASE UNCHANGED rescueVars
  <2>1. Types'
    BY <1>2 DEF RescueInv, Types, FlagTypes, PlaceTypes, MemoryTypes, rescueVars, service,
                process, marks, watch, rescued
  <2>2. StopStands' /\ AttemptsCounted' /\ SeenUnmoved'
    BY <1>2 DEF RescueInv, StopStands, AttemptsCounted, Counted, Known, ReadLedger, Unrecorded,
                SeenUnmoved, rescueVars, process, marks, watch, rescued
  <2> QED
    BY <2>1, <2>2 DEF RescueInv
<1> QED
  BY <1>1, <1>2

\* The inductive invariant of the watchdog, the commands and the machine, for any number
\* of faults, sleeps, boots and commands, and though the watchdog may be killed, or may
\* fail to write its ledger, at any of its steps.
THEOREM RescueInvariant == RescueSpec => []RescueInv
  BY RescueInvInit, RescueInvStep, PTL DEF RescueSpec

\* Every variable of the rescue model keeps its type; in particular the count of
\* failures in the ledger never passes the breaker's limit.
THEOREM RescueTypes == RescueSpec => []RescueTypeOK
<1>1. RescueInv => RescueTypeOK
  BY TypesSuffice DEF RescueInv
<1> QED
  BY <1>1, RescueInvariant, PTL

\* The daemon does not run while a stop of the user stands: run and rescue look at the
\* sentinel before they start it, in whatever order their steps fall.
THEOREM StopsHold == RescueSpec => []StopHolds
<1>1. RescueInv => StopHolds
  BY DEF RescueInv, StopStands, StopHolds
<1> QED
  BY <1>1, RescueInvariant, PTL

\* Between two healthy verdicts the watchdog launches the daemon at most once more than
\* the failures that trip the breaker, and once more for every launch whose attempt was
\* lost, because the watchdog was killed after it or could not write the ledger.
THEOREM LaunchesBounded == RescueSpec => []BoundedLaunches
<1>1. RescueInv => BoundedLaunches
  <2> SUFFICES ASSUME RescueInv PROVE BoundedLaunches
    OBVIOUS
  <2>1. /\ ReadLedger \in Ledgers /\ rescue.draft \in Ledgers
        /\ launches \in Nat /\ lost \in Nat
    BY ReadLedgerType DEF RescueInv, Types, MemoryTypes, Rescues
  <2>2. \A l \in Ledgers : Known(l) \in 0 .. MAX_CONSECUTIVE_FAILURES + 1
    BY DEF Ledgers, Known, MAX_CONSECUTIVE_FAILURES
  <2>3. Counted(rescue.draft) \/ launches <= Known(ReadLedger) + lost
    <3>1. CASE rescue.pc = "write"
      BY <3>1 DEF RescueInv, AttemptsCounted
    <3>2. CASE rescue.pc # "write"
      BY <2>1, <2>2, <3>2 DEF RescueInv, AttemptsCounted, Unrecorded
    <3> QED
      BY <3>1, <3>2
  <2> QED
    BY <2>1, <2>2, <2>3 DEF Counted, BoundedLaunches, MAX_CONSECUTIVE_FAILURES
<1> QED
  BY <1>1, RescueInvariant, PTL

\* The watchdog replaces a running daemon only when one of its loops has finished no
\* cycle between two runs of the watchdog in this boot that no long sleep lies between.
THEOREM RestartsJustified == RescueSpec => RestartsOnlyUnmoved
<1>1. RescueInv /\ [RescueNext]_rescueVars =>
        [rescue.pc = "act" /\ rescue'.pc = "write" /\ rescue.decision = "restart"
           => rescue.unmoved # {} /\ rescue.draft.run \in 0 .. RESUME_GAP_THRESHOLD]_rescueVars
  BY DEF RescueInv, SeenUnmoved
<1> QED
  BY <1>1, RescueInvariant, PTL DEF RescueSpec, RestartsOnlyUnmoved

HIDE RescueAssumption
-----------------------------------------------------------------------------
(* The upgrade.  A dev daemon it stopped is on record, its lock has a      *)
(* holder, and the binary is not replaced under a dev daemon it stopped.   *)

USE DEF binary, prodVars, files, devVars, ghosts

\* A prod process that is not up runs no heartbeat.
BeatsWhenUp == prod # "up" => beatPc = "idle"

\* The steps of an upgrade between its taking the lock and its releasing it.
LockSteps == {"look", "stop", "poll", "download", "undo", "release"}
LockIsHeld == prod = "up" /\ lock => beatPc \in LockSteps

\* The record is written before dev is told to stop, and is removed only by a start
\* of prod that has settled with dev.
RecordFirst == beatPc = "stop" => restore
RecordLast == prod = "restored" /\ owed => failed
\* Only a dev profile that is set up has a daemon, so that RestoreDev sees to it.
DevIsSetUp == (dev # "down" => devConfig) /\ (owed => devConfig)

\* Once the stop was waited for, dev stays down unless its user takes it over.
DownWhileSwapped == beatPc = "download" /\ wasRunning /\ owed => dev = "down"

UpgradeInv == /\ BeatsWhenUp /\ LockIsHeld /\ RecordFirst /\ RecordLast /\ DevIsSetUp
              /\ StoppedDevIsRecorded /\ DownWhileSwapped

USE DEF UpgradeInv, BeatsWhenUp, LockIsHeld, LockSteps, RecordFirst, RecordLast, DevIsSetUp,
        StoppedDevIsRecorded, DownWhileSwapped

\* Nothing has happened yet.
LEMMA UpgradeInvInit == UpgradeInit => UpgradeInv
  BY DEF UpgradeInit

\* A start of dev leaves nothing owed, or failed says why, and needs a set-up profile.
LEMMA DevStartSettles ==
  ASSUME DevStart
  PROVE  /\ owed' => owed /\ failed'
         /\ dev' # "down" => dev # "down" \/ devConfig
         /\ failed => failed'
<1>1. CASE UNCHANGED <<dev, devVersion, devLoaded, owed>> /\ failed' = TRUE
  <2>1. (owed' => owed) /\ failed' /\ dev' = dev
    BY <1>1, Zenon
  <2> QED
    BY <2>1, Zenon
<1>2. CASE /\ devConfig /\ DevRuns
           /\ owed' = (owed /\ dev = "stopping") /\ failed' = (failed \/ dev = "stopping")
  BY <1>2 DEF DevRuns
<1>3. \/ /\ devConfig /\ DevRuns
         /\ owed' = (owed /\ dev = "stopping") /\ failed' = (failed \/ dev = "stopping")
      \/ UNCHANGED <<dev, devVersion, devLoaded, owed>> /\ failed' = TRUE
  BY Zenon DEF DevStart
<1> QED
  BY <1>1, <1>2, <1>3, Zenon

\* Every step of the upgrade keeps the invariant.
LEMMA UpgradeInvStep == UpgradeInv /\ [UpgradeNext]_upgradeVars => UpgradeInv'
<1> SUFFICES ASSUME UpgradeInv, [UpgradeNext]_upgradeVars PROVE UpgradeInv'
  OBVIOUS
<1>1. CASE HeartbeatBegins
  BY <1>1 DEF HeartbeatBegins
<1>2. CASE IntervalPasses
  BY <1>2 DEF IntervalPasses
<1>3. CASE TakeLock
  BY <1>3 DEF TakeLock
<1>4. CASE LookAtDev
  BY <1>4 DEF LookAtDev
<1>5. CASE StopDev
  BY <1>5 DEF StopDev
<1>6. CASE PollStopped
  BY <1>6 DEF PollStopped
<1>7. CASE PollTimesOut
  BY <1>7 DEF PollTimesOut
<1>8. CASE Download
  BY <1>8 DEF Download
<1>9. CASE DownloadFails
  BY <1>9 DEF DownloadFails
<1>10. CASE UndoUpgrade
  BY <1>10, DevStartSettles DEF UndoUpgrade
<1>11. CASE ReleaseAndExit
  BY <1>11 DEF ReleaseAndExit
<1>12. CASE BrewCheck
  BY <1>12 DEF BrewCheck
<1>13. CASE PlainUpgrade
  BY <1>13 DEF PlainUpgrade
<1>14. CASE ProdCrash
  BY <1>14 DEF ProdCrash
<1>15. CASE ProdRelaunch
  BY <1>15 DEF ProdRelaunch
<1>16. CASE RestoreDev
  BY <1>16, DevStartSettles DEF RestoreDev
<1>17. CASE RestoreDone
  BY <1>17 DEF RestoreDone
<1>18. CASE DevEnds
  BY <1>18 DEF DevEnds
<1>19. CASE UserStopsDev
  BY <1>19 DEF UserStopsDev
<1>20. CASE UserStartsDev
  BY <1>20 DEF UserStartsDev
<1>21. CASE DevSetup
  BY <1>21 DEF DevSetup
<1>22. CASE DevOn
  BY <1>22 DEF DevOn
<1>23. CASE ManualUpgrade
  BY <1>23 DEF ManualUpgrade
<1>24. CASE Publish
  BY <1>24 DEF Publish
<1>25. CASE MachineBoots
  BY <1>25 DEF MachineBoots
<1>26. CASE UNCHANGED upgradeVars
  BY <1>26 DEF upgradeVars
<1> QED
  BY <1>1, <1>2, <1>3, <1>4, <1>5, <1>6, <1>7, <1>8, <1>9, <1>10, <1>11, <1>12, <1>13, <1>14,
     <1>15, <1>16, <1>17, <1>18, <1>19, <1>20, <1>21, <1>22, <1>23, <1>24, <1>25, <1>26
  DEF UpgradeNext, UpgradeStep, ProdStarts

\* The invariant holds in every reachable state.
THEOREM UpgradeInvariant == UpgradeSpec => []UpgradeInv
  BY UpgradeInvInit, UpgradeInvStep, PTL DEF UpgradeSpec

\* A dev daemon that an upgrade stopped is on record until a start of prod has settled
\* with it, whatever step the prod process dies in (coordinatedUpgrade and
\* runUpgradePostRespawnRestore).
THEOREM DevIsRecorded == UpgradeSpec => []StoppedDevIsRecorded
<1>1. UpgradeInv => StoppedDevIsRecorded
  OBVIOUS
<1> QED
  BY <1>1, UpgradeInvariant, PTL

\* A prod process past its start finds no upgrade lock but its own.
THEOREM LockHasHolder == UpgradeSpec => []LockIsOwn
<1>1. UpgradeInv => LockIsOwn
  BY DEF LockIsOwn, BeatPcs
<1> QED
  BY <1>1, UpgradeInvariant, PTL

\* The binary is replaced under a coordinated upgrade only with the dev daemon down, or
\* started meanwhile by its user.
THEOREM SwapsQuietly == UpgradeSpec => SwapIsQuiet
<1>1. ASSUME UpgradeInv
      PROVE  [beatPc = "download" /\ disk' # disk /\ wasRunning /\ owed
                => dev = "down"]_upgradeVars
  BY <1>1
<1> QED
  BY <1>1, UpgradeInvariant, PTL DEF UpgradeSpec, SwapIsQuiet

-----------------------------------------------------------------------------
(* The types of the upgrade.                                               *)

\* UpgradeTypeOK in two parts, without the sets it is written with.
UpgradePlaces ==
    /\ os \in Systems /\ source \in Sources
    /\ latest \in 0 .. MaxReleases /\ disk \in 0 .. MaxReleases
    /\ prodVersion \in 0 .. MaxReleases /\ devVersion \in 0 .. MaxReleases
    /\ prod \in {"down", "boot", "restored", "up"} /\ beatPc \in BeatPcs
    /\ dev \in {"down", "stopping", "up"}
    /\ moves \in 0 .. MaxMoves

UpgradeFlags ==
    /\ wasRunning \in BOOLEAN /\ coordinated \in BOOLEAN /\ checked \in BOOLEAN
    /\ updateMark \in BOOLEAN /\ lock \in BOOLEAN /\ restore \in BOOLEAN
    /\ devConfig \in BOOLEAN /\ devLoaded \in BOOLEAN /\ devStopped \in BOOLEAN
    /\ owed \in BOOLEAN /\ failed \in BOOLEAN

UpgradeTypes == UpgradePlaces /\ UpgradeFlags

LEMMA UpgradeTypesSuffice == UpgradeTypes => UpgradeTypeOK
  BY DEF UpgradeTypes, UpgradePlaces, UpgradeFlags, UpgradeTypeOK

LEMMA UpgradeTypesInit == UpgradeInit => UpgradeTypes
<1> SUFFICES ASSUME UpgradeInit PROVE UpgradeTypes
  OBVIOUS
<1>1. 0 \in 0 .. MaxReleases /\ 0 \in 0 .. MaxMoves
  BY UpgradeAssumption
<1> QED
  BY <1>1 DEF UpgradeInit, UpgradeTypes, UpgradePlaces, UpgradeFlags, BeatPcs

\* A fault, a restart or a command of the user is counted up to its bound.
LEMMA MoveCounted == ASSUME moves \in 0 .. MaxMoves, Moves PROVE moves' \in 0 .. MaxMoves
  BY UpgradeAssumption DEF Moves

\* What starting dev leaves of its types.
LEMMA DevStartTypes ==
  ASSUME UpgradeTypes, DevStart
  PROVE  /\ dev' \in {"down", "stopping", "up"} /\ devVersion' \in 0 .. MaxReleases
         /\ devLoaded' \in BOOLEAN /\ owed' \in BOOLEAN /\ failed' \in BOOLEAN
         /\ moves' \in 0 .. MaxMoves
<1>1. CASE DevRuns /\ owed' = (owed /\ dev = "stopping") /\ failed' = (failed \/ dev = "stopping")
           /\ UNCHANGED moves
  <2>1. /\ dev' \in {"down", "stopping", "up"} /\ devVersion' \in 0 .. MaxReleases
        /\ devLoaded' \in BOOLEAN /\ moves' \in 0 .. MaxMoves
    BY <1>1 DEF DevRuns, UpgradeTypes, UpgradePlaces
  <2>2. owed' \in BOOLEAN /\ failed' \in BOOLEAN
    BY <1>1, Zenon
  <2> QED
    BY <2>1, <2>2
<1>2. CASE /\ UNCHANGED <<dev, devVersion, devLoaded, owed>> /\ failed' = TRUE
           /\ UNCHANGED moves \/ Moves
  BY <1>2, MoveCounted DEF UpgradeTypes, UpgradePlaces, UpgradeFlags
<1> QED
  BY <1>1, <1>2 DEF DevStart

\* Every step of the upgrade keeps the places, the versions and the count.
LEMMA UpgradePlacesStep == UpgradeTypes /\ [UpgradeNext]_upgradeVars => UpgradePlaces'
<1> SUFFICES ASSUME UpgradeTypes, [UpgradeNext]_upgradeVars PROVE UpgradePlaces'
  OBVIOUS
<1> USE DEF UpgradeTypes, UpgradePlaces, BeatPcs
<1>1. CASE HeartbeatBegins
  BY <1>1 DEF HeartbeatBegins
<1>2. CASE IntervalPasses
  BY <1>2 DEF IntervalPasses
<1>3. CASE BrewCheck
  BY <1>3 DEF BrewCheck
<1>4. CASE TakeLock
  BY <1>4 DEF TakeLock
<1>5. CASE PlainUpgrade
  BY <1>5 DEF PlainUpgrade, Replaced
<1>6. CASE LookAtDev
  BY <1>6 DEF LookAtDev
<1>7. CASE StopDev
  BY <1>7 DEF StopDev
<1>8. CASE PollStopped
  BY <1>8 DEF PollStopped
<1>9. CASE PollTimesOut
  BY <1>9 DEF PollTimesOut
<1>10. CASE Download
  BY <1>10 DEF Download, Replaced
<1>11. CASE DownloadFails
  BY <1>11, MoveCounted DEF DownloadFails
<1>12. CASE ProdCrash
  BY <1>12, MoveCounted DEF ProdCrash
<1>13. CASE UndoUpgrade
  BY <1>13, DevStartTypes DEF UndoUpgrade
<1>14. CASE ReleaseAndExit
  BY <1>14 DEF ReleaseAndExit
<1>15. CASE ProdRelaunch
  BY <1>15 DEF ProdRelaunch
<1>16. CASE RestoreDev
  BY <1>16, DevStartTypes DEF RestoreDev
<1>17. CASE RestoreDone
  BY <1>17 DEF RestoreDone
<1>18. CASE DevEnds
  BY <1>18 DEF DevEnds
<1>19. CASE UserStopsDev
  BY <1>19, MoveCounted DEF UserStopsDev
<1>20. CASE UserStartsDev
  BY <1>20, MoveCounted DEF UserStartsDev
<1>21. CASE DevSetup
  BY <1>21, MoveCounted DEF DevSetup, DevRuns
<1>22. CASE DevOn
  BY <1>22, MoveCounted DEF DevOn, DevRuns
<1>23. CASE ManualUpgrade
  BY <1>23, MoveCounted DEF ManualUpgrade, Replaced
<1>24. CASE Publish
  BY <1>24, UpgradeAssumption DEF Publish
<1>25. CASE MachineBoots
  BY <1>25, MoveCounted DEF MachineBoots
<1>26. CASE UNCHANGED upgradeVars
  BY <1>26 DEF upgradeVars
<1> QED
  BY <1>1, <1>2, <1>3, <1>4, <1>5, <1>6, <1>7, <1>8, <1>9, <1>10, <1>11, <1>12, <1>13,
     <1>14, <1>15, <1>16, <1>17, <1>18, <1>19, <1>20, <1>21, <1>22, <1>23, <1>24,
     <1>25, <1>26
  DEF UpgradeNext, UpgradeStep, ProdStarts

\* And every step keeps the flags.
LEMMA UpgradeFlagsStep == UpgradeTypes /\ [UpgradeNext]_upgradeVars => UpgradeFlags'
<1> SUFFICES ASSUME UpgradeTypes, [UpgradeNext]_upgradeVars PROVE UpgradeFlags'
  OBVIOUS
<1> USE DEF UpgradeTypes, UpgradeFlags
<1>1. CASE HeartbeatBegins
  BY <1>1, Zenon DEF HeartbeatBegins
<1>2. CASE IntervalPasses
  BY <1>2, Zenon DEF IntervalPasses
<1>3. CASE BrewCheck
  <2>1. (latest > prodVersion) \in BOOLEAN
    OBVIOUS
  <2> QED
    BY <1>3, <2>1, Zenon DEF BrewCheck
<1>4. CASE TakeLock
  BY <1>4, Zenon DEF TakeLock
<1>5. CASE PlainUpgrade
  BY <1>5, Zenon DEF PlainUpgrade
<1>6. CASE LookAtDev
  BY <1>6, Zenon DEF LookAtDev
<1>7. CASE StopDev
  BY <1>7, Zenon DEF StopDev
<1>8. CASE PollStopped
  BY <1>8, Zenon DEF PollStopped
<1>9. CASE PollTimesOut
  BY <1>9, Zenon DEF PollTimesOut
<1>10. CASE Download
  BY <1>10, Zenon DEF Download
<1>11. CASE DownloadFails
  BY <1>11, Zenon DEF DownloadFails
<1>12. CASE ProdCrash
  BY <1>12, Zenon DEF ProdCrash
<1>13. CASE UndoUpgrade
  BY <1>13, DevStartTypes, Zenon DEF UndoUpgrade
<1>14. CASE ReleaseAndExit
  BY <1>14, Zenon DEF ReleaseAndExit
<1>15. CASE ProdRelaunch
  BY <1>15, Zenon DEF ProdRelaunch
<1>16. CASE RestoreDev
  BY <1>16, DevStartTypes, Zenon DEF RestoreDev
<1>17. CASE RestoreDone
  BY <1>17, Zenon DEF RestoreDone
<1>18. CASE DevEnds
  BY <1>18, Zenon DEF DevEnds
<1>19. CASE UserStopsDev
  BY <1>19, Zenon DEF UserStopsDev
<1>20. CASE UserStartsDev
  BY <1>20, Zenon DEF UserStartsDev
<1>21. CASE DevSetup
  BY <1>21, Zenon DEF DevSetup, DevRuns
<1>22. CASE DevOn
  BY <1>22, Zenon DEF DevOn, DevRuns
<1>23. CASE ManualUpgrade
  BY <1>23, Zenon DEF ManualUpgrade
<1>24. CASE Publish
  BY <1>24, Zenon DEF Publish
<1>25. CASE MachineBoots
  BY <1>25, Zenon DEF MachineBoots
<1>26. CASE UNCHANGED upgradeVars
  BY <1>26 DEF upgradeVars
<1> QED
  BY <1>1, <1>2, <1>3, <1>4, <1>5, <1>6, <1>7, <1>8, <1>9, <1>10, <1>11, <1>12, <1>13,
     <1>14, <1>15, <1>16, <1>17, <1>18, <1>19, <1>20, <1>21, <1>22, <1>23, <1>24,
     <1>25, <1>26
  DEF UpgradeNext, UpgradeStep, ProdStarts

LEMMA UpgradeTypesStep == UpgradeTypes /\ [UpgradeNext]_upgradeVars => UpgradeTypes'
  BY UpgradePlacesStep, UpgradeFlagsStep DEF UpgradeTypes

-----------------------------------------------------------------------------
(* The move of the files.  A daemon that holds the lock is the only one    *)
(* that moves, and the marker comes only when everything is moved.  It may *)
(* come early, from a dev daemon that finds no flat file while prod has    *)
(* yet to rewrite the configuration; prod then still gets to rewrite it    *)
(* before it opens its buffer.                                             *)

USE LayoutAssumption
USE DEF layoutVars, places, locking, walk, around

\* No daemon runs while a reset removes its files.
WipedAlone == /\ wiping # "no" => \A d \in Daemons : at[d] = "off"
              /\ wiping = "profiles" => \A f \in Named : nested[f] = "none"

\* The buffer is opened with the marker there.
OpensMarked == \A d \in Daemons : at[d] \in {"release", "open"} => marker

\* Only the holder of the lock is past it.
OneMover == \A d \in Daemons : at[d] \in Holding => mutex = d

\* A rollback begins with a file that is still there.
UndoneIsPresent == \A d \in Daemons : at[d] = "undo" => IsFlatLayoutPresent

\* Where the marker came before the mover was done, all files were moved, by prod.
MarkedMover ==
  marker => \A d \in Daemons :
    at[d] \in {"move", "undo", "rewrite"} => d = "prod" /\ ~IsFlatLayoutPresent

\* The files that a walk has passed are moved.
Walked ==
  \A d \in Daemons :
    /\ at[d] \notin {"move", "undo"} => reached[d] = 1
    /\ at[d] = "move" => \A i \in DOMAIN Files : i < reached[d] => flat[Files[i]] # "old"
    /\ at[d] \in {"rewrite", "mark"} => \A f \in Named : flat[f] # "old"

\* With the marker there nothing of the old installation is left in the root.
MarkedFlat == marker => \A f \in Named : flat[f] # "old"

\* The old buffer lies in prod/ and the configuration there does not name it.
Misnamed == nested["config"] # "none" /\ bufferPath = "root" /\ nested["buffer"] = "old"

\* That is so only until the mover, or a later one, has rewritten the configuration,
\* if no error of the rewriting was ignored.
MisnamedIsMoving ==
  /\ Misnamed => IsFlatLayoutPresent \/ \E d \in Daemons : at[d] \in {"move", "rewrite"}
  /\ Misnamed /\ marker => at["prod"] \in {"move", "rewrite"}
  /\ \A d \in Daemons : at[d] = "mark" => ~Misnamed

\* A buffer is made only when there is none of the old installation.
OpenedLast ==
  at["prod"] = "running" /\ opened = "new" => flat["buffer"] # "old" /\ nested["buffer"] # "old"

LayoutSafe ==
  /\ OneMover /\ UndoneIsPresent /\ MarkedMover /\ Walked /\ MarkedFlat
  /\ ~unnamed => MisnamedIsMoving /\ OpenedLast

LayoutParts == WipedAlone /\ OpensMarked /\ (~spoilt => LayoutSafe)

LayoutInv == LayoutTypeOK /\ LayoutParts

USE DEF WipedAlone, OpensMarked, OneMover, UndoneIsPresent, MarkedMover, Walked, MarkedFlat,
        Misnamed, MisnamedIsMoving, OpenedLast, GoesTo, NoWalk, Daemons, Holding,
        IsFlatLayoutPresent, Unwritten

Outside == {"off", "look", "lock", "held", "stale", "open", "running"}

USE DEF Outside

LEMMA FileNames ==
  /\ Named = {"config", "buffer", "sentinel"} /\ DOMAIN Files = 1 .. 3 /\ Len(Files) = 3
  /\ Files[1] = "config" /\ Files[2] = "buffer" /\ Files[3] = "sentinel"
BY DEF Named, Files

LEMMA FilesNamed == \A i \in 1 .. 3 : Files[i] \in Named
BY FileNames

LEMMA LayoutStarts == LayoutInit => LayoutInv
<1> SUFFICES ASSUME LayoutInit PROVE LayoutInv
  OBVIOUS
<1>1. /\ flat \in [Named -> Kept] /\ nested \in [Named -> Kept]
      /\ at \in [Daemons -> Holding \cup Outside]
      /\ reached \in [Daemons -> 1 .. 4] /\ moved \in [Daemons -> SUBSET Named]
  BY FileNames DEF LayoutInit, Kept
<1>2. installed \in BOOLEAN
  BY DEF LayoutInit
<1>3. /\ bufferPath \in {"root", "prod", "torn"} /\ marker \in BOOLEAN /\ mutex \in Daemons \cup {"free"}
      /\ aged \in BOOLEAN /\ opened \in Kept /\ wiping \in {"no", "stopped", "profiles"}
      /\ spoilt \in BOOLEAN /\ unnamed \in BOOLEAN
  BY DEF LayoutInit, Kept
<1>4. troubles \in 0 .. MaxTroubles /\ resets \in 0 .. MaxResets
  BY DEF LayoutInit
<1>5. LayoutTypeOK
  BY <1>1, <1>2, <1>3, <1>4 DEF LayoutTypeOK
<1>6. WipedAlone /\ OpensMarked /\ LayoutSafe
  BY FileNames DEF LayoutInit, LayoutSafe
<1> QED
  BY <1>5, <1>6 DEF LayoutInv, LayoutParts

LEMMA LayoutTypes ==
  ASSUME LayoutTypeOK, [LayoutNext]_layoutVars PROVE LayoutTypeOK'
<1> USE FileNames, FilesNamed DEF LayoutTypeOK, Kept, Carry, OrNew
<1>1. ASSUME NEW d \in Daemons, Starts(d) PROVE LayoutTypeOK'
  BY <1>1 DEF Starts
<1>2. ASSUME NEW d \in Daemons, Looks(d) PROVE LayoutTypeOK'
  BY <1>2 DEF Looks
<1>3. ASSUME NEW d \in Daemons, Acquires(d) PROVE LayoutTypeOK'
  BY <1>3 DEF Acquires
<1>4. ASSUME NEW d \in Daemons, FindsHeld(d) PROVE LayoutTypeOK'
  BY <1>4 DEF FindsHeld
<1>5. ASSUME NEW d \in Daemons, FindsStale(d) PROVE LayoutTypeOK'
  BY <1>5 DEF FindsStale
<1>6. ASSUME NEW d \in Daemons, RemovesStale(d) PROVE LayoutTypeOK'
  BY <1>6 DEF RemovesStale
<1>7. ASSUME NEW d \in Daemons, Checks(d) PROVE LayoutTypeOK'
  BY <1>7 DEF Checks
<1>8. ASSUME NEW d \in Daemons, MovesFile(d) PROVE LayoutTypeOK'
  BY <1>8 DEF MovesFile
<1>9. ASSUME NEW d \in Daemons, MovesEnd(d) PROVE LayoutTypeOK'
  BY <1>9 DEF MovesEnd
<1>10. ASSUME NEW d \in Daemons, UndoEnds(d) PROVE LayoutTypeOK'
  BY <1>10 DEF UndoEnds
<1>11. ASSUME NEW d \in Daemons, Rewrites(d) PROVE LayoutTypeOK'
  BY <1>11 DEF Rewrites
<1>12. ASSUME NEW d \in Daemons, Marks(d) PROVE LayoutTypeOK'
  BY <1>12 DEF Marks
<1>13. ASSUME NEW d \in Daemons, Releases(d) PROVE LayoutTypeOK'
  BY <1>13 DEF Releases
<1>14. ASSUME NEW d \in Daemons, OpensBuffer(d) PROVE LayoutTypeOK'
  BY <1>14 DEF OpensBuffer
<1>15. ASSUME NEW d \in Daemons, RenameFails(d) PROVE LayoutTypeOK'
  BY <1>15 DEF RenameFails
<1>16. ASSUME NEW d \in Daemons, Ends(d) PROVE LayoutTypeOK'
  BY <1>16 DEF Ends
<1>17. ASSUME NEW d \in Daemons, Dies(d) PROVE LayoutTypeOK'
  BY <1>17 DEF Dies
<1>28. ASSUME NEW d \in Daemons, RewriteFails(d) PROVE LayoutTypeOK'
  BY <1>28 DEF RewriteFails
<1>29. ASSUME NEW d \in Daemons, MarkFails(d) PROVE LayoutTypeOK'
  BY <1>29 DEF MarkFails
<1>18. CASE LockAges
  BY <1>18 DEF LockAges
<1>19. CASE Sleeps
  BY <1>19 DEF Sleeps
<1>20. CASE Setup
  BY <1>20 DEF Setup
<1>21. CASE ResetStops
  <2>1. /\ at' \in [Daemons -> Holding \cup Outside]
        /\ reached' \in [Daemons -> 1 .. 4] /\ moved' \in [Daemons -> SUBSET Named]
    BY <1>21 DEF ResetStops
  <2>2. resets' \in 0 .. MaxResets
    BY <1>21 DEF ResetStops
  <2>3. spoilt' \in BOOLEAN
    BY <1>21 DEF ResetStops
  <2> QED
    BY <1>21, <2>1, <2>2, <2>3 DEF ResetStops
<1>22. CASE ResetWipesProfiles
  BY <1>22 DEF ResetWipesProfiles
<1>23. CASE ResetWipesRoot
  BY <1>23 DEF ResetWipesRoot
<1>24. ASSUME NEW d \in Daemons, NEW e \in BOOLEAN, Waits(d, e) PROVE LayoutTypeOK'
  BY <1>24 DEF Waits
<1>25. ASSUME NEW d \in Daemons, NEW f \in Named, NEW b \in BOOLEAN, Undoes(d, f, b)
       PROVE  LayoutTypeOK'
  BY <1>25 DEF Undoes
<1>26. CASE UNCHANGED layoutVars
  BY <1>26 DEF layoutVars
<1> HIDE DEF LayoutInv, LayoutTypeOK, LayoutParts, LayoutSafe, Daemons
<1>27. ASSUME NEW d \in Daemons, StartStep(d) PROVE LayoutTypeOK'
  BY <1>2, <1>3, <1>4, <1>5, <1>6, <1>7, <1>8, <1>9, <1>10, <1>11, <1>12, <1>13, <1>14, <1>24,
     <1>25, <1>27
  DEF StartStep
<1> QED
  BY <1>1, <1>15, <1>16, <1>17, <1>18, <1>19, <1>20, <1>21, <1>22, <1>23, <1>25, <1>26, <1>27,
     <1>28, <1>29
  DEF LayoutNext

LEMMA LayoutKeeps ==
  ASSUME LayoutInv, [LayoutNext]_layoutVars PROVE LayoutParts'
<1> USE FileNames, FilesNamed DEF LayoutInv, LayoutTypeOK, LayoutParts, LayoutSafe, Carry, OrNew
<1>1. ASSUME NEW d \in Daemons, Starts(d) PROVE LayoutParts'
  BY <1>1 DEF Starts
<1>2. ASSUME NEW d \in Daemons, Looks(d) PROVE LayoutParts'
  <2>1. WipedAlone' /\ OpensMarked'
    BY <1>2 DEF Looks
  <2>2. ~spoilt' => OneMover' /\ UndoneIsPresent' /\ Walked' /\ MarkedFlat'
                /\ (~unnamed' => OpenedLast')
    BY <1>2 DEF Looks
  <2>3. ~spoilt' => MarkedMover'
    BY <1>2 DEF Looks
  <2>4. ~spoilt' /\ ~unnamed' => MisnamedIsMoving'
    BY <1>2 DEF Looks
  <2> QED
    BY <2>1, <2>2, <2>3, <2>4
<1>3. ASSUME NEW d \in Daemons, Acquires(d) PROVE LayoutParts'
  BY <1>3 DEF Acquires
<1>4. ASSUME NEW d \in Daemons, FindsHeld(d) PROVE LayoutParts'
  BY <1>4 DEF FindsHeld
<1>5. ASSUME NEW d \in Daemons, FindsStale(d) PROVE LayoutParts'
  BY <1>5 DEF FindsStale
<1>6. ASSUME NEW d \in Daemons, RemovesStale(d) PROVE LayoutParts'
  <2>1. ~spoilt' => ~spoilt /\ (mutex = "free" \/ at[mutex] \notin Holding)
    BY <1>6 DEF RemovesStale
  <2>2. ~spoilt' => \A j \in Daemons : at[j] \notin Holding
    BY <2>1
  <2>3. OneMover' \/ spoilt'
    BY <1>6, <2>2 DEF RemovesStale
  <2>4. ~spoilt' => /\ UndoneIsPresent' /\ MarkedMover' /\ Walked' /\ MarkedFlat'
                    /\ (~unnamed' => MisnamedIsMoving' /\ OpenedLast')
    BY <1>6, <2>1 DEF RemovesStale
  <2>5. WipedAlone' /\ OpensMarked'
    BY <1>6 DEF RemovesStale
  <2> QED
    BY <2>3, <2>4, <2>5
<1>7. ASSUME NEW d \in Daemons, Checks(d) PROVE LayoutParts'
  BY <1>7 DEF Checks
<1>8. ASSUME NEW d \in Daemons, MovesFile(d) PROVE LayoutParts'
  BY <1>8 DEF MovesFile
<1>9. ASSUME NEW d \in Daemons, MovesEnd(d) PROVE LayoutParts'
  BY <1>9 DEF MovesEnd
<1>10. ASSUME NEW d \in Daemons, UndoEnds(d) PROVE LayoutParts'
  BY <1>10 DEF UndoEnds
<1>11. ASSUME NEW d \in Daemons, Rewrites(d) PROVE LayoutParts'
  BY <1>11 DEF Rewrites
<1>12. ASSUME NEW d \in Daemons, Marks(d) PROVE LayoutParts'
  BY <1>12 DEF Marks
<1>13. ASSUME NEW d \in Daemons, Releases(d) PROVE LayoutParts'
  BY <1>13 DEF Releases
<1>14. ASSUME NEW d \in Daemons, OpensBuffer(d) PROVE LayoutParts'
  BY <1>14 DEF OpensBuffer
<1>15. ASSUME NEW d \in Daemons, RenameFails(d) PROVE LayoutParts'
  BY <1>15 DEF RenameFails
<1>16. ASSUME NEW d \in Daemons, Ends(d) PROVE LayoutParts'
  BY <1>16 DEF Ends
<1>17. ASSUME NEW d \in Daemons, Dies(d) PROVE LayoutParts'
  <2>1. WipedAlone' /\ OpensMarked'
    BY <1>17 DEF Dies
  <2>2. ~spoilt' => OneMover' /\ UndoneIsPresent' /\ Walked' /\ MarkedFlat'
                /\ (~unnamed' => OpenedLast')
    BY <1>17 DEF Dies
  <2>3. ~spoilt' => MarkedMover'
    BY <1>17 DEF Dies
  <2> HIDE DEF Misnamed, IsFlatLayoutPresent
  <2>4. /\ Misnamed' = Misnamed /\ IsFlatLayoutPresent' = IsFlatLayoutPresent
        /\ marker' = marker /\ unnamed' = unnamed
        /\ \A j \in Daemons : at'[j] = IF j = d THEN "off" ELSE at[j]
    BY <1>17 DEF Dies, Misnamed, IsFlatLayoutPresent
  <2>5. ~spoilt' => ~spoilt /\ (at[d] \in {"move", "rewrite"} => IsFlatLayoutPresent /\ ~marker)
    BY <1>17 DEF Dies, Misnamed, IsFlatLayoutPresent
  <2>6. ~spoilt' /\ ~unnamed' => MisnamedIsMoving'
    BY <2>4, <2>5
  <2> QED
    BY <2>1, <2>2, <2>3, <2>6
<1>28. ASSUME NEW d \in Daemons, RewriteFails(d) PROVE LayoutParts'
  BY <1>28 DEF RewriteFails
<1>29. ASSUME NEW d \in Daemons, MarkFails(d) PROVE LayoutParts'
  BY <1>29 DEF MarkFails
<1>18. CASE LockAges
  BY <1>18 DEF LockAges
<1>19. CASE Sleeps
  BY <1>19 DEF Sleeps
<1>20. CASE Setup
  BY <1>20 DEF Setup
<1>21. CASE ResetStops
  BY <1>21 DEF ResetStops
<1>22. CASE ResetWipesProfiles
  BY <1>22 DEF ResetWipesProfiles
<1>23. CASE ResetWipesRoot
  BY <1>23 DEF ResetWipesRoot
<1>24. ASSUME NEW d \in Daemons, NEW e \in BOOLEAN, Waits(d, e) PROVE LayoutParts'
  BY <1>24 DEF Waits
<1>25. ASSUME NEW d \in Daemons, NEW f \in Named, NEW b \in BOOLEAN, Undoes(d, f, b)
       PROVE  LayoutParts'
  BY <1>25 DEF Undoes
<1>26. CASE UNCHANGED layoutVars
  BY <1>26 DEF layoutVars, Carry, OrNew
<1> HIDE DEF LayoutInv, LayoutTypeOK, LayoutParts, LayoutSafe, Daemons
<1>27. ASSUME NEW d \in Daemons, StartStep(d) PROVE LayoutParts'
  BY <1>2, <1>3, <1>4, <1>5, <1>6, <1>7, <1>8, <1>9, <1>10, <1>11, <1>12, <1>13, <1>14, <1>24,
     <1>25, <1>27
  DEF StartStep
<1> QED
  BY <1>1, <1>15, <1>16, <1>17, <1>18, <1>19, <1>20, <1>21, <1>22, <1>23, <1>25, <1>26, <1>27,
     <1>28, <1>29
  DEF LayoutNext

\* Every step keeps the invariant.
LEMMA LayoutStep == LayoutInv /\ [LayoutNext]_layoutVars => LayoutInv'
  BY LayoutTypes, LayoutKeeps DEF LayoutInv

\* No two daemons move files at once, nothing is marked that is not moved, and the variables
\* keep to their types.
THEOREM LayoutInvariant == LayoutSpec => []LayoutInv
  BY LayoutStarts, LayoutStep, PTL DEF LayoutSpec

\* For any number of failed renames, failed writes, crashes, sleeps and resets: once the
\* marker is there no old file is left in the root, and prod never runs on a new buffer
\* while the old one lies somewhere, outside the three cases that `spoilt` names and, for
\* the buffer, that of a rewriting of the configuration whose error was ignored.
THEOREM MovedWhenMarked == LayoutSpec => []MarkedIsMoved
<1>1. LayoutInv => MarkedIsMoved
  BY DEF LayoutInv, LayoutParts, LayoutSafe, MarkedIsMoved
<1> QED
  BY <1>1, LayoutInvariant, PTL

-----------------------------------------------------------------------------
(* config.toml.  What the commands reported and the user wrote stays in    *)
(* it, and no capture cycle takes a folder that the daemon knows is        *)
(* excluded.  FileKeeps compares the folders two lists withhold; what an   *)
(* unexclude leaves of them depends on the names, so the invariant         *)
(* compares the keys by which the commands tell names apart, in a file     *)
(* that parses and in one that does not.  The rest of it is what a command *)
(* holds between its steps.                                                *)

\* The keys of the entries of a list that are read.
LexKeys(list) == {LexicalFolderKey(e) : e \in {d \in list : IsValidExclusionPath(d)}}

Folders(keys) == {IF k = "linked" THEN "plain" ELSE k : k \in keys}

KeyOrNone == Keys \cup {""}
Paths == {"default", "custom"}
FileT == [state : {"none", "garbled", "read"}, key : KeyOrNone, bad : SUBSET Sections,
          tuned : SUBSET Sections, paths : Paths, limit : {"absent", "number", "infinite"},
          list : SUBSET Entries]
CommandT == [op : Ops, arg : Entries, key : KeyOrNone,
             at : {"idle", "asked", "loaded", "verified", "registered"},
             replaces : BOOLEAN, base : FileT, paths : Paths]

Typed ==
    /\ toml \in FileT /\ said \in FileT
    /\ command \in [Commands -> CommandT]
    /\ bound \subseteq Keys
    /\ reader \in [on : BOOLEAN, list : SUBSET Entries]
    /\ known \subseteq Entries

\* A file that holds what is settled.
Agrees(f, s) ==
    /\ f.key = s.key /\ f.tuned = s.tuned /\ f.paths = s.paths
    /\ s.limit = "number" => f.limit = "number"
    /\ LexKeys(f.list) = LexKeys(s.list)

\* What a command holds: an exclude a readable file and a name that is read, a setup
\* the file it replaces, if there is one, and in the end a key that is bound.
Holds(w, keys) ==
    /\ w.at # "idle" /\ w.op \in {"exclude", "unexclude"} =>
         w.at = "loaded" /\ IsValidExclusionPath(w.arg)
         /\ w.base.state = "read" /\ w.base.key \in keys
    /\ w.at # "idle" /\ w.op \notin {"exclude", "unexclude"} =>
         /\ w.key \in Keys
         /\ ~w.replaces => w.paths = "default" /\ w.base = NoConfig
    /\ w.op = "dev" => ~w.replaces
    /\ w.at = "registered" => w.key \in keys /\ w.op \notin {"exclude", "unexclude"}

ConfigInvariant ==
    /\ Typed
    /\ Agrees(toml, said)
    /\ toml.state # "none" => toml.key \in bound
    /\ toml.state = "none" => toml.bad = {}
    /\ \A c \in Commands : Holds(command[c], bound)
    /\ reader.on => Prefixes(known) \subseteq Prefixes(reader.list)

-----------------------------------------------------------------------------
(* Lists. *)

\* Names that the commands take for the same are of the same folder.
LEMMA PrefixesOfKeys ==
  ASSUME NEW list PROVE Prefixes(list) = Folders(LexKeys(list))
  BY Zenon DEF Prefixes, Folders, LexKeys, NormalizeFolderPath

\* Lists that agree in their keys withhold the same folders.
LEMMA SameKeysSamePrefixes ==
  ASSUME NEW a, NEW b, LexKeys(a) = LexKeys(b) PROVE Prefixes(a) = Prefixes(b)
  BY PrefixesOfKeys

\* Adding a name that is read adds its key.
LEMMA KeysOfAdded ==
  ASSUME NEW list, NEW e, IsValidExclusionPath(e)
  PROVE  LexKeys(list \cup {e}) = LexKeys(list) \cup {LexicalFolderKey(e)}
  BY DEF LexKeys

\* Removing the names of a key removes that key and no other.
LEMMA KeysOfRemoved ==
  ASSUME NEW list, NEW e
  PROVE  LexKeys({d \in list : LexicalFolderKey(d) # LexicalFolderKey(e)})
           = LexKeys(list) \ {LexicalFolderKey(e)}
  BY DEF LexKeys

\* A name that is not read has a key of its own.
LEMMA ReadByKey ==
  ASSUME NEW d, NEW e, LexicalFolderKey(d) = LexicalFolderKey(e), IsValidExclusionPath(e)
  PROVE  IsValidExclusionPath(d)
  BY DEF LexicalFolderKey, IsValidExclusionPath

\* The list an exclude or unexclude asks for has the keys it reports.
LEMMA NextListKeys ==
  ASSUME NEW w, NEW s, LexKeys(w.base.list) = LexKeys(s), IsValidExclusionPath(w.arg)
  PROVE  /\ w.op = "unexclude" =>
              LexKeys(NextList(w))
                = LexKeys({d \in s : LexicalFolderKey(d) # LexicalFolderKey(w.arg)})
         /\ w.op # "unexclude" => LexKeys(NextList(w)) = LexKeys(s \cup {w.arg})
<1> DEFINE same == {d \in w.base.list : LexicalFolderKey(d) = LexicalFolderKey(w.arg)}
<1>1. ASSUME w.op = "unexclude"
      PROVE  LexKeys(NextList(w))
               = LexKeys({d \in s : LexicalFolderKey(d) # LexicalFolderKey(w.arg)})
  <2>1. NextList(w) = {d \in w.base.list : LexicalFolderKey(d) # LexicalFolderKey(w.arg)}
    BY <1>1 DEF NextList
  <2>2. LexKeys(NextList(w)) = LexKeys(w.base.list) \ {LexicalFolderKey(w.arg)}
    BY <2>1, KeysOfRemoved
  <2>3. LexKeys({d \in s : LexicalFolderKey(d) # LexicalFolderKey(w.arg)})
          = LexKeys(s) \ {LexicalFolderKey(w.arg)}
    BY KeysOfRemoved
  <2> QED
    BY <2>2, <2>3
<1>2. ASSUME w.op # "unexclude", same # {}
      PROVE  LexKeys(NextList(w)) = LexKeys(s \cup {w.arg})
  <2>1. NextList(w) = w.base.list
    BY <1>2 DEF NextList
  <2>2. PICK d \in w.base.list : LexicalFolderKey(d) = LexicalFolderKey(w.arg)
    BY <1>2
  <2>3. LexicalFolderKey(w.arg) \in LexKeys(w.base.list)
    BY <2>2, ReadByKey DEF LexKeys
  <2>4. LexKeys(s \cup {w.arg}) = LexKeys(s) \cup {LexicalFolderKey(w.arg)}
    BY KeysOfAdded
  <2> QED
    BY <2>1, <2>3, <2>4
<1>3. ASSUME w.op # "unexclude", same = {}
      PROVE  LexKeys(NextList(w)) = LexKeys(s \cup {w.arg})
  <2>1. NextList(w) = w.base.list \cup {w.arg}
    BY <1>3 DEF NextList
  <2>2. LexKeys(NextList(w)) = LexKeys(w.base.list) \cup {LexicalFolderKey(w.arg)}
    BY <2>1, KeysOfAdded
  <2>3. LexKeys(s \cup {w.arg}) = LexKeys(s) \cup {LexicalFolderKey(w.arg)}
    BY KeysOfAdded
  <2> QED
    BY <2>2, <2>3
<1> QED
  BY <1>1, <1>2, <1>3

-----------------------------------------------------------------------------
(* The steps. *)

\* Files: none, a new one, and one written anew.
LEMMA FileTypes ==
  /\ NoConfig \in FileT
  /\ NoConfig.state = "none" /\ NoConfig.bad = {} /\ NoConfig.key = "" /\ NoConfig.tuned = {}
  /\ NoConfig.paths = "default" /\ NoConfig.limit = "absent" /\ NoConfig.list = {}
  /\ Idle \in CommandT /\ Idle.at = "idle" /\ Idle.op = "exclude" /\ Idle.replaces = FALSE
<1>1. NoConfig \in FileT /\ NoConfig.state = "none" /\ NoConfig.bad = {}
      /\ NoConfig.key = "" /\ NoConfig.tuned = {}
      /\ NoConfig.paths = "default" /\ NoConfig.limit = "absent" /\ NoConfig.list = {}
  BY DEF NoConfig, FileT, KeyOrNone, Paths
<1> QED
  BY <1>1 DEF Idle, CommandT, KeyOrNone, Ops, Entries, Paths

\* Writing a file changes nothing but an infinite limit.
LEMMA SerializedFile ==
  ASSUME NEW f \in FileT
  PROVE  /\ Serialized(f) \in FileT /\ Serialized(f).state = "read"
         /\ Serialized(f).key = f.key /\ Serialized(f).tuned = f.tuned
         /\ Serialized(f).paths = f.paths /\ Serialized(f).list = f.list
         /\ f.limit = "number" => Serialized(f).limit = "number"
  BY DEF Serialized, FileT

\* A command that moves on leaves the others what they hold.
LEMMA CommandsHold ==
  ASSUME Typed, NEW c \in Commands, NEW w \in CommandT, command' = [command EXCEPT ![c] = w],
         NEW keys, bound \subseteq keys, Holds(w, keys),
         \A d \in Commands : Holds(command[d], bound)
  PROVE  /\ command' \in [Commands -> CommandT]
         /\ \A d \in Commands : Holds(command'[d], keys)
<1>1. command' \in [Commands -> CommandT]
  BY DEF Typed
<1>2. ASSUME NEW d \in Commands PROVE Holds(command'[d], keys)
  <2>1. CASE d = c
    <3>1. command'[d] = w
      BY <2>1 DEF Typed
    <3> QED
      BY <3>1
  <2>2. CASE d # c
    <3>1. command'[d] = command[d] /\ Holds(command[d], bound)
      BY <2>2 DEF Typed
    <3> QED
      BY <3>1 DEF Holds
  <2> QED
    BY <2>1, <2>2
<1> QED
  BY <1>1, <1>2

\* An idle command holds nothing.
LEMMA IdleHolds == ASSUME NEW keys PROVE Holds(Idle, keys)
  BY FileTypes DEF Holds

\* It holds of a machine that is not configured, and of one that has just been.
LEMMA ConfigInvariantInit == ConfigInit => ConfigInvariant
<1> SUFFICES ASSUME ConfigInit PROVE ConfigInvariant
  OBVIOUS
<1>1. toml \in FileT /\ said = toml /\ (toml.state # "none" => toml.key \in bound)
      /\ (toml.state = "none" => toml.bad = {}) /\ bound \subseteq Keys
  <2>1. CASE toml = NoConfig
    BY <2>1, FileTypes DEF ConfigInit, Keys
  <2>2. CASE toml = [NoConfig EXCEPT !.state = "read", !.key = "old_key"]
    BY <2>2 DEF ConfigInit, NoConfig, FileT, KeyOrNone, Keys, Paths
  <2> QED
    BY <2>1, <2>2 DEF ConfigInit
<1>2. command \in [Commands -> CommandT] /\ \A c \in Commands : command[c] = Idle
  BY FileTypes DEF ConfigInit
<1>3. reader \in [on : BOOLEAN, list : SUBSET Entries] /\ ~reader.on /\ known = {}
  BY DEF ConfigInit, Off
<1>4. \A c \in Commands : Holds(command[c], bound)
  BY <1>2, IdleHolds
<1>5. Agrees(toml, said)
  BY <1>1 DEF Agrees
<1> QED
  BY <1>1, <1>2, <1>3, <1>4, <1>5 DEF ConfigInvariant, Typed

\* A step of a command that leaves the file and the daemon alone.
LEMMA CommandMoves ==
  ASSUME ConfigInvariant, NEW c \in Commands, NEW w \in CommandT, Becomes(c, w),
         bound \subseteq bound', bound' \subseteq Keys, Holds(w, bound'),
         UNCHANGED <<toml, reader, said, known>>
  PROVE  ConfigInvariant'
<1>1. /\ command' \in [Commands -> CommandT]
      /\ \A d \in Commands : Holds(command'[d], bound')
  BY CommandsHold DEF ConfigInvariant, Becomes
<1>2. Typed'
  BY <1>1 DEF ConfigInvariant, Typed
<1> QED
  BY <1>1, <1>2 DEF ConfigInvariant, Agrees

\* A step that writes the file and settles what it holds.
LEMMA FileWritten ==
  ASSUME ConfigInvariant, toml' \in FileT, said' \in FileT, Agrees(toml', said'),
         toml'.state # "none" => toml'.key \in bound,
         toml'.state = "none" => toml'.bad = {},
         command' \in [Commands -> CommandT],
         \A d \in Commands : Holds(command'[d], bound),
         UNCHANGED <<bound, reader, known>>
  PROVE  ConfigInvariant'
<1>1. Typed'
  BY DEF ConfigInvariant, Typed
<1> QED
  BY <1>1 DEF ConfigInvariant

\* The same at the end of a command.
LEMMA CommandCloses ==
  ASSUME ConfigInvariant, NEW c \in Commands, Becomes(c, Idle),
         toml' \in FileT, said' \in FileT, Agrees(toml', said'),
         toml'.state # "none" => toml'.key \in bound,
         toml'.state = "none" => toml'.bad = {},
         UNCHANGED <<bound, reader, known>>
  PROVE  ConfigInvariant'
<1>1. /\ command' \in [Commands -> CommandT]
      /\ \A d \in Commands : Holds(command'[d], bound)
  BY CommandsHold, IdleHolds, FileTypes DEF ConfigInvariant, Becomes
<1> QED
  BY <1>1, FileWritten

\* An exclude or unexclude keeps the invariant.
LEMMA ExcludeSteps ==
  ASSUME ConfigInvariant, NEW c \in Commands,
         \/ \E e \in Entries, op \in {"exclude", "unexclude"} : ExcludeLoads(c, op, e)
         \/ ExcludeEnds(c)
  PROVE  ConfigInvariant'
<1>1. ASSUME NEW e \in Entries, NEW op \in {"exclude", "unexclude"}, ExcludeLoads(c, op, e)
      PROVE  ConfigInvariant'
  <2> DEFINE w == [Idle EXCEPT !.op = op, !.arg = e, !.at = "loaded", !.base = toml]
  <2>1. /\ w \in CommandT /\ w.op = op /\ w.arg = e /\ w.at = "loaded" /\ w.base = toml
        /\ w.replaces = FALSE
    BY FileTypes DEF ConfigInvariant, Typed, CommandT, Ops
  <2>2. toml.state = "read" /\ toml.key \in bound /\ IsValidExclusionPath(e)
    BY <1>1 DEF ExcludeLoads, Loads, ConfigInvariant
  <2>3. Holds(w, bound)
    BY <2>1, <2>2 DEF Holds
  <2>4. Becomes(c, w) /\ UNCHANGED <<toml, bound, reader, said, known>>
    BY <1>1 DEF ExcludeLoads
  <2>5. bound \subseteq bound' /\ bound' \subseteq Keys /\ Holds(w, bound')
    BY <2>3, <2>4 DEF ConfigInvariant, Typed
  <2> HIDE DEF w
  <2> QED
    BY <2>1, <2>4, <2>5, CommandMoves
<1>2. ASSUME ExcludeEnds(c) PROVE ConfigInvariant'
  <2> DEFINE w == command[c]
             written == [w.base EXCEPT !.list = NextList(w)]
             asked == IF w.op = "exclude" THEN said.list \cup {w.arg}
                      ELSE {d \in said.list : LexicalFolderKey(d) # LexicalFolderKey(w.arg)}
  <2>1. /\ w \in CommandT /\ w.base \in FileT /\ w.op \in {"exclude", "unexclude"}
        /\ IsValidExclusionPath(w.arg) /\ w.base.state = "read" /\ w.base.key \in bound
    BY <1>2 DEF ExcludeEnds, ConfigInvariant, Typed, CommandT, Holds
  <2>2. NextList(w) \subseteq Entries
    BY <2>1 DEF NextList, CommandT, FileT
  <2>3. /\ written \in FileT /\ written.key = w.base.key /\ written.tuned = w.base.tuned
        /\ written.paths = w.base.paths /\ written.limit = w.base.limit
        /\ written.list = NextList(w)
    BY <2>1, <2>2 DEF FileT
  <2>4. toml' = IF NextList(w) = w.base.list THEN toml ELSE Serialized(written)
    BY <1>2 DEF ExcludeEnds
  <2> HIDE DEF written
  <2>5. /\ toml' \in FileT /\ (toml'.state # "none" => toml'.key \in bound)
        /\ toml'.state = "none" => toml'.bad = {}
    BY <2>1, <2>3, <2>4, SerializedFile DEF ConfigInvariant, Typed
  <2>6. Becomes(c, Idle) /\ UNCHANGED <<bound, reader, known>>
    BY <1>2 DEF ExcludeEnds
  <2>7. CASE Overtaken(c)
    <3>1. said' = toml'
      BY <1>2, <2>7 DEF ExcludeEnds
    <3>2. said' \in FileT /\ Agrees(toml', said')
      BY <3>1, <2>5 DEF Agrees
    <3> QED
      BY <2>5, <2>6, <3>2, CommandCloses
  <2>8. CASE ~Overtaken(c)
    <3>1. said' = [said EXCEPT !.list = asked]
      BY <1>2, <2>8 DEF ExcludeEnds
    <3>2. w.base = toml
      BY <2>8 DEF Overtaken
    <3>3. asked \subseteq Entries
      BY <2>1 DEF CommandT, ConfigInvariant, Typed, FileT
    <3>4. /\ said' \in FileT /\ said'.key = said.key /\ said'.tuned = said.tuned
          /\ said'.paths = said.paths /\ said'.limit = said.limit /\ said'.list = asked
      BY <3>1, <3>3 DEF ConfigInvariant, Typed, FileT
    <3>5. LexKeys(w.base.list) = LexKeys(said.list)
      BY <3>2 DEF ConfigInvariant, Agrees
    <3>6. LexKeys(NextList(w)) = LexKeys(asked)
      BY <2>1, <3>5, NextListKeys
    <3>7. Agrees(toml, said)
      BY DEF ConfigInvariant
    <3> HIDE DEF asked
    <3>8. CASE NextList(w) = w.base.list
      <4>1. toml' = toml
        BY <2>4, <3>8
      <4> QED
        BY <4>1, <3>2, <3>4, <3>6, <3>7, <3>8, <2>5, <2>6, CommandCloses DEF Agrees
    <3>9. CASE NextList(w) # w.base.list
      <4>1. toml' = Serialized(written)
        BY <2>4, <3>9
      <4>2. /\ toml'.key = toml.key /\ toml'.tuned = toml.tuned /\ toml'.paths = toml.paths
            /\ toml'.list = NextList(w) /\ (toml.limit = "number" => toml'.limit = "number")
        BY <4>1, <3>2, <2>3, SerializedFile
      <4>3. Agrees(toml', said')
        BY <4>2, <3>4, <3>6, <3>7 DEF Agrees
      <4> QED
        BY <4>3, <3>4, <2>5, <2>6, CommandCloses
    <3> QED
      BY <3>8, <3>9
  <2> QED
    BY <2>7, <2>8
<1> QED
  BY <1>1, <1>2

\* The steps of a setup before it writes keep it.
LEMMA SetupSteps ==
  ASSUME ConfigInvariant, NEW c \in Commands,
         \/ \E k \in Keys, op \in {"setup", "new"} : SetupAsks(c, op, k)
         \/ \E k \in Keys : DevSetupAsks(c, k)
         \/ SetupLoads(c) \/ SetupVerifies(c) \/ SetupRegisters(c) \/ CommandFails(c)
  PROVE  ConfigInvariant'
<1> DEFINE w == command[c]
<1>0. w \in CommandT /\ Holds(w, bound) /\ bound \subseteq Keys /\ toml \in FileT
  BY DEF ConfigInvariant, Typed
<1>1. ASSUME NEW k \in Keys, NEW op \in {"setup", "new"}, SetupAsks(c, op, k)
      PROVE  ConfigInvariant'
  <2> DEFINE v == [Idle EXCEPT !.op = op, !.key = k, !.at = "asked",
                               !.replaces = (toml.state # "none"), !.paths = ResolvedPaths]
  <2>1. ResolvedPaths \in Paths /\ (toml.state = "none" => ResolvedPaths = "default")
    BY <1>0 DEF ResolvedPaths, Loads, FileT, Paths
  <2>2. /\ v \in CommandT /\ v.op = op /\ v.key = k /\ v.at = "asked"
        /\ v.replaces = (toml.state # "none") /\ v.base = NoConfig /\ v.paths = ResolvedPaths
    BY <2>1, FileTypes DEF Idle, CommandT, Ops, KeyOrNone
  <2>3. Becomes(c, v) /\ UNCHANGED <<toml, bound, reader, said, known>>
    BY <1>1 DEF SetupAsks
  <2> HIDE DEF v
  <2>4. Holds(v, bound')
    BY <2>1, <2>2 DEF Holds
  <2> QED
    BY <1>0, <2>2, <2>3, <2>4, CommandMoves
<1>2. ASSUME NEW k \in Keys, DevSetupAsks(c, k) PROVE ConfigInvariant'
  <2> DEFINE v == [Idle EXCEPT !.op = "dev", !.key = k, !.at = "loaded"]
  <2>1. /\ v \in CommandT /\ v.op = "dev" /\ v.key = k /\ v.at = "loaded"
        /\ v.replaces = FALSE /\ v.base = NoConfig /\ v.paths = "default"
    BY FileTypes DEF Idle, CommandT, Ops, KeyOrNone
  <2>2. Becomes(c, v) /\ UNCHANGED <<toml, bound, reader, said, known>>
    BY <1>2 DEF DevSetupAsks
  <2> HIDE DEF v
  <2>3. Holds(v, bound')
    BY <2>1 DEF Holds
  <2> QED
    BY <1>0, <2>1, <2>2, <2>3, CommandMoves
<1>3. ASSUME SetupLoads(c) PROVE ConfigInvariant'
  <2> DEFINE base == IF w.replaces THEN toml ELSE NoConfig
             v == [w EXCEPT !.at = "loaded", !.base = base]
  <2>1. base \in FileT /\ (~w.replaces => base = NoConfig) /\ w.at = "asked"
    BY <1>0, <1>3, FileTypes DEF SetupLoads
  <2>2. Becomes(c, v) /\ UNCHANGED <<toml, bound, reader, said, known>>
    BY <1>3 DEF SetupLoads
  <2> HIDE DEF base
  <2>3. /\ v \in CommandT /\ v.op = w.op /\ v.key = w.key /\ v.at = "loaded"
        /\ v.replaces = w.replaces /\ v.base = base /\ v.paths = w.paths
    BY <1>0, <2>1 DEF CommandT
  <2> HIDE DEF v
  <2>4. Holds(v, bound')
    BY <1>0, <2>1, <2>3 DEF Holds
  <2> QED
    BY <1>0, <2>2, <2>3, <2>4, CommandMoves
<1>4. ASSUME SetupVerifies(c) \/ SetupRegisters(c) PROVE ConfigInvariant'
  <2> DEFINE next == IF SetupVerifies(c) THEN "verified" ELSE "registered"
             v == [w EXCEPT !.at = next]
  <2>1. w.at # "idle" /\ w.op \notin {"exclude", "unexclude"}
    BY <1>0, <1>4 DEF SetupVerifies, SetupRegisters, Holds
  <2>2. /\ v \in CommandT /\ v.op = w.op /\ v.key = w.key /\ v.at = next
        /\ v.replaces = w.replaces /\ v.base = w.base /\ v.paths = w.paths
    BY <1>0 DEF CommandT
  <2>3. w.key \in Keys
    BY <1>0, <2>1 DEF Holds
  <2>4. /\ Becomes(c, v) /\ UNCHANGED <<toml, reader, said, known>>
        /\ bound \subseteq bound' /\ bound' \subseteq Keys
        /\ next = "registered" => w.key \in bound'
    BY <1>0, <1>4, <2>3 DEF SetupVerifies, SetupRegisters, Step
  <2> HIDE DEF next
  <2> HIDE DEF v
  <2>5. Holds(v, bound')
    BY <1>0, <2>1, <2>2, <2>4 DEF Holds
  <2> QED
    BY <2>2, <2>4, <2>5, CommandMoves
<1>5. ASSUME CommandFails(c) PROVE ConfigInvariant'
  <2>1. Becomes(c, Idle) /\ UNCHANGED <<toml, bound, reader, said, known>>
    BY <1>5 DEF CommandFails
  <2> QED
    BY <1>0, <2>1, FileTypes, IdleHolds, CommandMoves
<1> QED
  BY <1>1, <1>2, <1>3, <1>4, <1>5

\* So does the write: of the key, the defaults, and the exclusions and paths read.
LEMMA SetupWrites ==
  ASSUME ConfigInvariant, NEW c \in Commands, SetupEnds(c)
  PROVE  ConfigInvariant'
<1> DEFINE w == command[c]
           written == IF w.op = "dev" THEN DevConfig(w) ELSE BuildGatewayConfig(w)
<1>1. /\ w \in CommandT /\ w.base \in FileT /\ w.at = "registered" /\ Holds(w, bound)
      /\ bound \subseteq Keys /\ said \in FileT /\ Agrees(toml, said)
  BY DEF SetupEnds, ConfigInvariant, Typed, CommandT
<1>2. /\ w.key \in bound /\ w.key \in Keys /\ (w.op = "dev" => ~w.replaces)
      /\ ~w.replaces => w.paths = "default" /\ w.base = NoConfig
  BY <1>1 DEF Holds
<1>3. /\ written \in FileT /\ written.key = w.key /\ written.tuned = {}
      /\ written.limit = "absent"
      /\ w.op # "dev" => written.list = w.base.list /\ written.paths = w.paths
      /\ w.op = "dev" => written.list = {} /\ written.paths = "default"
  <2>1. w.key \in KeyOrNone /\ w.paths \in Paths /\ w.base.list \in SUBSET Entries
    BY <1>1 DEF CommandT, FileT
  <2>2. CASE w.op = "dev"
    <3>1. written = [NoConfig EXCEPT !.state = "read", !.key = w.key]
      BY <2>2 DEF DevConfig
    <3> QED
      BY <2>1, <2>2, <3>1, FileTypes DEF FileT
  <2>3. CASE w.op # "dev"
    <3>1. written = [NoConfig EXCEPT !.state = "read", !.key = w.key, !.list = w.base.list,
                                     !.paths = w.paths]
      BY <2>3 DEF BuildGatewayConfig
    <3> QED
      BY <2>1, <2>3, <3>1, FileTypes DEF FileT
  <2> QED
    BY <2>2, <2>3
<1>4. toml' = Serialized(written) /\ Becomes(c, Idle) /\ UNCHANGED <<bound, reader, known>>
  BY DEF SetupEnds
<1> HIDE DEF written
<1>5. /\ toml' \in FileT /\ toml'.key = w.key /\ toml'.tuned = {}
      /\ toml'.paths = written.paths /\ toml'.list = written.list
      /\ toml'.key \in bound /\ toml'.state = "read"
  BY <1>2, <1>3, <1>4, SerializedFile
<1>6. CASE Overtaken(c)
  <2>1. said' = toml'
    BY <1>6 DEF SetupEnds
  <2>2. said' \in FileT /\ Agrees(toml', said')
    BY <2>1, <1>5 DEF Agrees
  <2> QED
    BY <1>4, <1>5, <2>2, CommandCloses
<1>7. CASE ~Overtaken(c)
  <2>1. said' = [said EXCEPT !.key = w.key, !.tuned = {}, !.limit = "absent", !.state = "read"]
    BY <1>7 DEF SetupEnds
  <2>2. /\ said' \in FileT /\ said'.key = w.key /\ said'.tuned = {}
        /\ said'.limit = "absent" /\ said'.paths = said.paths /\ said'.list = said.list
    BY <1>1, <1>2, <2>1 DEF FileT, KeyOrNone
  <2>3. w.base = toml /\ (w.replaces => w.paths = toml.paths)
    BY <1>7 DEF Overtaken
  <2>4. LexKeys(toml'.list) = LexKeys(toml.list) /\ toml'.paths = toml.paths
    <3>1. CASE w.op = "dev"
      BY <3>1, <1>2, <1>3, <1>5, <2>3, FileTypes
    <3>2. CASE w.op # "dev"
      BY <3>2, <1>2, <1>3, <1>5, <2>3, FileTypes
    <3> QED
      BY <3>1, <3>2
  <2>5. Agrees(toml', said')
    BY <1>1, <1>5, <2>2, <2>4 DEF Agrees
  <2> QED
    BY <1>4, <1>5, <2>2, <2>5, CommandCloses
<1> QED
  BY <1>6, <1>7

\* An edit by hand settles what it writes, or damages the file and leaves it readable
\* again later with all that is settled.
LEMMA EditsKeep == ASSUME ConfigInvariant, Edits PROVE ConfigInvariant'
<1>1. /\ toml \in FileT /\ said \in FileT /\ Agrees(toml, said)
      /\ toml.state # "none" => toml.key \in bound
      /\ toml.state = "none" => toml.bad = {}
      /\ command \in [Commands -> CommandT] /\ \A d \in Commands : Holds(command[d], bound)
  BY DEF ConfigInvariant, Typed
<1>2. UNCHANGED <<command, bound, reader, known>>
  BY DEF Edits, Edited
<1>3. ASSUME NEW f \in FileT, NEW s \in FileT, toml' = f, said' = s, Agrees(f, s),
             f.key = toml.key, toml.state # "none", f.state # "none"
      PROVE  ConfigInvariant'
  BY <1>1, <1>2, <1>3, FileWritten
<1>4. ASSUME NEW s \in Sections, toml.state = "read",
             toml' = [toml EXCEPT !.tuned = @ \cup {s}],
             said' = [said EXCEPT !.tuned = @ \cup {s}]
      PROVE  ConfigInvariant'
  BY <1>1, <1>3, <1>4 DEF FileT, Agrees
<1>5. ASSUME NEW l \in {"number", "infinite"}, toml.state = "read",
             toml' = [toml EXCEPT !.limit = l], said' = [said EXCEPT !.limit = l]
      PROVE  ConfigInvariant'
  BY <1>1, <1>3, <1>5 DEF FileT, Agrees
<1>6. ASSUME toml.state = "read",
             toml' = [toml EXCEPT !.paths = "custom"], said' = [said EXCEPT !.paths = "custom"]
      PROVE  ConfigInvariant'
  BY <1>1, <1>3, <1>6 DEF FileT, Paths, Agrees
<1>7. ASSUME NEW s \in Sections, toml.state = "read",
             toml' = [toml EXCEPT !.bad = @ \cup {s}], said' = said
      PROVE  ConfigInvariant'
  BY <1>1, <1>3, <1>7 DEF FileT, Agrees
<1>8. ASSUME toml.state = "read",
             toml' = [toml EXCEPT !.list = {"plain", "relative"}],
             said' = [said EXCEPT !.list = {"plain", "relative"}]
      PROVE  ConfigInvariant'
  BY <1>1, <1>3, <1>8 DEF FileT, Entries, Agrees
<1>9. ASSUME toml.state = "read",
             toml' = [toml EXCEPT !.list = {}, !.bad = @ \cup {"capture"}],
             said' = [said EXCEPT !.list = {}]
      PROVE  ConfigInvariant'
  <2> DEFINE f == [toml EXCEPT !.list = {}, !.bad = @ \cup {"capture"}]
             s == [said EXCEPT !.list = {}]
  <2>1. toml.bad \cup {"capture"} \subseteq Sections
    BY <1>1 DEF FileT, Sections
  <2>2. /\ f \in FileT /\ f.key = toml.key /\ f.tuned = toml.tuned /\ f.paths = toml.paths
        /\ f.limit = toml.limit /\ f.list = {} /\ f.state = toml.state
    BY <1>1, <2>1 DEF FileT
  <2>3. /\ s \in FileT /\ s.key = said.key /\ s.tuned = said.tuned /\ s.paths = said.paths
        /\ s.limit = said.limit /\ s.list = {}
    BY <1>1 DEF FileT
  <2>4. toml' = f /\ said' = s
    BY <1>9
  <2> HIDE DEF f, s
  <2>5. Agrees(f, s)
    BY <1>1, <2>2, <2>3 DEF Agrees
  <2> QED
    BY <1>3, <1>9, <2>2, <2>3, <2>4, <2>5
<1>10. ASSUME toml.state = "read", toml' = [toml EXCEPT !.state = "garbled"], said' = said
       PROVE  ConfigInvariant'
  BY <1>1, <1>3, <1>10 DEF FileT, Agrees
<1>11. ASSUME toml.state = "garbled" \/ toml.bad # {},
              toml' = [toml EXCEPT !.state = "read", !.bad = {}], said' = said
       PROVE  ConfigInvariant'
  <2>1. toml.state # "none"
    BY <1>1, <1>11
  <2> DEFINE f == [toml EXCEPT !.state = "read", !.bad = {}]
  <2>2. /\ f \in FileT /\ f.key = toml.key /\ f.tuned = toml.tuned /\ f.paths = toml.paths
        /\ f.limit = toml.limit /\ f.list = toml.list /\ f.state = "read"
    BY <1>1 DEF FileT
  <2>3. toml' = f
    BY <1>11
  <2> HIDE DEF f
  <2>4. Agrees(f, said)
    BY <1>1, <2>2 DEF Agrees
  <2> QED
    BY <1>1, <1>3, <1>11, <2>1, <2>2, <2>3, <2>4
<1> QED
  BY <1>4, <1>5, <1>6, <1>7, <1>8, <1>9, <1>10, <1>11, ConfigAssumption
     DEF Edits, Edited, Sections

\* `setup reset` leaves no file and settles that there is none.
LEMMA ResetsKeep == ASSUME ConfigInvariant, Resets PROVE ConfigInvariant'
<1>1. /\ toml' = NoConfig /\ said' = NoConfig /\ UNCHANGED <<command, bound>>
      /\ \/ reader' = Off /\ known' = {}
         \/ UNCHANGED <<reader, known>>
  BY DEF Resets
<1>2. Typed'
  <2>1. reader' \in [on : BOOLEAN, list : SUBSET Entries] /\ known' \subseteq Entries
    <3>1. CASE reader' = Off /\ known' = {}
      BY <3>1 DEF Off
    <3>2. CASE UNCHANGED <<reader, known>>
      BY <3>2 DEF ConfigInvariant, Typed
    <3> QED
      BY <1>1, <3>1, <3>2
  <2> QED
    BY <1>1, <2>1, FileTypes DEF ConfigInvariant, Typed
<1>3. Agrees(toml', said') /\ toml'.state = "none" /\ toml'.bad = {}
  BY <1>1, FileTypes DEF Agrees
<1>4. (reader.on => Prefixes(known) \subseteq Prefixes(reader.list))'
  BY <1>1 DEF ConfigInvariant, Off
<1> QED
  BY <1>1, <1>2, <1>3, <1>4 DEF ConfigInvariant

\* What the daemon reads withholds what it is due to: what is settled when the file
\* can be read, and otherwise what it knew and is settled still.
LEMMA PollsWithhold ==
  ASSUME ConfigInvariant, ReaderPolls
  PROVE  /\ reader' \in [on : BOOLEAN, list : SUBSET Entries]
         /\ toml.state = "read" => Prefixes(reader'.list) = Prefixes(said.list)
         /\ toml.state # "read" => reader'.list = reader.list
         /\ Prefixes(known) \subseteq Prefixes(reader.list)
<1>1. reader \in [on : BOOLEAN, list : SUBSET Entries] /\ toml \in FileT
      /\ reader.on /\ Agrees(toml, said)
  BY DEF ConfigInvariant, Typed, ReaderPolls
<1> DEFINE usable == {e \in toml.list : IsValidExclusionPath(e)}
<1>2. /\ toml.state = "read" => reader'.list = usable
      /\ toml.state # "read" => reader'.list = reader.list
      /\ reader' \in [on : BOOLEAN, list : SUBSET Entries]
  BY <1>1 DEF ReaderPolls, LoadedExclusions, FileT
<1>3. LexKeys(usable) = LexKeys(toml.list)
  BY DEF LexKeys
<1>4. Prefixes(usable) = Prefixes(said.list)
  BY <1>1, <1>3, SameKeysSamePrefixes DEF Agrees
<1> QED
  BY <1>1, <1>2, <1>4 DEF ConfigInvariant

\* The daemon keeps it.
LEMMA ReaderKeeps ==
  ASSUME ConfigInvariant, ReaderStarts \/ ReaderStops \/ ReaderPolls
  PROVE  ConfigInvariant'
<1>1. UNCHANGED <<toml, command, bound, said>>
  BY DEF ReaderStarts, ReaderStops, ReaderPolls
<1>2. /\ reader' \in [on : BOOLEAN, list : SUBSET Entries]
      /\ known' \subseteq Entries
      /\ reader'.on => Prefixes(known') \subseteq Prefixes(reader'.list)
  <2>1. CASE ReaderStarts
    <3>1. reader' = [on |-> TRUE, list |-> toml.list] /\ known' = said.list
      BY <2>1 DEF ReaderStarts
    <3>2. Prefixes(toml.list) = Prefixes(said.list)
      BY SameKeysSamePrefixes DEF ConfigInvariant, Agrees
    <3> QED
      BY <3>1, <3>2 DEF ConfigInvariant, Typed, FileT
  <2>2. CASE ReaderStops
    BY <2>2 DEF ReaderStops, Off
  <2>3. CASE ReaderPolls
    <3>1. known' = IF toml.state = "read" THEN said.list ELSE known
      BY <2>3 DEF ReaderPolls
    <3> QED
      BY <2>3, <3>1, PollsWithhold DEF ConfigInvariant, Typed, FileT
  <2> QED
    BY <2>1, <2>2, <2>3
<1>3. Typed'
  BY <1>1, <1>2 DEF ConfigInvariant, Typed
<1> QED
  BY <1>1, <1>2, <1>3 DEF ConfigInvariant

\* So does every step.
LEMMA ConfigInvariantStep == ConfigInvariant /\ [ConfigNext]_configVars => ConfigInvariant'
<1> SUFFICES ASSUME ConfigInvariant, [ConfigNext]_configVars PROVE ConfigInvariant'
  OBVIOUS
<1>1. CASE UNCHANGED configVars
  BY <1>1 DEF configVars, ConfigInvariant, Typed, Agrees, Holds
<1>2. CASE ConfigNext
  BY <1>2, ExcludeSteps, SetupSteps, SetupWrites, ResetsKeep, EditsKeep, ReaderKeeps DEF ConfigNext
<1> QED
  BY <1>1, <1>2

-----------------------------------------------------------------------------

\* The invariant holds in every state.
LEMMA ConfigInvariantAlways == ConfigSpec => []ConfigInvariant
<1> QED
  BY ConfigInvariantInit, ConfigInvariantStep, PTL DEF ConfigSpec

\* However many commands and edits there are: what was excluded, set up or edited
\* stays in config.toml, and no capture cycle takes a folder that is excluded and
\* that the daemon had read, also while the file cannot be read.
THEOREM ConfigPromises == ConfigSpec => PromisesKept
<1>1. ConfigInvariant => FileKeeps
  BY SameKeysSamePrefixes DEF ConfigInvariant, Agrees, FileKeeps
<1>2. ConfigInvariant /\ [ConfigNext]_configVars =>
        [ReaderPolls =>
            LET wanted == IF toml.state = "read" THEN said.list ELSE known \cap said.list
            IN  Prefixes(wanted) \subseteq Prefixes(reader'.list)]_configVars
  <2> SUFFICES ASSUME ConfigInvariant, ReaderPolls
               PROVE  LET wanted == IF toml.state = "read" THEN said.list ELSE known \cap said.list
                      IN  Prefixes(wanted) \subseteq Prefixes(reader'.list)
    OBVIOUS
  <2>1. CASE toml.state = "read"
    BY <2>1, PollsWithhold
  <2>2. CASE toml.state # "read"
    <3>1. Prefixes(known \cap said.list) \subseteq Prefixes(known)
      BY DEF Prefixes
    <3> QED
      BY <2>2, <3>1, PollsWithhold
  <2> QED
    BY <2>1, <2>2
<1> QED
  BY <1>1, <1>2, ConfigInvariantAlways, PTL DEF ConfigSpec, PromisesKept

-----------------------------------------------------------------------------
(* The types of config.toml and of its writers.  That an infinite limit is *)
(* in the file only if the user has put it there is kept by every writer,  *)
(* for a command writes what it serializes.                                *)

\* The part of ConfigTypeOK that Typed does not say.
FiniteUnlessEdited == edits \in Nat /\ (toml.limit # "infinite" \/ edits > 0)

LEMMA ConfigTypesHold == Typed /\ FiniteUnlessEdited => ConfigTypeOK
  BY DEF Typed, FiniteUnlessEdited, ConfigTypeOK, FileT, CommandT, KeyOrNone

LEMMA FiniteInit == ConfigInit => FiniteUnlessEdited
<1> SUFFICES ASSUME ConfigInit PROVE FiniteUnlessEdited
  OBVIOUS
<1>1. edits \in Nat
  BY DEF ConfigInit
<1>2. toml.limit = NoConfig.limit
  BY DEF ConfigInit, NoConfig
<1> QED
  BY <1>1, <1>2, FileTypes DEF FiniteUnlessEdited

\* What a command writes has no infinite limit.
LEMMA SerializedIsFinite == ASSUME NEW f \in FileT PROVE Serialized(f).limit # "infinite"
  BY DEF Serialized, FileT

LEMMA FiniteStep ==
  Typed /\ FiniteUnlessEdited /\ [ConfigNext]_configVars => FiniteUnlessEdited'
<1> SUFFICES ASSUME Typed, FiniteUnlessEdited, [ConfigNext]_configVars PROVE FiniteUnlessEdited'
  OBVIOUS
<1>1. CASE UNCHANGED <<toml, edits>>
  BY <1>1 DEF FiniteUnlessEdited
<1>2. CASE toml'.limit # "infinite" /\ edits' = edits
  BY <1>2 DEF FiniteUnlessEdited
<1>3. ASSUME NEW c \in Commands, ExcludeEnds(c) PROVE FiniteUnlessEdited'
  <2> DEFINE w == command[c]
             new == [w.base EXCEPT !.list = NextList(w)]
  <2>1. w \in CommandT
    BY DEF Typed
  <2>2. new \in FileT
    <3>1. NextList(w) \subseteq Entries
      BY <2>1 DEF NextList, CommandT, FileT
    <3> QED
      BY <2>1, <3>1 DEF CommandT, FileT
  <2> HIDE DEF new
  <2>3. toml' = toml \/ toml' = Serialized(new)
    BY <1>3 DEF ExcludeEnds, new
  <2>4. edits' = edits
    BY <1>3 DEF ExcludeEnds, theUser
  <2> QED
    BY <1>1, <1>2, <2>2, <2>3, <2>4, SerializedIsFinite
<1>4. ASSUME NEW c \in Commands, SetupEnds(c) PROVE FiniteUnlessEdited'
  <2>1. command[c] \in CommandT
    BY DEF Typed
  <2>2. toml' = Serialized(DevConfig(command[c])) \/ toml' = Serialized(BuildGatewayConfig(command[c]))
    BY <1>4 DEF SetupEnds
  <2>3. DevConfig(command[c]) \in FileT /\ BuildGatewayConfig(command[c]) \in FileT
    <3>1. /\ command[c].key \in KeyOrNone /\ command[c].paths \in Paths
          /\ command[c].base.list \subseteq Entries
      BY <2>1 DEF CommandT, FileT
    <3>2. ASSUME NEW k \in KeyOrNone, NEW p \in Paths, NEW l \in SUBSET Entries
          PROVE  [NoConfig EXCEPT !.state = "read", !.key = k, !.list = l, !.paths = p] \in FileT
      BY FileTypes DEF FileT
    <3>3. ASSUME NEW k \in KeyOrNone
          PROVE  [NoConfig EXCEPT !.state = "read", !.key = k] \in FileT
      BY FileTypes DEF FileT
    <3> QED
      BY <3>1, <3>2, <3>3 DEF DevConfig, BuildGatewayConfig
  <2>4. edits' = edits
    BY <1>4 DEF SetupEnds, theUser
  <2> QED
    BY <1>2, <2>2, <2>3, <2>4, SerializedIsFinite
<1>5. CASE Resets
  BY <1>2, <1>5 DEF Resets, NoConfig
<1>6. CASE Edits
  <2>1. CASE edits' = edits + 1
    BY <2>1 DEF FiniteUnlessEdited
  <2>2. CASE toml' = [toml EXCEPT !.state = "read", !.bad = {}] /\ UNCHANGED theUser
    BY <2>2 DEF FiniteUnlessEdited, Typed, FileT, theUser
  <2> QED
    BY <1>6, <2>1, <2>2 DEF Edits, Edited
<1>7. CASE ReaderStarts \/ ReaderStops \/ ReaderPolls
  BY <1>1, <1>7 DEF ReaderStarts, ReaderStops, ReaderPolls, theUser
<1>8. ASSUME NEW c \in Commands,
             \/ \E e \in Entries, op \in {"exclude", "unexclude"} : ExcludeLoads(c, op, e)
             \/ \E k \in Keys, op \in {"setup", "new"} : SetupAsks(c, op, k)
             \/ \E k \in Keys : DevSetupAsks(c, k)
             \/ SetupLoads(c) \/ SetupVerifies(c) \/ SetupRegisters(c) \/ CommandFails(c)
      PROVE  FiniteUnlessEdited'
  BY <1>1, <1>8 DEF ExcludeLoads, SetupAsks, DevSetupAsks, SetupLoads, SetupVerifies,
                    SetupRegisters, CommandFails, theUser
<1>9. CASE UNCHANGED configVars
  BY <1>1, <1>9 DEF configVars, theUser
<1> QED
  BY <1>3, <1>4, <1>5, <1>6, <1>7, <1>8, <1>9 DEF ConfigNext

-----------------------------------------------------------------------------
(* The run.  A behaviour of MCServiceLifecycle is one of every module of   *)
(* it: of the one it is about and, without a step, of the others.          *)

\* A step of the run is a step of one module, and none of the others.
LEMMA RunSteps ==
  [MCNext]_<<rescueVars, upgradeVars, layoutVars, configVars, subject>>
  => /\ [RescueNext]_rescueVars /\ [UpgradeNext]_upgradeVars
     /\ [LayoutNext]_layoutVars /\ [ConfigNext]_configVars
<1> HIDE DEF layoutVars
<1> QED
  BY DEF MCNext

\* In a run of the service's modules every variable of each keeps to its type, whichever
\* of them the behaviour is about.
THEOREM ServiceTypes == MCSpec => []ServiceTypeOK
<1> DEFINE RunInv == RescueInv /\ UpgradeTypes /\ LayoutInv /\ ConfigInvariant
                     /\ FiniteUnlessEdited
<1>1. MCInit => RunInv
  BY RescueInvInit, UpgradeTypesInit, LayoutStarts, ConfigInvariantInit, FiniteInit DEF MCInit
<1>2. RunInv /\ [MCNext]_<<rescueVars, upgradeVars, layoutVars, configVars, subject>> => RunInv'
  <2> SUFFICES ASSUME RunInv,
                      [MCNext]_<<rescueVars, upgradeVars, layoutVars, configVars, subject>>
               PROVE  RunInv'
    OBVIOUS
  <2>1. /\ [RescueNext]_rescueVars /\ [UpgradeNext]_upgradeVars
        /\ [LayoutNext]_layoutVars /\ [ConfigNext]_configVars
    BY RunSteps
  <2>2. RescueInv' /\ UpgradeTypes'
    BY <2>1, RescueInvStep, UpgradeTypesStep
  <2>3. LayoutInv'
    BY <2>1, LayoutStep
  <2>4. ConfigInvariant' /\ FiniteUnlessEdited'
    BY <2>1, ConfigInvariantStep, FiniteStep DEF ConfigInvariant
  <2> QED
    BY <2>2, <2>3, <2>4
<1>3. RunInv => ServiceTypeOK
  BY TypesSuffice, UpgradeTypesSuffice, ConfigTypesHold
  DEF RescueInv, LayoutInv, ConfigInvariant, ServiceTypeOK
<1> HIDE DEF RunInv
<1> QED
  BY <1>1, <1>2, <1>3, PTL DEF MCSpec
=============================================================================
