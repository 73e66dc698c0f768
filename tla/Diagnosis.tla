------------------------------- MODULE Diagnosis -------------------------------
(***************************************************************************)
(* What `doctor` and `status` tell the user of a daemon that changes while *)
(* they look, and where their advice leads.  The world is one production   *)
(* profile: its files, its service and what the loops recorded of          *)
(* themselves.  A pass of doctor reads it signal by signal (gatherSignals),*)
(* judges by what it read (the checkers), and its user follows a piece of  *)
(* its advice.  A refresh of status reads the database first and the       *)
(* service last, and paints while its user may quit.  Nobody else repairs  *)
(* anything: the watchdog is RescueWatchdog's subject.                     *)
(*                                                                         *)
(* Time is counted in minutes and kept as ages; older than Oldest is not   *)
(* told apart by any checker.                                              *)
(***************************************************************************)
EXTENDS Integers, FiniteSets

CONSTANT MaxTroubles    \* bound: troubles of one behaviour

ASSUME DiagAssumption == MaxTroubles \in Nat

Works == {"capture", "drain"}   \* the loops of the daemon
Unknown == -1                   \* an instant that was never recorded
Oldest == 5
CaptureInterval == 2
CaptureStall == 4               \* A5: 2 x 120 s
DrainStall == 2                 \* C3: 4 x 30 s
ResumeGrace == 5                \* A5 and C3: 300 s
BreakerAt == 3                  \* MAX_CONSECUTIVE_FAILURES
Minutes == {Unknown} \cup 0 .. Oldest

VARIABLES
    facts,      \* what is so: files, sentinels, the service, the network, the queue
    tries,      \* the failed rescues in a row that the ledger counts
    halted,     \* the loops of the process that no longer finish a cycle
    begun,      \* the loops that finished a cycle since they last began to run
    rejected,   \* where a key lies that the backend rejects: "file", "process"
    minutes,    \* the ages of the loops' last cycles and of the last resume
    stopping,   \* `stop` has written SESSION_STOPPED and not stopped yet
    tool,       \* what the user runs in this behaviour: "doctor" or "status"
    pass,       \* the pass under way: its step, what is unread, what was read
    steady,     \* nothing has changed since the pass began
    told,       \* what the last pass said: doctor's codes or status's level
    screen,     \* the terminal of status: "shell", "held" or "spoiled"
    troubles    \* troubles so far

progress == <<halted, begun, rejected>>
look == <<tool, pass, told, screen>>
diagVars == <<facts, tries, progress, minutes, stopping, look, steady, troubles>>

\* The probes that doctor awaits together, in any order.  The four files are read as one,
\* and so are the registrations and the network, which no command changes with another.
Settled == {"listed", "guard", "network"}
Probes == {{"config", "auth", "full", "stopped"}, Settled, {"active"}}
Facts == (UNION Probes) \cup {"pending", "lock"}
Healthy == {"config", "listed", "active", "network", "guard"}

NoPass == [step |-> "idle", unread |-> {}, facts |-> {}, tries |-> 0,
           minutes |-> [k \in Works \cup {"resume"} |-> Unknown]]

DiagInit ==
    /\ \/ facts = {"network"} /\ minutes = NoPass.minutes /\ begun = {}
       \/ /\ facts = Healthy /\ begun = Works
          /\ minutes = [NoPass.minutes EXCEPT !["capture"] = 0, !["drain"] = 0]
    /\ tries = 0 /\ halted = {} /\ rejected = {} /\ stopping = FALSE
    /\ tool \in {"doctor", "status"}
    /\ pass = NoPass /\ steady = FALSE /\ told = {} /\ screen = "shell"
    /\ troubles = 0

-----------------------------------------------------------------------------
(* The daemon and what befalls it.                                         *)

\* evaluateGateReason of the two cycles: a pass that is gated records no cycle.
DrainGated == "auth" \in facts
CaptureGated == "auth" \in facts \/ "full" \in facts
Runs(loop) == /\ "active" \in facts /\ loop \notin halted
              /\ IF loop = "drain" THEN ~DrainGated ELSE ~CaptureGated
Finishes(loop) == /\ Runs(loop)
                  /\ loop = "capture" /\ loop \in begun => minutes[loop] >= CaptureInterval - 1

Aged(age) == IF age \in {Unknown, Oldest} THEN age ELSE age + 1

\* An upload with a rejected key ends in AUTH_FAILED; a drain cycle that reaches the
\* backend with a good one leaves no queue, and room again.
Reaches == Finishes("drain") /\ "network" \in facts
Refused == IF Reaches /\ "pending" \in facts /\ "process" \in rejected THEN {"auth"} ELSE {}
Emptied == IF Reaches /\ Refused = {} THEN {"pending", "full"} ELSE {}

\* runAuthRecoveryLoop asks the backend with the key of its process, and after some
\* refusals no more.
Recoverable ==
    IF {"active", "network"} \subseteq facts /\ "process" \notin rejected THEN {"auth"} ELSE {}

\* A minute passes: the loops that are due finish a cycle and record it, also while
\* a pass compares the times it read with the clock; the rescue ledger of a daemon
\* that runs may be cleared by the watchdog.
Minute ==
    /\ minutes' = [k \in DOMAIN minutes |->
                      IF k \in Works /\ Finishes(k) THEN 0 ELSE Aged(minutes[k])]
    /\ begun' = IF Refused # {} THEN {} ELSE begun \cup {l \in Works : Finishes(l)}
    /\ \E new \in IF Finishes("capture") THEN {{}, {"pending"}} ELSE {{}},
          recovered \in {{}, Recoverable} :
          facts' = (facts \ (Emptied \cup recovered)) \cup new \cup Refused
    /\ tries' \in IF {"active", "guard"} \subseteq facts THEN {tries, 0} ELSE {tries}
    /\ pass' = IF pass.step = "extended"
               THEN [pass EXCEPT !.minutes = [k \in DOMAIN @ |-> Aged(@[k])]] ELSE pass
    /\ steady' = FALSE
    /\ UNCHANGED <<halted, rejected, stopping, tool, told, screen, troubles>>

Trouble == troubles < MaxTroubles /\ troubles' = troubles + 1 /\ steady' = FALSE /\ UNCHANGED look

\* The process is gone, and with it what it held of its own.
ProcessEnds ==
    /\ facts' = facts \ {"active"} /\ halted' = {} /\ begun' = {}
    /\ rejected' = rejected \ {"process"}

\* A process that starts takes its key from config.toml.
ProcessStarts ==
    /\ halted' = {} /\ begun' = {}
    /\ rejected' = IF "file" \in rejected THEN {"file", "process"} ELSE {}

Dies ==
    /\ Trouble /\ "active" \in facts
    /\ ProcessEnds
    /\ UNCHANGED <<tries, minutes, stopping>>

\* A loop that has finished a cycle before finishes no more.
Sticks(loop) ==
    /\ Trouble /\ Runs(loop) /\ minutes[loop] # Unknown
    /\ halted' = halted \cup {loop}
    /\ UNCHANGED <<facts, tries, begun, rejected, minutes, stopping>>

\* The configured key is revoked.
Revokes ==
    /\ Trouble /\ "config" \in facts
    /\ rejected' = {"file"} \cup IF "active" \in facts THEN {"process"} ELSE {}
    /\ UNCHANGED <<facts, tries, halted, begun, minutes, stopping>>

\* The queue passes its limit.
Fills ==
    /\ Trouble /\ Runs("capture")
    /\ facts' = facts \cup {"full", "pending"} /\ begun' = begun \ {"capture"}
    /\ UNCHANGED <<tries, halted, rejected, minutes, stopping>>

\* The network, the unit, the watchdog go; an upgrade leaves its lock.
Loses(fact) ==
    /\ Trouble /\ fact \in facts /\ facts' = facts \ {fact}
    /\ UNCHANGED <<tries, progress, minutes, stopping>>
LeavesLock ==
    /\ Trouble /\ facts' = facts \cup {"lock"}
    /\ UNCHANGED <<tries, progress, minutes, stopping>>

\* The watchdog gives a daemon up that does not start.
GivesUp ==
    /\ Trouble /\ "active" \notin facts /\ tries' = BreakerAt
    /\ UNCHANGED <<facts, progress, minutes, stopping>>

\* The machine wakes up: the loops note the resume, their last cycles are long ago.
Wakes ==
    /\ Trouble /\ "active" \in facts
    /\ minutes' = [k \in DOMAIN minutes |->
                      IF k = "resume" THEN 0
                      ELSE IF minutes[k] = Unknown THEN Unknown ELSE Oldest]
    /\ UNCHANGED <<facts, tries, progress, stopping>>

\* `stop` writes the sentinel, then stops the service if it is registered.
StopMarks ==
    /\ Trouble /\ ~stopping
    /\ facts' = facts \cup {"stopped"} /\ stopping' = TRUE
    /\ UNCHANGED <<tries, progress, minutes>>
StopHalts ==
    /\ stopping /\ stopping' = FALSE /\ steady' = FALSE
    /\ IF "listed" \in facts
       THEN ProcessEnds
       ELSE UNCHANGED <<facts, progress>>
    /\ UNCHANGED <<tries, minutes, look, troubles>>

World == \/ Minute \/ Dies \/ Revokes \/ Fills \/ LeavesLock \/ GivesUp \/ Wakes
         \/ StopMarks \/ StopHalts
         \/ \E loop \in Works : Sticks(loop)
         \/ \E fact \in {"network", "listed", "guard"} : Loses(fact)

-----------------------------------------------------------------------------
(* The checkers: what doctor concludes from the signals s it read.         *)

Recorded(s, k) == s.minutes[k] # Unknown
Stale(s, loop, limit) == Recorded(s, loop) /\ s.minutes[loop] >= limit
Resumed(s) == Recorded(s, "resume") /\ s.minutes["resume"] < ResumeGrace
Without(s, some) == s.facts \cap some = {}

CheckA1(s) == "config" \notin s.facts
CheckA2(s) == "config" \in s.facts /\ Without(s, {"listed", "stopped"})
\* Mutant: a stopped daemon is only reported while its unit is registered.
CheckA3Listed(s) == {"config", "listed", "stopped"} \subseteq s.facts /\ Without(s, {"active"})
CheckA3(s) == {"config", "stopped"} \subseteq s.facts /\ Without(s, {"active"})
CheckA4(s) == /\ {"config", "listed"} \subseteq s.facts /\ Without(s, {"active", "stopped"})
              /\ s.tries < BreakerAt
\* Mutant: a daemon that has just been resumed counts as stalled.
CheckA5Hasty(s) == /\ "active" \in s.facts /\ Without(s, {"auth"})
                   /\ Stale(s, "capture", CaptureStall)
CheckA5(s) == /\ "active" \in s.facts /\ Without(s, {"auth"})
              /\ ~Resumed(s) /\ Stale(s, "capture", CaptureStall)
CheckA16(s) == Without(s, {"active"}) /\ s.tries >= BreakerAt
CheckA17(s) == {"config", "listed"} \subseteq s.facts /\ Without(s, {"guard"})
CheckA6(s) == Without(s, {"active", "stopped"}) /\ Recorded(s, "capture")
CheckB1(s) == "auth" \in s.facts
CheckC2(s) == Without(s, {"network", "auth"})
CheckC3(s) == /\ {"active", "pending", "network"} \subseteq s.facts /\ Without(s, {"auth", "full"})
              /\ ~Resumed(s) /\ Stale(s, "drain", DrainStall)
CheckC4(s) == "full" \in s.facts /\ Recorded(s, "drain") /\ ~Stale(s, "drain", DrainStall)
CheckE5(s) == "lock" \in s.facts

RunCheckers(s) ==
    LET found == [A1 |-> CheckA1(s), A2 |-> CheckA2(s), A3 |-> CheckA3(s), A4 |-> CheckA4(s),
                  A5 |-> CheckA5(s), A16 |-> CheckA16(s), A17 |-> CheckA17(s), A6 |-> CheckA6(s),
                  B1 |-> CheckB1(s), C2 |-> CheckC2(s), C3 |-> CheckC3(s), C4 |-> CheckC4(s),
                  E5 |-> CheckE5(s)]
    IN  {code \in DOMAIN found : found[code]}

\* sortFindings: the report begins with the critical findings.
Critical == {"A1", "A2", "A4", "A16", "A6", "B1", "C2"}
Foremost(found) == IF found \cap Critical # {} THEN found \cap Critical ELSE found

(* What each piece of advice has the user run.                             *)
Restarting == {"A4", "A5", "A6", "A16", "C3", "E5"}
Starting == {"A2", "A3", "A17"}
SettingUp == {"A1", "B1"}

-----------------------------------------------------------------------------
(* A pass of doctor.                                                       *)

Step(from, to, read) == pass.step = from /\ pass' = [read EXCEPT !.step = to]
Reads(more) == [pass EXCEPT !.facts = @ \cup (more \cap facts)]
Elsewhere == UNCHANGED <<facts, tries, progress, minutes, stopping, tool, troubles>>

DoctorStart ==
    /\ tool = "doctor" /\ Step("idle", "probes", [NoPass EXCEPT !.unread = Probes])
    /\ steady' = TRUE /\ told' = {} /\ UNCHANGED screen /\ Elsewhere

\* One of the probes that gatherSignals awaits together answers.
DoctorProbe(probe) ==
    /\ tool = "doctor" /\ probe \in pass.unread
    /\ Step("probes", IF pass.unread = {probe} THEN "database" ELSE "probes",
            [Reads(probe) EXCEPT !.unread = @ \ {probe}])
    /\ UNCHANGED <<steady, told, screen>> /\ Elsewhere

ServiceProbes == {Settled, {"active"}}

\* A service manager that cannot be asked counts as neither registered nor running.
DoctorProbeFails ==
    /\ troubles < MaxTroubles /\ troubles' = troubles + 1
    /\ tool = "doctor" /\ ServiceProbes \subseteq pass.unread
    /\ Step("probes", IF pass.unread = ServiceProbes THEN "database" ELSE "probes",
            [Reads(Settled \ {"listed"}) EXCEPT !.unread = @ \ ServiceProbes])
    /\ steady' = FALSE
    /\ UNCHANGED <<facts, tries, progress, minutes, stopping, tool, told, screen>>

DoctorQuery ==
    /\ tool = "doctor"
    /\ Step("database", "extended", [Reads({"pending"}) EXCEPT !.minutes = minutes])
    /\ UNCHANGED <<steady, told, screen>> /\ Elsewhere

\* A database that cannot be opened reads as empty.
DoctorQueryFails ==
    /\ troubles < MaxTroubles /\ troubles' = troubles + 1
    /\ tool = "doctor" /\ Step("database", "extended", pass)
    /\ steady' = FALSE
    /\ UNCHANGED <<facts, tries, progress, minutes, stopping, tool, told, screen>>

\* The upgrade lock and the ledger are read last, then the checkers judge; of the
\* signals only the time of the last resume is remembered, for ReportIsTrue.
DoctorReport ==
    /\ tool = "doctor" /\ Step("extended", "advised", [NoPass EXCEPT !.minutes["resume"] = pass.minutes["resume"]])
    /\ told' = RunCheckers([Reads({"lock"}) EXCEPT !.tries = tries])
    /\ UNCHANGED <<steady, screen>> /\ Elsewhere

Heeds(codes) ==
    /\ tool = "doctor" /\ Step("advised", "idle", NoPass)
    /\ Foremost(told) \cap codes # {} /\ told' = {} /\ steady' = FALSE
    /\ UNCHANGED <<tries, minutes, stopping, tool, screen, troubles>>

\* `restart`: the sentinel goes, the unit is ensured, the process is a new one.
FollowRestart ==
    /\ Heeds(Restarting)
    /\ facts' = (facts \cup {"config", "listed", "active"}) \ ({"stopped"} \cup
                    IF "E5" \in told THEN {"lock"} ELSE {})
    /\ ProcessStarts

\* `start` leaves a process that runs as it is.
FollowStart ==
    /\ Heeds(Starting)
    /\ facts' = (facts \cup {"config", "listed", "active", "guard"}) \ {"stopped"}
    /\ IF "active" \in facts THEN UNCHANGED progress ELSE ProcessStarts

\* `setup` and `setup new` write a key that the backend has verified, remove the
\* sentinels and start the service: a process that runs goes on with the key it has.
SetupSucceeds ==
    /\ facts' = (facts \cup {"config", "listed", "active", "guard"})
                 \ {"stopped", "auth", "full"}
    /\ IF "active" \in facts
       THEN rejected' = rejected \ {"file"} /\ UNCHANGED <<halted, begun>>
       ELSE rejected' = {} /\ halted' = {} /\ begun' = {}

\* Without the network the key cannot be verified and setup gives up: its user sees to
\* the network first.
FollowSetup ==
    /\ Heeds(SettingUp)
    /\ IF "network" \in facts THEN SetupSucceeds
       ELSE facts' = facts \cup {"network"} /\ UNCHANGED progress

\* The user brings the network back, or there is nothing to do.
FollowNetwork ==
    /\ Heeds({"C2"}) /\ facts' = facts \cup {"network"}
    /\ UNCHANGED progress
NothingToDo ==
    /\ tool = "doctor" /\ Step("advised", "idle", NoPass)
    /\ told \subseteq {"C4"} /\ told' = {} /\ UNCHANGED <<steady, screen>> /\ Elsewhere

Doctor ==
    \/ DoctorStart \/ DoctorProbeFails \/ DoctorQuery \/ DoctorQueryFails
    \/ DoctorReport \/ FollowRestart \/ FollowStart \/ FollowSetup \/ FollowNetwork \/ NothingToDo
    \/ \E probe \in Probes : DoctorProbe(probe)

-----------------------------------------------------------------------------
(* `status`: the frames of the watch loop.                                 *)

\* deriveUnifiedSummary and deriveHealth: the level of the screen, the health of --json.
Level(s) == IF "config" \notin s.facts THEN "inactive"
            ELSE IF "auth" \in s.facts THEN "error"
            ELSE IF ~Without(s, {"stopped", "full"}) \/ "active" \notin s.facts THEN "warning"
            ELSE "ok"
Health(s) == IF ~Without(s, {"auth", "full", "stopped"}) THEN "error"
             ELSE IF Recorded(s, "capture") \/ Recorded(s, "drain") THEN "healthy" ELSE "inactive"

\* What a frame does to a terminal.
Painted == IF screen = "held" THEN "held" ELSE "spoiled"

StatusOpens ==
    /\ tool = "status" /\ screen = "shell" /\ pass.step = "idle" /\ screen' = "held"
    /\ told' = {} /\ UNCHANGED <<steady, pass>> /\ Elsewhere

\* A key or a signal: the timer goes, the terminal is given back.
StatusQuits ==
    /\ tool = "status" /\ screen = "held" /\ screen' = "shell"
    /\ UNCHANGED <<steady, pass, told>> /\ Elsewhere

StatusTick ==
    /\ tool = "status" /\ screen = "held"
    /\ Step("idle", IF "config" \in facts THEN "database" ELSE "paint",
            [NoPass EXCEPT !.facts = {"config"} \cap facts])
    /\ steady' = TRUE /\ told' = {} /\ UNCHANGED screen /\ Elsewhere

StatusQuery ==
    /\ tool = "status"
    /\ Step("database", "auth", [Reads({"pending"}) EXCEPT !.minutes = minutes])
    /\ UNCHANGED <<steady, told, screen>> /\ Elsewhere

StatusSentinel ==
    /\ tool = "status"
    /\ \/ Step("auth", "full", Reads({"auth"}))
       \/ Step("full", "stopped", Reads({"full"}))
       \/ Step("stopped", "service", Reads({"stopped"}))
    /\ UNCHANGED <<steady, told, screen>> /\ Elsewhere

\* runtime and the watchdog; a service manager that throws counts as not running.
StatusService ==
    /\ tool = "status"
    /\ Step("service", "paint", Reads({"active"}))
    /\ UNCHANGED <<steady, told, screen>> /\ Elsewhere

\* The refresh fails (the database is busy): an error line, and the next refresh.
StatusFails ==
    /\ troubles < MaxTroubles /\ troubles' = troubles + 1
    /\ tool = "status" /\ Step("database", "idle", NoPass)
    /\ screen' = IF screen = "held" THEN Painted ELSE screen
    /\ UNCHANGED <<facts, tries, progress, minutes, stopping, tool, steady, told>>

\* Mutant: the frame is painted although the loop was ended while it was gathered.
PaintLate ==
    /\ tool = "status" /\ Step("paint", "idle", NoPass)
    /\ told' = {<<Level(pass), Health(pass)>>} /\ screen' = Painted
    /\ UNCHANGED steady /\ Elsewhere
StatusPaint ==
    /\ tool = "status" /\ Step("paint", "idle", NoPass)
    /\ IF screen = "held"
       THEN told' = {<<Level(pass), Health(pass)>>} /\ screen' = Painted
       ELSE UNCHANGED <<told, screen>>
    /\ UNCHANGED steady /\ Elsewhere

Status == \/ StatusOpens \/ StatusQuits \/ StatusTick \/ StatusQuery \/ StatusSentinel
          \/ StatusService \/ StatusFails \/ StatusPaint

DiagNext == World \/ Doctor \/ Status

\* Time passes, a `stop` ends, and the user keeps asking doctor and following it:
\* a pass runs to its end, and its advice is followed.
DiagFairness ==
    /\ WF_diagVars(Minute) /\ WF_diagVars(StopHalts) /\ WF_diagVars(Doctor)

DiagSpec == DiagInit /\ [][DiagNext]_diagVars /\ DiagFairness

-----------------------------------------------------------------------------
Codes == Restarting \cup Starting \cup SettingUp \cup {"C2", "C4"}
Levels == {"inactive", "error", "warning", "ok"}
Healths == {"error", "healthy", "inactive"}
Steps == {"idle", "probes", "database", "extended", "advised",
          "auth", "full", "stopped", "service", "paint"}

\* Every variable keeps to the values named where it is declared.
DiagTypeOK ==
    /\ facts \subseteq Facts /\ tries \in 0 .. BreakerAt
    /\ halted \subseteq Works /\ begun \subseteq Works /\ rejected \subseteq {"file", "process"}
    /\ minutes \in [Works \cup {"resume"} -> Minutes]
    /\ stopping \in BOOLEAN /\ steady \in BOOLEAN /\ tool \in {"doctor", "status"}
    /\ pass \in [step : Steps, unread : SUBSET Probes, facts : SUBSET Facts,
                 tries : 0 .. BreakerAt, minutes : [Works \cup {"resume"} -> Minutes]]
    /\ \/ tool = "doctor" /\ told \subseteq Codes
       \/ tool = "status" /\ told \subseteq Levels \X Healths
    /\ screen \in {"shell", "held", "spoiled"}
    /\ troubles \in 0 .. MaxTroubles

Down == "active" \notin facts

\* What doctor says of a daemon that did not change while it looked is so: a daemon
\* that is down is reported, and as the user's own doing exactly when SESSION_STOPPED
\* is there; a stall is only reported of a loop that has stuck or has not finished a
\* cycle since it began to run, and a loop that stuck is reported when the checkers'
\* limits have passed (gatherSignals and the lifecycle and upload checkers).
ReportIsTrue ==
    tool = "doctor" /\ pass.step = "advised" /\ steady =>
        /\ "A3" \in told <=> Down /\ {"config", "stopped"} \subseteq facts
        /\ told \cap {"A2", "A4", "A6"} # {} => "stopped" \notin facts
        /\ told \cap {"A4", "A6", "A16"} # {} => Down
        /\ Down /\ "config" \in facts /\ "stopped" \notin facts => told \cap {"A2", "A4", "A16"} # {}
        /\ "A5" \in told => "capture" \in halted \/ "capture" \notin begun
        /\ "C3" \in told => "drain" \in halted \/ "drain" \notin begun
        /\ ~Down /\ "capture" \in halted /\ minutes["capture"] = Oldest /\ ~Resumed(pass)
              => told \cap {"A5", "B1"} # {}

\* The watch loop of status paints only while it holds the terminal, and the frame of
\* a moment in which nothing changed says "ok" of a daemon exactly when it is set up,
\* runs, and no sentinel holds it back; --json never calls such a frame an error
\* (startWatchLoop, deriveUnifiedSummary, deriveHealth).
ScreenIsTrue ==
    /\ screen # "spoiled"
    /\ tool = "status" /\ steady => \A frame \in told :
          /\ frame[1] = "ok" <=> {"config", "active"} \subseteq facts
                                 /\ facts \cap {"auth", "full", "stopped"} = {}
          /\ frame[2] = "error" => frame[1] # "ok"

\* What either command says, in a behaviour of its own.
LooksAreTrue == ReportIsTrue /\ ScreenIsTrue

\* The daemon serves: it runs, no rejected key closes its gates, the network is there, and
\* neither a loop that stuck nor a key that nobody has refused yet keeps anyone waiting.
Serves == /\ {"config", "active", "network"} \subseteq facts
          /\ "auth" \notin facts /\ "capture" \notin halted
          /\ "drain" \in halted \/ "process" \in rejected => "pending" \notin facts

\* The advice for a rejected key, `setup new`, replaces it in config.toml and leaves it
\* in a process that runs (key_rotation shows the same of setup alone).
KeepsOldKey == "active" \in facts /\ rejected = {"process"}

\* Whatever happened to the daemon, a user who keeps running doctor and following any
\* of the advice its report begins with gets a daemon that serves, without the
\* watchdog's help, or ends with one that runs on with a replaced key: of no other
\* trouble is there a report that leads in a circle.
HelpArrives == tool = "doctor" => []<>Serves \/ <>[]KeepsOldKey

=============================================================================
