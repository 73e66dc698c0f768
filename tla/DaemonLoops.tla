----------------------------- MODULE DaemonLoops -----------------------------
(***************************************************************************)
(* The loops of the daemon under their supervisor: each starts a cycle,    *)
(* waits for it until a time-out, sleeps and starts again, and pauses as   *)
(* long as AUTH_FAILED is there.  Beside them the recovery loop tries the  *)
(* key again and keeps its progress in that same sentinel file, which the  *)
(* drain cycle writes and the setup command, another process, removes.     *)
(***************************************************************************)
EXTENDS Integers, FiniteSets

CONSTANTS
  Loops,        \* the loops that run cycles: capture, drain, heartbeat
  DrainLoop,    \* the one of them whose cycle finds a key rejected
  Keys,         \* gateway keys
  FirstKey,     \* the key of the first installation
  MaxRetries,   \* AUTH_RECOVERY_MAX_RETRIES
  MaxCrashes,   \* maxCrashes of superviseLoop
  Kinds,        \* the kinds of mishap that may happen
  MaxMishaps    \* bound: mishaps in a behaviour

AllKinds == {"revoke", "restore", "setup", "verify_error", "gate_throws", "kill", "sigterm"}

ASSUME LoopsAssumption ==
  /\ DrainLoop \in Loops /\ FirstKey \in Keys
  /\ "auth_recovery" \notin Loops
  /\ MaxRetries \in Nat \ {0} /\ MaxCrashes \in Nat \ {0} /\ MaxMishaps \in Nat
  /\ Kinds \subseteq AllKinds

Supervised == Loops \union {"auth_recovery"}

VARIABLES
  daemon, aborted,        \* the process, and its abort signal
  daemonKey, configKey,   \* the key of the running daemon, and of the config file
  valid,                  \* the keys the backend accepts
  authFailed,             \* the AUTH_FAILED sentinel file
  pc,                     \* where each loop function is
  inFlight,               \* the local variable of each loop function
  running, orphans,       \* cycles of this loop function, and of crashed ones
  crashes,                \* consecutiveCrashes of each supervisor
  upload,                 \* the upload of a drain cycle
  trial, exhausted, after,\* the recovery loop: trial, what it records, what comes then
  setupPc, reconfigured,  \* the setup command; one has put in a valid key, none revoked since
  mishaps

keyVars      == <<daemonKey, configKey, valid>>
cycleVars    == <<inFlight, running, orphans, upload>>
recoveryVars == <<trial, exhausted, after>>
setupVars    == <<setupPc, reconfigured>>
vars == <<daemon, aborted, keyVars, authFailed, pc, cycleVars, crashes,
          recoveryVars, setupVars, mishaps>>

CycleSteps    == {"gate", "waiting", "sleeping", "restarting", "returned"}
RecoverySteps == {"check", "exists", "text", "rename", "chmod", "idle", "backoff",
                  "verify", "clear", "restarting", "returned"}

TypeOK ==
  /\ daemon \in {"up", "down"} /\ aborted \in BOOLEAN
  /\ daemonKey \in Keys /\ configKey \in Keys /\ valid \subseteq Keys
  /\ authFailed \in BOOLEAN
  /\ pc \in [Supervised -> CycleSteps \union RecoverySteps]
  /\ inFlight \in [Loops -> BOOLEAN]
  /\ running \in [Loops -> Nat] /\ orphans \in [Loops -> Nat]
  /\ crashes \in [Supervised -> 0 .. MaxCrashes]
  /\ upload \in {"none", "sent", "rejected"}
  /\ trial \in 0 .. MaxRetries /\ exhausted \in BOOLEAN
  /\ after \in {"idle", "backoff", "check"}
  /\ setupPc \in {"none", "written", "cleared"} /\ reconfigured \in BOOLEAN
  /\ mishaps \in 0 .. MaxMishaps

FirstStep == [l \in Supervised |-> IF l \in Loops THEN "gate" ELSE "check"]

\* What the memory of a daemon that starts, or of none, holds.
Fresh ==
  /\ aborted' = FALSE
  /\ pc' = FirstStep
  /\ inFlight' = [l \in Loops |-> FALSE]
  /\ running' = [l \in Loops |-> 0] /\ orphans' = [l \in Loops |-> 0]
  /\ crashes' = [l \in Supervised |-> 0]
  /\ upload' = "none"
  /\ trial' = 0 /\ exhausted' = FALSE /\ after' = "idle"

Init ==
  /\ daemon = "down" /\ aborted = FALSE
  /\ daemonKey = FirstKey /\ configKey = FirstKey /\ valid = Keys
  /\ authFailed = FALSE
  /\ pc = FirstStep
  /\ inFlight = [l \in Loops |-> FALSE]
  /\ running = [l \in Loops |-> 0] /\ orphans = [l \in Loops |-> 0]
  /\ crashes = [l \in Supervised |-> 0]
  /\ upload = "none"
  /\ trial = 0 /\ exhausted = FALSE /\ after = "idle"
  /\ setupPc = "none" /\ reconfigured = FALSE
  /\ mishaps = 0

Mishap(kind) == kind \in Kinds /\ mishaps < MaxMishaps /\ mishaps' = mishaps + 1

-----------------------------------------------------------------------------
(* The process. *)

\* run: the config file is read, once, and the loops are started.
Boot ==
  /\ daemon = "down"
  /\ daemon' = "up" /\ daemonKey' = configKey
  /\ Fresh
  /\ UNCHANGED <<configKey, valid, authFailed, setupVars, mishaps>>

\* Memory is lost, the sentinel file stays.
Gone == daemon' = "down" /\ Fresh /\ UNCHANGED <<keyVars, authFailed, setupVars>>

Killed == daemon = "up" /\ Mishap("kill") /\ Gone

Terminate ==
  /\ daemon = "up" /\ ~aborted /\ Mishap("sigterm")
  /\ aborted' = TRUE
  /\ UNCHANGED <<daemon, keyVars, authFailed, pc, cycleVars, crashes, recoveryVars, setupVars>>

\* Every supervisor has ended, the buffer is closed and the process exits, whatever
\* cycle is still running.
Exit ==
  /\ daemon = "up" /\ \A l \in Supervised : pc[l] = "returned"
  /\ Gone /\ UNCHANGED mishaps

-----------------------------------------------------------------------------
(* The supervisor. *)

GoTo(l, step) == pc' = [pc EXCEPT ![l] = step]

\* A loop function has thrown.  After less than ten seconds it is one crash more in a
\* row; with MaxCrashes of them the process exits.
Throws(l) ==
  IF aborted
  THEN /\ GoTo(l, "returned")
       /\ UNCHANGED <<daemon, aborted, keyVars, authFailed, cycleVars, crashes,
                      recoveryVars, setupVars>>
  ELSE \E row \in {1, crashes[l] + 1} :
         IF row >= MaxCrashes THEN Gone
         ELSE /\ crashes' = [crashes EXCEPT ![l] = row]
              /\ GoTo(l, "restarting")
              /\ UNCHANGED <<daemon, aborted, keyVars, authFailed, cycleVars,
                             recoveryVars, setupVars>>

\* After a second the function is called again, with new local variables; the cycles
\* of the old call go on.
Restart(l) ==
  /\ daemon = "up" /\ pc[l] = "restarting"
  /\ GoTo(l, IF aborted THEN "returned" ELSE FirstStep[l])
  /\ IF l \in Loops
     THEN /\ inFlight' = [inFlight EXCEPT ![l] = FALSE]
          /\ orphans' = [orphans EXCEPT ![l] = @ + running[l]]
          /\ running' = [running EXCEPT ![l] = 0]
          /\ UNCHANGED trial
     ELSE trial' = 0 /\ UNCHANGED <<inFlight, orphans, running>>
  /\ UNCHANGED <<daemon, aborted, keyVars, authFailed, crashes, upload, exhausted,
                 after, setupVars, mishaps>>

-----------------------------------------------------------------------------
(* captureLoop, drainLoop and heartbeatLoop. *)

LoopAt(l, step) == daemon = "up" /\ pc[l] = step
LoopFrame == UNCHANGED <<daemon, aborted, keyVars, authFailed, orphans, crashes,
                         recoveryVars, setupVars, mishaps>>

\* The gate is shut, or the last cycle is still running: nothing is started.
Skip(l) ==
  /\ LoopAt(l, "gate")
  /\ ~aborted /\ (authFailed \/ inFlight[l])
  /\ GoTo(l, "sleeping")
  /\ UNCHANGED <<inFlight, running, upload>> /\ LoopFrame

StartCycle(l) ==
  /\ LoopAt(l, "gate")
  /\ ~aborted /\ ~authFailed /\ ~inFlight[l]
  /\ inFlight' = [inFlight EXCEPT ![l] = TRUE]
  /\ running' = [running EXCEPT ![l] = @ + 1]
  /\ GoTo(l, "waiting")
  /\ UNCHANGED upload /\ LoopFrame

Return(l) ==
  /\ LoopAt(l, "gate")
  /\ aborted
  /\ GoTo(l, "returned")
  /\ UNCHANGED <<inFlight, running, upload>> /\ LoopFrame

\* Reading the sentinel fails.
GateThrows(l) ==
  /\ LoopAt(l, "gate")
  /\ Mishap("gate_throws")
  /\ Throws(l)

\* A drain cycle does not end before its upload has.
Ending(l) == l = DrainLoop /\ upload # "none" => running[l] + orphans[l] > 1

\* The cycle ends or throws; the loop may have stopped waiting for it long ago.
CycleSettles(l) ==
  /\ daemon = "up" /\ running[l] > 0 /\ Ending(l)
  /\ running' = [running EXCEPT ![l] = @ - 1]
  /\ inFlight' = [inFlight EXCEPT ![l] = FALSE]
  /\ IF pc[l] = "waiting"
     THEN GoTo(l, IF aborted THEN "returned" ELSE "sleeping")
     ELSE UNCHANGED pc
  /\ UNCHANGED upload /\ LoopFrame

OrphanSettles(l) ==
  /\ daemon = "up" /\ orphans[l] > 0 /\ Ending(l)
  /\ orphans' = [orphans EXCEPT ![l] = @ - 1]
  /\ UNCHANGED <<daemon, aborted, keyVars, authFailed, pc, inFlight, running, upload,
                 crashes, recoveryVars, setupVars, mishaps>>

\* Mutant: the time-out also resets inFlight, as if the cycle had been cancelled.
CycleTimesOutResetting(l) ==
  /\ LoopAt(l, "waiting")
  /\ GoTo(l, IF aborted THEN "returned" ELSE "sleeping")
  /\ inFlight' = [inFlight EXCEPT ![l] = FALSE]
  /\ UNCHANGED <<running, upload>> /\ LoopFrame

\* Mutant: the loop waits for the cycle itself, without the race against a timer.
CycleTimesOutNever(l) ==
  /\ LoopAt(l, "waiting") /\ running[l] = 0
  /\ GoTo(l, IF aborted THEN "returned" ELSE "sleeping")
  /\ UNCHANGED <<inFlight, running, upload>> /\ LoopFrame

\* runWithTimeout: the loop goes on, and so does the cycle.
CycleTimesOut(l) ==
  /\ LoopAt(l, "waiting")
  /\ GoTo(l, IF aborted THEN "returned" ELSE "sleeping")
  /\ UNCHANGED <<inFlight, running, upload>> /\ LoopFrame

Wake(l) ==
  /\ LoopAt(l, "sleeping")
  /\ GoTo(l, "gate")
  /\ UNCHANGED <<inFlight, running, upload>> /\ LoopFrame

\* A drain cycle looks for the sentinel before each upload.  Bound: of two drain
\* cycles, one left behind by a crash, only one has an upload on its way at a time.
SendUpload ==
  /\ daemon = "up" /\ running[DrainLoop] + orphans[DrainLoop] > 0 /\ upload = "none"
  /\ ~authFailed
  /\ upload' = "sent"
  /\ UNCHANGED <<pc, inFlight, running>> /\ LoopFrame

\* The key is accepted, or it is rejected by the upload and then by verify-key.
UploadAnswered ==
  /\ daemon = "up" /\ upload = "sent"
  /\ upload' = IF daemonKey \in valid THEN "none" ELSE "rejected"
  /\ UNCHANGED <<pc, inFlight, running>> /\ LoopFrame

WriteAuthFailed ==
  /\ daemon = "up" /\ upload = "rejected"
  /\ upload' = "none" /\ authFailed' = TRUE
  /\ UNCHANGED <<daemon, aborted, keyVars, pc, inFlight, running, orphans, crashes,
                 recoveryVars, setupVars, mishaps>>

-----------------------------------------------------------------------------
(* runAuthRecoveryLoop. *)

R == "auth_recovery"

RecoveryAt(step) == daemon = "up" /\ pc[R] = step
RecoveryFrame == UNCHANGED <<daemon, aborted, keyVars, cycleVars, crashes, setupVars>>

RecoveryReturns ==
  /\ RecoveryAt("check") \/ RecoveryAt("backoff")
  /\ aborted
  /\ GoTo(R, "returned")
  /\ UNCHANGED <<authFailed, recoveryVars, mishaps>> /\ RecoveryFrame

\* No sentinel: the next outage starts with the first trial.
RecoveryIdle ==
  /\ RecoveryAt("check") \/ RecoveryAt("backoff")
  /\ ~aborted /\ ~authFailed
  /\ trial' = 0
  /\ GoTo(R, IF pc[R] = "check" THEN "idle" ELSE "check")
  /\ UNCHANGED <<authFailed, exhausted, after, mishaps>> /\ RecoveryFrame

\* Mutant: the trials are not bounded.
RecoveryTrialUnbounded ==
  /\ RecoveryAt("check")
  /\ ~aborted /\ authFailed
  /\ trial' = trial + 1
  /\ exhausted' = FALSE /\ after' = "backoff" /\ GoTo(R, "exists")
  /\ UNCHANGED <<authFailed, mishaps>> /\ RecoveryFrame

\* A trial is counted and recorded, and then the back-off begins.
RecoveryTrial ==
  /\ RecoveryAt("check")
  /\ ~aborted /\ authFailed /\ trial < MaxRetries
  /\ trial' = trial + 1
  /\ exhausted' = FALSE /\ after' = "backoff" /\ GoTo(R, "exists")
  /\ UNCHANGED <<authFailed, mishaps>> /\ RecoveryFrame

\* Mutant: the recovery loop gives up one trial too early.
RecoveryExhaustedEarly ==
  /\ RecoveryAt("check")
  /\ ~aborted /\ authFailed /\ trial >= MaxRetries - 1
  /\ exhausted' = TRUE /\ after' = "idle" /\ GoTo(R, "exists")
  /\ UNCHANGED <<authFailed, trial, mishaps>> /\ RecoveryFrame

RecoveryExhausted ==
  /\ RecoveryAt("check")
  /\ ~aborted /\ authFailed /\ trial >= MaxRetries
  /\ exhausted' = TRUE /\ after' = "idle" /\ GoTo(R, "exists")
  /\ UNCHANGED <<authFailed, trial, mishaps>> /\ RecoveryFrame

\* recordAuthRecoveryState: the file is looked for, read, replaced, given its mode.
\* Of the four steps the first takes its absence, and the second and last one throw.
RecordLooks ==
  /\ RecoveryAt("exists")
  /\ GoTo(R, IF authFailed THEN "text" ELSE after)
  /\ UNCHANGED <<authFailed, recoveryVars, mishaps>> /\ RecoveryFrame

RecordReads ==
  /\ RecoveryAt("text") /\ authFailed
  /\ GoTo(R, "rename")
  /\ UNCHANGED <<authFailed, recoveryVars, mishaps>> /\ RecoveryFrame

RecordWrites ==
  /\ RecoveryAt("rename")
  /\ authFailed' = TRUE
  /\ GoTo(R, "chmod")
  /\ UNCHANGED <<recoveryVars, mishaps>> /\ RecoveryFrame

RecordDone ==
  /\ RecoveryAt("chmod") /\ authFailed
  /\ GoTo(R, after)
  /\ UNCHANGED <<authFailed, recoveryVars, mishaps>> /\ RecoveryFrame

RecordThrows ==
  /\ RecoveryAt("text") \/ RecoveryAt("chmod")
  /\ ~authFailed
  /\ Throws(R) /\ UNCHANGED mishaps

RecoveryWakes ==
  /\ \/ RecoveryAt("idle") /\ GoTo(R, "check")
     \/ RecoveryAt("backoff") /\ ~aborted /\ authFailed /\ GoTo(R, "verify")
  /\ UNCHANGED <<authFailed, recoveryVars, mishaps>> /\ RecoveryFrame

VerifySucceeds ==
  /\ RecoveryAt("verify") /\ daemonKey \in valid
  /\ GoTo(R, "clear")
  /\ UNCHANGED <<authFailed, recoveryVars, mishaps>> /\ RecoveryFrame

\* The key is rejected, or the request fails.
VerifyFails ==
  /\ RecoveryAt("verify")
  /\ \/ daemonKey \notin valid /\ UNCHANGED mishaps
     \/ Mishap("verify_error")
  /\ exhausted' = (trial >= MaxRetries) /\ after' = "check" /\ GoTo(R, "exists")
  /\ UNCHANGED <<authFailed, trial>> /\ RecoveryFrame

\* The key was verified.
ClearAuthFailed ==
  /\ RecoveryAt("clear")
  /\ authFailed' = FALSE
  /\ trial' = 0 /\ GoTo(R, "check")
  /\ UNCHANGED <<exhausted, after, mishaps>> /\ RecoveryFrame

-----------------------------------------------------------------------------
(* The backend and the setup command. *)

OutsideFrame == UNCHANGED <<daemon, aborted, daemonKey, pc, cycleVars, crashes, recoveryVars>>

Revoke(k) ==
  /\ Mishap("revoke") /\ k \in valid
  /\ valid' = valid \ {k} /\ reconfigured' = FALSE
  /\ UNCHANGED <<configKey, authFailed, setupPc>> /\ OutsideFrame

Restore(k) ==
  /\ Mishap("restore") /\ k \notin valid
  /\ valid' = valid \union {k}
  /\ UNCHANGED <<configKey, authFailed, setupVars>> /\ OutsideFrame

\* setup verifies a key and writes the config file with it.
SetupWrites(k) ==
  /\ setupPc = "none" /\ Mishap("setup") /\ k \in valid
  /\ configKey' = k /\ setupPc' = "written" /\ reconfigured' = FALSE
  /\ UNCHANGED <<valid, authFailed>> /\ OutsideFrame

SetupClears ==
  /\ setupPc = "written"
  /\ authFailed' = FALSE /\ setupPc' = "cleared"
  /\ UNCHANGED <<configKey, valid, reconfigured, mishaps>> /\ OutsideFrame

\* autoStartDaemon asks the service manager for a start, which leaves a daemon that
\* is running alone.
SetupStarts ==
  /\ setupPc = "cleared"
  /\ setupPc' = "none" /\ reconfigured' = (configKey \in valid)
  /\ IF daemon = "down" THEN daemon' = "up" /\ daemonKey' = configKey /\ Fresh
     ELSE UNCHANGED <<daemon, daemonKey, aborted, pc, cycleVars, crashes, recoveryVars>>
  /\ UNCHANGED <<configKey, valid, authFailed, mishaps>>

-----------------------------------------------------------------------------
LoopStep(l) == Skip(l) \/ StartCycle(l) \/ Return(l) \/ GateThrows(l)
               \/ CycleTimesOut(l) \/ Wake(l)

Recovery == \/ RecoveryReturns \/ RecoveryIdle \/ RecoveryTrial \/ RecoveryExhausted
            \/ RecordLooks \/ RecordReads \/ RecordWrites \/ RecordDone \/ RecordThrows
            \/ RecoveryWakes \/ VerifySucceeds \/ VerifyFails \/ ClearAuthFailed

Process == Boot \/ Killed \/ Terminate \/ Exit

Outside == (\E k \in Keys : Revoke(k) \/ Restore(k) \/ SetupWrites(k))
           \/ SetupClears \/ SetupStarts

Next == \/ Process \/ Recovery \/ Outside
        \/ \E l \in Loops : LoopStep(l) \/ CycleSettles(l) \/ OrphanSettles(l)
        \/ \E l \in Supervised : Restart(l)
        \/ SendUpload \/ UploadAnswered \/ WriteAuthFailed

Spec == Init /\ [][Next]_vars

\* Every sleep and every time-out ends and the process goes on, and verify-key has a
\* time-out of its own.  Nothing is said of a cycle: it may hang for ever.
FairSpec ==
  /\ Spec
  /\ \A l \in Loops : WF_vars(LoopStep(l))
  /\ \A l \in Supervised : WF_vars(Restart(l))
  /\ WF_vars(Recovery) /\ WF_vars(Exit)
  /\ WF_vars(SetupClears) /\ WF_vars(SetupStarts)

-----------------------------------------------------------------------------
(* Safety properties. *)

\* A call of a loop function never has two cycles at once, however often it gives up
\* waiting for one.
OneCycle == \A l \in Loops : running[l] <= 1

\* A loop ends only when the daemon is told to: neither AUTH_FAILED, nor a cycle that
\* failed or hangs, nor a crash below the limit, ends it.
LoopsAlive == \A l \in Supervised : pc[l] = "returned" => aborted

-----------------------------------------------------------------------------
(* The inductive invariant they follow from. *)

\* The flag of a loop function says whether its cycle is running.
InFlightExact == \A l \in Loops : running[l] = (IF inFlight[l] THEN 1 ELSE 0)

Inductive == TypeOK /\ InFlightExact /\ LoopsAlive

-----------------------------------------------------------------------------
(* Liveness properties. *)

\* A daemon that is told to stop stops, though a cycle may hang for ever.
ShutdownCompletes == aborted ~> ~aborted

\* While the daemon's key is valid and too few attempts to verify it can fail, the
\* pause comes to an end, even when the recovery loop crashes and begins again.
PauseEnds ==
  /\ daemon = "up" /\ ~aborted /\ authFailed /\ daemonKey \in valid
  /\ trial + (MaxMishaps - mishaps) < MaxRetries
  ~> daemon = "down" \/ aborted \/ ~authFailed \/ daemonKey \notin valid

\* After setup was run with a valid key the daemon does not stay paused.
SetupResumes == reconfigured ~> ~authFailed \/ ~reconfigured
=============================================================================
