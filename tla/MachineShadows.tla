--------------------------- MODULE MachineShadows ---------------------------
(***************************************************************************)
(* Beside the code that does the work run state machines that are told     *)
(* what it does, so that snapshots and logs can say where it is.  Nothing  *)
(* in the code asks them: a machine ignores an event its state has no      *)
(* transition for, and from then on it shows something else than happens.  *)
(*                                                                         *)
(* A machine is a set of transitions <<state, event, state>>; the code     *)
(* that feeds it is a set of steps <<place, event, place>>, of which those *)
(* with "none" tell the machine nothing.  One behaviour is one actor and   *)
(* one run of its code.  The machine of a batch is in BatchLifecycle, that *)
(* of the sentinel files in SentinelWatcher.                               *)
(***************************************************************************)
EXTENDS Integers, Sequences

\* The transitions, or the steps, along a chain of states and events.
Chain(s) == {<<s[i], s[i + 1], s[i + 2]>> : i \in {2 * k - 1 : k \in 1 .. Len(s) \div 2}}

\* Code that may throw at these places, without telling its machine.
Throwing(places) == {<<p, "none", "rejected">> : p \in places}

-----------------------------------------------------------------------------
(* The three loops: a machine for every cycle *)

CaptureMachine ==
  Chain(<<"waiting", "TICK", "evaluating_gate", "GATE_CLEAR", "running_cycle", "POLL_COMPLETE",
          "committing", "COMMITTED", "checking_pressure", "PRESSURE_EVALUATED",
          "persisting_metrics", "METRICS_PERSISTED", "waiting">>)
  \union Chain(<<"evaluating_gate", "GATE_BLOCKED", "skipped", "METRICS_PERSISTED", "waiting">>)

CaptureCode ==
  Chain(<<"start", "TICK", "gate", "GATE_CLEAR", "poll", "POLL_COMPLETE", "commit", "COMMITTED",
          "pressure", "PRESSURE_EVALUATED", "persist", "METRICS_PERSISTED", "returned">>)
  \union Chain(<<"gate", "GATE_BLOCKED", "skip", "METRICS_PERSISTED", "returned">>)
  \union Throwing({"gate", "poll"})

DrainMachine ==
  Chain(<<"waiting", "TICK", "evaluating_gate", "GATE_CLEAR", "draining", "DRAIN_COMPLETE",
          "pruning", "PRUNE_COMPLETE", "checking_resume", "RESUME_EVALUATED",
          "persisting_metrics", "METRICS_PERSISTED", "waiting">>)
  \union Chain(<<"evaluating_gate", "GATE_BLOCKED", "skipped", "METRICS_PERSISTED", "waiting">>)

\* Mutant: a prune that fails leaves out its event.
DrainCodePruned ==
  Chain(<<"start", "TICK", "gate", "GATE_CLEAR", "drain", "DRAIN_COMPLETE", "prune",
          "PRUNE_COMPLETE", "resume", "RESUME_EVALUATED", "persist", "METRICS_PERSISTED",
          "returned">>)
  \union Chain(<<"gate", "GATE_BLOCKED", "skip", "METRICS_PERSISTED", "returned">>)
  \union {<<"prune", "none", "resume">>}
  \union Throwing({"gate", "drain", "resume"})

\* A prune that fails is caught.
DrainCode ==
  Chain(<<"start", "TICK", "gate", "GATE_CLEAR", "drain", "DRAIN_COMPLETE", "prune",
          "PRUNE_COMPLETE", "resume", "RESUME_EVALUATED", "persist", "METRICS_PERSISTED",
          "returned">>)
  \union Chain(<<"gate", "GATE_BLOCKED", "skip", "METRICS_PERSISTED", "returned">>)
  \union Throwing({"gate", "drain", "resume"})

HeartbeatMachine ==
  Chain(<<"waiting", "TICK", "evaluating_gate", "GATE_CLEAR", "checking_freshness",
          "FRESHNESS_CHECKED", "throttle_check", "THROTTLE_ALLOWS", "version_check_branch",
          "VERSION_CHECK_COMPLETE", "persisting_metrics", "METRICS_PERSISTED", "waiting">>)
  \union Chain(<<"evaluating_gate", "GATE_BLOCKED", "skipped", "METRICS_PERSISTED", "waiting">>)
  \union Chain(<<"throttle_check", "THROTTLE_BLOCKS", "persisting_metrics">>)

\* A version check that throws, whether or not it was announced, is taken as throttled.
HeartbeatCode ==
  Chain(<<"start", "TICK", "gate", "GATE_CLEAR", "freshness", "FRESHNESS_CHECKED", "throttle",
          "THROTTLE_ALLOWS", "check", "VERSION_CHECK_COMPLETE", "checked", "METRICS_PERSISTED",
          "returned">>)
  \union {<<p, "THROTTLE_BLOCKS", "checked">> : p \in {"throttle", "check"}}
  \union Throwing({"freshness"})

-----------------------------------------------------------------------------
(* The polls: a machine for every source and cycle, for its worker, and for *)
(* every cursor it hands back                                               *)

PollMachine ==
  {<<s, "BEGIN_POLL", "discovering">> : s \in {"idle", "done", "errored"}}
  \union Chain(<<"discovering", "FILES_FOUND", "processing", "ALL_FILES_PROCESSED",
                 "emitting_results", "EMIT_COMPLETE", "done">>)
  \union Chain(<<"processing", "FILE_PROCESSED", "processing", "FILE_FAILED", "processing">>)
  \union Chain(<<"discovering", "NO_FILES", "emitting_results">>)
  \union Chain(<<"discovering", "DISCOVERY_ERROR", "errored">>)

\* The machine is told of files when the poll is over.
PollCode ==
  Chain(<<"start", "BEGIN_POLL", "poll", "FILES_FOUND", "files", "FILE_PROCESSED", "files",
          "ALL_FILES_PROCESSED", "told", "EMIT_COMPLETE", "returned">>)
  \union {<<"poll", e, "told">> : e \in {"NO_FILES", "DISCOVERY_ERROR"}}
  \union Throwing({"poll"})

WorkerMachine ==
  Chain(<<"spawned", "BEGIN_RUN", "running", "RESULT_POSTED", "posting_result", "TERMINATE",
          "terminated">>)
  \union Chain(<<"running", "ERROR", "errored", "TERMINATE", "terminated">>)

\* In the thread a failure comes back as a message; in the compiled binary it throws.
WorkerCode ==
  Chain(<<"start", "BEGIN_RUN", "run", "RESULT_POSTED", "posted", "TERMINATE", "returned">>)
  \union Chain(<<"run", "ERROR", "posted">>)
  \union Throwing({"run"})

CursorMachine ==
  Chain(<<"unseeded", "SYNCED", "healthy", "POLL_SUCCESS", "healthy", "POLL_ERROR", "healthy">>)
  \union Chain(<<"unseeded", "POLL_SUCCESS", "healthy">>)
  \union Chain(<<"healthy", "VACUUM_DETECTED", "vacuumed", "NEW_GENERATION_CREATED", "healthy">>)
  \union Chain(<<"healthy", "WATERMARK_REGRESSED", "regressed", "REGRESSION_APPLIED", "healthy">>)

CursorCode == {<<"start", e, "returned">> : e \in {"POLL_SUCCESS", "POLL_ERROR"}}

-----------------------------------------------------------------------------
(* The pacer: one machine for the daemon.  Answers come in at any time.  An  *)
(* acquire of a drain cycle left behind by a crash is not modelled here.     *)

Notices == {"NOTIFY_RETRY_AFTER", "NOTIFY_429", "NOTIFY_5XX"}

PacerMachine ==
  LET throttling == <<"ready", "ACQUIRE_STARTED", "applying_retry_after", "ENTER_429_BACKOFF",
                      "applying_429_backoff", "ENTER_5XX_BACKOFF", "applying_5xx_backoff",
                      "ENTER_TOKEN_BUCKET", "applying_token_bucket", "ENTER_DEBITING",
                      "debiting", "ACQUIRE_COMPLETE", "ready">>
  IN Chain(throttling) \union {<<t[1], e, t[1]>> : t \in Chain(throttling), e \in Notices}

PacerCode ==
  LET acquire == Chain(<<"start", "ACQUIRE_STARTED", "retry_after", "ENTER_429_BACKOFF", "429",
                         "ENTER_5XX_BACKOFF", "5xx", "ENTER_TOKEN_BUCKET", "tokens",
                         "ENTER_DEBITING", "debit", "ACQUIRE_COMPLETE", "returned">>)
  IN acquire \union {<<t[1], e, t[1]>> : t \in acquire, e \in Notices}
             \union {<<"returned", "none", "start">>}

-----------------------------------------------------------------------------
(* The commands and the daemon *)

SetupMachine ==
  LET main == Chain(<<"prompting_consent", "CONSENT_ACCEPTED", "collecting_ingestion_key",
                      "KEY_PROVIDED", "verifying_key", "KEY_VERIFY_SUCCESS", "writing_config",
                      "CONFIG_WRITTEN", "writing_consent_sentinel", "SENTINEL_WRITTEN", "done">>)
  IN main
     \union {<<t[1], "ERROR", "failed">> : t \in main}
     \union Chain(<<"prompting_consent", "CONSENT_DECLINED", "cancelled">>)
     \union Chain(<<"verifying_key", "KEY_VERIFY_FAILURE", "collecting_ingestion_key">>)
     \union Chain(<<"failed", "CONSENT_ACCEPTED", "collecting_ingestion_key">>)
     \union Chain(<<"failed", "KEY_PROVIDED", "verifying_key">>)

\* The sentinels are cleared and the unit is written before SENTINEL_WRITTEN, also when
\* the key is replaced and no consent is written.
SetupCode ==
  Chain(<<"start", "CONSENT_ACCEPTED", "key", "KEY_PROVIDED", "verify", "KEY_VERIFY_SUCCESS",
          "config", "CONFIG_WRITTEN", "sentinels", "SENTINEL_WRITTEN", "autostart", "none",
          "returned">>)
  \union {<<"key", "ERROR", "returned">>, <<"verify", "KEY_VERIFY_FAILURE", "returned">>}
  \union Throwing({"key", "verify", "config", "sentinels", "autostart"})

UninstallMachine ==
  LET main == Chain(<<"idle", "BEGIN", "stopping_service", "SERVICE_STOPPED", "sweeping_paths",
                      "PATHS_SWEPT", "removing_buffer", "BUFFER_REMOVED", "removing_sentinels",
                      "SENTINELS_REMOVED", "done">>)
  IN main \union {<<t[1], "ERROR", "failed">> : t \in main}

\* Nothing is installed, or the reset is not confirmed: the machine stays idle.  What the
\* service managers throw is caught.
UninstallCode ==
  Chain(<<"start", "BEGIN", "stop", "SERVICE_STOPPED", "sweep", "PATHS_SWEPT", "binary",
          "BUFFER_REMOVED", "path", "SENTINELS_REMOVED", "returned">>)
  \union {<<"start", "none", "returned">>}
  \union Throwing({"start", "stop", "sweep", "binary", "path"})

DaemonMachine ==
  Chain(<<"loading_config", "CONFIG_LOADED", "opening_buffer", "BUFFER_OPENED", "sync_decision",
          "WATERMARKS_SKIPPED", "running", "READY", "running", "SHUTDOWN",
          "draining_for_shutdown", "EXIT", "exited">>)
  \union Chain(<<"sync_decision", "WATERMARKS_SYNCED", "running">>)
  \union Chain(<<"draining_for_shutdown", "DRAIN_FOR_SHUTDOWN_COMPLETE", "exited">>)

\* Loops that end or throw are followed by the same two events.
DaemonCode ==
  Chain(<<"start", "CONFIG_LOADED", "buffer", "BUFFER_OPENED", "watcher", "none", "mark",
          "WATERMARKS_SKIPPED", "marked", "READY", "loops", "SHUTDOWN", "ending", "EXIT",
          "stop", "none", "returned">>)
  \union Throwing({"watcher"})

-----------------------------------------------------------------------------
Shadows == [capture   |-> [machine |-> CaptureMachine, code |-> CaptureCode,
                           from |-> "waiting", rest |-> {"waiting"}],
            drain     |-> [machine |-> DrainMachine, code |-> DrainCode,
                           from |-> "waiting", rest |-> {"waiting"}],
            heartbeat |-> [machine |-> HeartbeatMachine, code |-> HeartbeatCode,
                           from |-> "waiting", rest |-> {"waiting"}],
            poll      |-> [machine |-> PollMachine, code |-> PollCode,
                           from |-> "idle", rest |-> {"done"}],
            worker    |-> [machine |-> WorkerMachine, code |-> WorkerCode,
                           from |-> "spawned", rest |-> {"terminated"}],
            cursor    |-> [machine |-> CursorMachine, code |-> CursorCode,
                           from |-> "unseeded", rest |-> {"healthy"}],
            pacer     |-> [machine |-> PacerMachine, code |-> PacerCode,
                           from |-> "ready", rest |-> {"ready"}],
            setup     |-> [machine |-> SetupMachine, code |-> SetupCode,
                           from |-> "prompting_consent",
                           rest |-> {"done", "failed", "collecting_ingestion_key"}],
            uninstall |-> [machine |-> UninstallMachine, code |-> UninstallCode,
                           from |-> "idle", rest |-> {"idle", "done"}],
            daemon    |-> [machine |-> DaemonMachine, code |-> DaemonCode,
                           from |-> "loading_config", rest |-> {"exited"}]]

VARIABLES
  kind,     \* whose machine it is
  place,    \* where its code is
  shadow,   \* the state of the machine
  dropped   \* the events it has ignored, each with its state then

shadowVars == <<kind, place, shadow, dropped>>

ShadowStates(k) == {Shadows[k].from} \union {t[3] : t \in Shadows[k].machine}

ShadowTypeOK ==
  /\ kind \in DOMAIN Shadows
  /\ place \in {"start"} \union {t[3] : t \in Shadows[kind].code}
  /\ shadow \in ShadowStates(kind)
  /\ dropped \subseteq (ShadowStates(kind) \X {t[2] : t \in Shadows[kind].code})

ShadowInit ==
  /\ kind \in DOMAIN Shadows /\ place = "start"
  /\ shadow = Shadows[kind].from /\ dropped = {}

Send(event) ==
  LET taken == {t \in Shadows[kind].machine : t[1] = shadow /\ t[2] = event}
  IN IF event = "none" THEN UNCHANGED <<shadow, dropped>>
     ELSE IF taken = {} THEN dropped' = dropped \union {<<shadow, event>>} /\ UNCHANGED shadow
     ELSE \E t \in taken : shadow' = t[3] /\ UNCHANGED dropped

ShadowNext == \E step \in Shadows[kind].code :
  /\ step[1] = place /\ place' = step[3]
  /\ Send(step[2])
  /\ UNCHANGED kind

ShadowSpec == ShadowInit /\ [][ShadowNext]_shadowVars

-----------------------------------------------------------------------------
\* What the machines are known to ignore: the end of a heartbeat whose version check has
\* thrown, the end of a poll with an error, and the error of a cursor that was made anew.
KnownDrops == {<<"version_check_branch", "THROTTLE_BLOCKS">>,
               <<"version_check_branch", "METRICS_PERSISTED">>,
               <<"errored", "EMIT_COMPLETE">>, <<"unseeded", "POLL_ERROR">>}

\* On every path through its code, and with the listed exceptions, a machine takes
\* every event it is sent, and when the code returns it has come to rest.
ShadowsFollow ==
  /\ dropped \subseteq KnownDrops
  /\ place = "returned" /\ dropped = {} => shadow \in Shadows[kind].rest

=============================================================================
