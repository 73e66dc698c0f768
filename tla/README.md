# ProxAI Gateway: formal models

The gateway is a daemon on a developer's machine.  It reads the conversation
logs that AI tools write (claude-code, cursor, codex, claude-desktop, gemini),
puts them into an SQLite buffer as *captures* (ranges of a file or of a table),
and uploads the captures to a backend.  These modules state what that daemon
promises, model-check it with TLC, and prove most of its safety with TLAPS.

## 1. Inventory

| part | source under `src/src` | state it keeps | operations | what makes it correct | module |
| --- | --- | --- | --- | --- | --- |
| claude-code collector | `sources/claude-code` | cursors in the buffer | read what is new, filter, redact, cut, insert captures, move the cursor | every line is in exactly the captures its cursor says; an exception skips nothing | `UploadPipeline` |
| other line collectors | `sources/{codex,gemini,claude-desktop}` | cursors | the same, with pauses for excluded projects | nothing kept is passed over; what is un-excluded is still read | `LineCollectors` |
| row collectors | `sources/{cursor,gemini,codex}` | cursors by generation | read by row id, notice deletions and vacuums | no row is passed over by a renumbering | `RowCollector` |
| inspect, prompts | `poll-worker.ts`, `services/prompt-extract`, `cli/commands/{inspect,logs}` | none | count records and prompts in a dry run; take the prompt from a captured body | what the user was shown is what is sent | `ConsentSurface` |
| capture cycle | `services/polling/capture-cycle.ts` | cycle in progress, worker databases | gates, polls in workers or in place, commit, BUFFER_FULL | a worker's work is taken over all or not at all, never over newer state; a failing source starves no other | `UploadPipeline`, `CaptureDispatch` |
| drain cycle, uploader | `services/polling/drain-cycle.ts`, `services/uploader` | place in the queue, retriable outcomes in a row | walk the queue, upload, persist the outcome, prune, remove BUFFER_FULL | no capture is lost, counted twice or held up for ever | `UploadPipeline`, `BatchLifecycle` |
| pacer | `services/uploader/pacer.ts` | token buckets, times not to send before | acquire, notify | the wait ends, the limits are kept | `Pacer` |
| buffer | `services/buffer` | `upload_batches`, `receipts`, `source_cursors`, `resync_events`, `daemon_state`, metadata | one SQL transaction each; migrations; queries | transactions; what several queries are put together to is true | `UploadPipeline`, `BufferViews` |
| watermark sync | `services/polling/watermark-sync.ts` | none | store the server's watermarks in an empty buffer | a new buffer does not upload again what is there | `UploadPipeline` |
| sentinels | `services/polling/*-sentinel.ts`, `services/state-machines/sentinel-*` | a file each; a registry of them | write, read, remove, watch | none stays when its reason is gone; the registry mirrors them | `UploadPipeline`, `DaemonLoops`, `SentinelWatcher` |
| loops | `services/polling/daemon-loops.ts` | timers, `inFlight`, times of crashes | run the cycles, time out, restart a crashed loop | no two cycles of a kind at once; one failing loop does not stop the others | `DaemonLoops` |
| authentication recovery | `services/polling/auth-recovery.ts` | attempts in AUTH_FAILED | ask the backend with a growing delay, remove the sentinel | a valid key is noticed; a new failure is not overlooked | `DaemonLoops` |
| rescue | `services/rescue`, `cli/watchdog-manager` | ledger of rescues | decide whether to restart the daemon | restarts what should run, leaves alone what was stopped, gives up in time | `RescueWatchdog` |
| upgrade, version check | `services/upgrade`, `heartbeat-cycle.ts`, `version-check.ts` | state to restore, lock, time of the last check | fetch, verify, replace, restart | a failing step leaves both daemons as they were | `CoordinatedUpgrade` |
| relocation | `core/io/fs/migrate-flat-to-nested.ts` | marker, lock | move a profile's files into `prod/` | nothing is stranded in the root | `ProfileLayout` |
| configuration | `services/config`, `services/exclusion`, `cli/commands/{setup,exclude}` | `config.toml` | load, validate, write; read the exclusions each cycle | what was excluded, set up or edited stays so | `ConfigFile` |
| doctor, status | `cli/commands/{doctor,status}` | none | gather signals, judge, advise; paint frames | what they say is so, and the advice helps | `Diagnosis`, `BufferViews` |
| commands | `cli` | service and watchdog units | setup, start, stop, restart, uninstall, upgrade, dev | units and sentinels agree with the last command | with the part each changes |
| state machines | `services/state-machines` | XState machines beside the code | log which state the loops, captures and commands are in | they follow the code | `BatchLifecycle`, `MachineShadows` |

The parts meet in the buffer (SQLite transactions), in the sentinel, lock and
ledger files, in `config.toml`, and at the backend (one HTTP request per
upload).  There is one JavaScript thread in a daemon, but every `await` lets the
other loops go on: a poll lasts seconds and an upload up to its time-out, and the
two interleave at every step.  Beside the daemon run the watchdog every fifteen
minutes, the commands of the user, the service manager, and a second (dev) daemon
with the same binary.  Any of these processes may be killed at any point, the
machine may sleep, the request on its way may still arrive, and the backend may
answer with nothing, an error or a regression.  `PROJECT.json` lists the hazards
line by line.

## 2. How the project is built

| module | about | composed in | proofs |
| --- | --- | --- | --- |
| `BatchLifecycle` | the life of one capture, as `uploadBatch`'s machine has it: the abstract specification | `UploadPipeline` (`INSTANCE ... WITH`) | `UploadPipelineProofs` |
| `UploadPipeline` | from the line to the backend | `MCUploadPipeline`, `MCPipelineDiagnosis`, `MCPipelinePacer` | `UploadPipelineProofs`, `OrderProofs` |
| `Diagnosis` | the daemon as doctor and status see it | `MCPipelineDiagnosis` | `DiagnosisProofs` |
| `BufferViews` | the database as the commands see it | `MCDataPath` | `DataPathProofs` |
| `DaemonLoops` | loops, supervisor, recovery of the key | `MCDaemon` | `DaemonProofs` |
| `CaptureDispatch`, `SentinelWatcher` | the polls of one cycle; the registry | `MCDaemon` | `DaemonProofs` |
| `MachineShadows` | the machines beside the code | `MCDaemon` | `DaemonProofs` |
| `LineCollectors`, `ConsentSurface` | the other line collectors; what inspect says of all | `MCDataPath` | `DataPathProofs` |
| `RowCollector` | the row collectors | `MCDataPath` | `RowProofs` |
| `Pacer` | the wait before an upload | `MCPipelinePacer` | `PacerProofs` |
| `RescueWatchdog` | who starts and ends the daemon | `MCServiceLifecycle` | `ServiceProofs` |
| `ProfileLayout` | the move of its files | `MCServiceLifecycle` | `ServiceProofs` |
| `CoordinatedUpgrade` | two daemons and one binary | `MCServiceLifecycle` | `ServiceProofs` |
| `ConfigFile` | config.toml between its writers and the daemon | `MCServiceLifecycle` | `ServiceProofs` |

`UploadPipeline` and `DaemonLoops` are models of several components that
interact.  The modules `MCDaemon`, `MCDataPath`, `MCServiceLifecycle`,
`MCPipelineDiagnosis` and `MCPipelinePacer` do not compose in that sense: they check several
independent modules in one run.  A constant choice in the initial state, `subject`,
says which module a behaviour is of; the variables of the others stay at one
initial value, and each module's fairness is that of its own actions.  The states
are the sum and not the product of the modules'.  An invariant about an idle
module's variables holds trivially in the others' behaviours and is really
checked in its own.

Where one file of the code belongs to several modules (AUTH_FAILED, the upgrade
lock, SESSION_STOPPED), one of them follows its writers step by step and in the
others it comes and goes as one event.

## 3. The upload pipeline (`UploadPipeline.tla`)

### Correspondence

| model | code |
| --- | --- |
| `size`, `inode` | the complete lines of each source file, and which file its path names |
| `cursor[f][i]` | `source_cursors` by path hash and inode; 0 is `NO_INODE_SENTINEL`, the rows the sync writes |
| `batch`, `status`, `created` | `upload_batches` (`pending`, `failed`) and the receipts (`delivered`), numbered in queue order; `captured` rows are in the worker's database; `recovered` and `pruned` ones are gone |
| `resync` | captures for which a row of `resync_events` was written (their deletion after the retention time, or by setup, is not followed) |
| `authFailed`, `bufferFull` | the two sentinel files |
| `setupPc` | a setup command of the user: what it clears next |
| `pollPc`, `todo`, `work`, `fresh` | the capture cycle, the files its worker has still to read, the worker's copy of the cursors, its uncommitted captures |
| `drainPc`, `at`, `streak`, `attempted` | the drain cycle, its place in the queue, retriable outcomes in a row, uploads so far |
| `reply`, `reported` | the answer to the upload in progress and the watermark in it |
| `stored`, `serverEnd`, `late` | the backend, and requests nobody waits for any more |

A position is a number of complete lines.  A capture holds the lines after its
start up to its end; a file's lines that carry no dialogue are the constant
`Noise`, which the collector filters out and still moves its cursor over.  A
range is cut into one slice or two, after any kept line.

Each action is one stretch of code without an `await`: the gates of a cycle, one
file of a poll, the commit, a measurement, a write of a sentinel, the choice of
the next capture, what the backend does, and what an answer makes `uploadBatch`
write.  `CommitCapture`, `markBatchDelivered` and the pruning are one
transaction; a recovery is three, so `CrashInRecovery` may stop between them.

The backend is external.  It is modelled from `08_BACKEND_CONTRACT.md` and from
how the client reads its answers: a `capture_id` it has is accepted again
without effect; a range that starts before the end of the last one of the file
is refused with the file's watermark; any other is stored.

### What can go wrong, and how often

Everything that a run may do against the program is a *mishap* of a kind:
`crash`, `rotation` (another file under the path), `sync` (the watermark request
fails), `worker`, `collect` (an exception in a file), `excluded`,
`lost_request`, `lost_reply`, `unavailable`, `invalid`, `unreadable`,
`unauthorized`, `sentinel` (AUTH_FAILED cannot be written), `retention` and
`setup` (the user runs setup with a valid key, which removes both sentinels and
the failed captures in three steps, beside a daemon that may be at work).  A
run names the kinds in `Kinds` and their number in `MaxMishaps`.  Captures in
`Stuck` are answered with a 5xx always.

### Properties

* `Accounted`: no stored cursor passes a line with dialogue that is in no
  committed capture and not below the backend's watermark.
* `ReceiptsStored`, `RecoveredIsFinal` (proved, section 8): receipts are honest,
  and what was given up after a regression is audited and never stored later.
* `NoLoss`: only a regression may take a line away from the backend.
* `UploadInOrder`: no capture is sent while an earlier one of its file waits.
* `CommitCoversAdvance`: a commit moves a reading point only over lines it commits
  (refuted).
* `LifecycleSpec`: the pipeline implements `BatchLifecycle`, the machine that
  `uploadBatch` runs beside the code, for all captures at once, with one upload
  at a time.  The state of the machine is the refinement mapping `Stage`.
* `PendingSettles`, `LinesSettle`, `BufferFullClears`: a pending capture comes to
  an end, a line reaches the backend or a failed capture, a pause ends, unless the
  key is rejected.
* `FailedMeansRefused`: a failed capture is not at the backend (refuted).

### Runs

| run | instance | result |
| --- | --- | --- |
| `pipeline_safety` | one file of up to 3 lines of which line 2 is noise, two inodes, 4 captures, all kinds, 2 mishaps, one line already uploaded by an earlier installation | holds |
| `pipeline_delivery` | two files of 2 lines, 5 captures, 1 mishap that is not a refusal | holds |
| `pipeline_retry` | one file of 3 lines, 4 captures, capture 1 stuck, 2 mishaps | holds |
| `out_of_order_loss` | one refused upload | `NoLoss` violated |
| `stale_commit` | one failed sync | `CommitCoversAdvance` violated |
| `unreadable_answer` | one unreadable answer | `FailedMeansRefused` violated |

`pipeline_safety` also runs `Diagnosis` (section 7), `pipeline_delivery` the `Pacer`
(section 5).

Bounds.  Three lines are enough for a line that is cut off, one that is noise
and one that arrives during a poll; two inodes for a file before and after a
rotation, with the row without an inode as a third; four captures for two slices
of two polls.  `RetriableBreak` is 2 and `DrainCap` 3 (the code: 3 and 256), so
that both ends of a walk occur.  Two mishaps let a failure strike during the
repair of another one.  All numbers of captures, lines and mishaps are bounds of
the model; the theorems do not depend on them.

`NoLoss`, `UploadInOrder` and `LinesSettle` are checked without refusals, failed
syncs and rotations, because with them they do not hold: the violation runs show
that, and a rotated file's unread lines are gone by design.  For the other kinds
the first two are proved (section 8).

Fairness.  `FairSpec` is weak fairness of `Boot` (the service manager restarts
the daemon), of the capture cycle and of the drain cycle (their timers start
them again and again; every request ends in an answer or a time-out, `Reply`
being part of `Drain`).  Nothing is assumed of the tools, of the recovery of
the key or of late requests.

### Findings

1. *A refused upload can lose lines* (`drain-buffer.ts:96`).  The walk goes on
   after a retriable outcome, with a later range of the same file as well.  When
   that is stored, the earlier one can only get a regression, and its row is
   deleted with its lines nowhere.  The contract (6.3) asks for uploads in order.
2. *A poll can undo a recovery* (`capture-cycle.ts:664`).  The commit writes the
   worker's whole copy of the cursors back, over the cursor that a regression
   has rewound in the meantime.
3. *An accepted capture can be marked failed* (`error-mapping.ts:15`), when the
   body of the 200 is empty or cannot be parsed.

## 4. The loops of the daemon (`DaemonLoops.tla`)

The pipeline lets its cycles run again and again.  This module is about what
makes them: the supervisor, the loop functions with their time-outs, the recovery
loop, and the setup command that meets them in the AUTH_FAILED file.

### Correspondence

| model | code |
| --- | --- |
| `daemon`, `aborted` | the process of `run`, and the signal that SIGTERM and SIGINT abort |
| `pc[l]` | where the loop function is: at the `gate`, `waiting` in `runWithTimeout`, `sleeping`, `restarting` in `superviseLoop`, `returned` |
| `inFlight[l]`, `running[l]` | the flag of this call of the loop function, and the cycles it has started that have not settled |
| `orphans[l]` | unsettled cycles of earlier calls, which threw |
| `crashes[l]` | `consecutiveCrashes` |
| `upload` | an upload of a drain cycle, rejected or not, before `finalizeAuthFailure` |
| `trial`, `exhausted`, `after` | the recovery loop's count, what it is about to record, and what it does after that |
| `pc["auth_recovery"]` | also the four awaits of `recordAuthRecoveryState`: `exists`, `text`, `rename`, `chmod` |
| `daemonKey`, `configKey`, `valid` | the key read at start, the key in the config file, the keys the backend accepts |
| `setupPc`, `reconfigured` | a setup command after its write and after its clear; whether one has ended with a key that is still valid |

An action is a stretch of code between two awaits.  The recovery loop's read and
write of the sentinel are therefore separate steps, and the file may go or come
in between: its absence makes the second of the four reads, and the change of
mode, throw.  A loop function throws only when the sentinel cannot be read
(`GateThrows`); what a cycle throws is caught.  Whether more than ten seconds
have passed since the start of a loop function is a choice.  A cycle may settle
at any time or never.

The mishaps are `revoke` and `restore` (of a key at the backend), `setup`,
`verify_error` (the verify-key request fails), `gate_throws`, `kill` and
`sigterm`.  The backend's keys and the operating system are external.

### Properties and runs

* `OneCycle`: no call of a loop function has two cycles at once, although it stops
  waiting for a cycle that takes too long and does not stop the cycle.
* `LoopsAlive` (proved, section 8): a loop returns only after the abort, whatever
  the sentinel, its cycles and its crashes do.
* `ShutdownCompletes`: after the signal the process ends, though a cycle may hang.
* `PauseEnds`: with a valid key and trials left, AUTH_FAILED goes away, also when
  the recovery loop is started again in the middle.
* `SetupResumes`: after a setup with a valid key the daemon does not stay paused
  (refuted, twice).

| run | instance | result |
| --- | --- | --- |
| `daemon_loops` | a capture and a drain loop with the recovery loop, two keys, two trials, process exit at the second crash in a row, all kinds, 2 mishaps | holds |
| `key_rotation` | one loop, a key revoked, then a setup with another one | `SetupResumes` violated |
| `resurrected_sentinel` | one loop, one key revoked and restored, then a setup with it | `SetupResumes` violated |

Bounds.  The heartbeat loop is the capture loop with other intervals, so two
loops stand for three.  Two trials (the code: 16) reach the first, the last and
the exhausted one; two crashes (the code: 3) reach both a restart and the exit.
`orphans` is bounded by the crashes.  Of several drain cycles one at a time has
an upload on its way.

Fairness.  `FairSpec` is weak fairness of the steps of each loop (timers fire),
of `Restart`, of the recovery loop (verify-key has a time-out of its own), of
`Exit`, and of what is left of a setup once it has written the config file.
None is assumed of a cycle, an upload, the start of the daemon or the backend.

### Findings

4. *A new key does not reach a running daemon* (`install-and-start.ts:57`).
   Setup clears AUTH_FAILED and asks for a start, which leaves a running daemon as
   it is, with the key it read when it started.  The next upload is rejected and
   the sentinel is back; the recovery loop verifies the old key until its trials
   are used up, and the watchdog takes the sentinel for a pause.
5. *A cleared sentinel can be written back* (`auth-failed-sentinel.ts:55`).  The
   recovery loop's update of the file is a read and a later write.  A loop with
   no trials left does it at each idle tick, and after that never verifies again.

### Beside the loops: `CaptureDispatch`, `SentinelWatcher`, `MachineShadows`

`daemon_loops` also runs three smaller modules of the running daemon.

`CaptureDispatch` is one capture cycle with all its sources.  `polls` holds every
poll under way with the cursor it began from, `cycle` is the step of
`runCaptureCycle`, `cycleInFlight` the loop's flag.  A source of `WorkerSources`
works on a copy and commits as a whole, one of `DirectSources` writes the
daemon's own database.  In the compiled binary there are no worker threads, and a
source that throws rejects the whole cycle: the other polls go on as orphans, the
pressure check is left out, and the next cycle may begin beside them.  `drainPc` and
`measured` are the drain cycle's `applyResumeSentinel`.  Either cycle measures in one
step (`FindPressure`, `ShouldResume`) and writes or removes the sentinel in another
(`MarkFull`, `Resume`), whatever has happened in between; `unchecked` is what the
property remembers of it.

* `CapturedOnce`: every line below a cursor is in a capture whatever was rejected or
  died, and in only one as long as no cycle was rejected, or cut off by a death between
  a direct source's capture and its cursor.
* `PressureHolds`: no cycle polls with more in the buffer than the soft limit,
  unless since the last check of the pressure (with no commits of orphans after it)
  a check failed or was left out by a rejected cycle or a death of the daemon, a
  `setup` removed BUFFER_FULL, or the drain cycle removed it by a measurement that
  commits had overtaken (finding 20).  One cycle that ends as it should sets it right.
* `SourcesServed`: a source that always throws keeps no other source waiting: again
  and again all lines of the others are captured.

Two sources (one of each kind), two lines each; one throw, failed check, death of the
daemon or setup beside what a broken source throws; at most one orphan when a cycle
starts; polling pauses above two lines and resumes below one.  A run with no broken
source is of the compiled binary, which has every step of the other.  Fairness: the
loop's timer, the cycle's own steps, each poll, the drain cycle.

`SentinelWatcher` is the watch on the configuration directory: one first read of
each file, then the watch, a delay after each notice, another read that finds the
file and later reads it.  `RegistryMirrors`: once nothing is under way the registry
shows whether each file is there, unless it changed where no watch looked or
cannot be read.  Two files (one is `update-available`, whose absence is kept
apart), two payloads, two changes.

`MachineShadows` has ten XState machines as sets of transitions and the code that
feeds each as a graph of places, with the events sent on the way.  `ShadowsFollow`:
no machine drops an event but those listed in `KnownDrops`, and when the code
returns its machine is at rest.  Every path through each graph is taken.

## 5. The data path (`MCDataPath`, run `data_path`; `Pacer` in run `pipeline_delivery`)

### `LineCollectors`

One file of codex, gemini or claude-desktop, followed from the line to the
backend.  `line` is the file, each line by its kind (`talk`, `tool`, `huge`, ...);
`list` says whether the exclusion list is empty, names others or this project;
`hint` is what tells which project the file is of: nothing, a torn index, or its
name.  `own` and `fallback` are the cursor rows, `waiting` the captures.  The second
row is the one the watermark sync wrote for lines of an earlier installation.
`torn` says that lines will be read again that were captured or synced already: a
throw came between `insertBatch` and `setCursor`, or the handler of an exception,
which knows only `own`, wrote a row at the start of the file that hides the synced
one.

* `NoLineLost`: a cursor never passes a kept line that neither the backend nor a
  waiting capture holds, unless `torn`.  Refuted for claude-desktop when a read is
  cut into two slices (run `desktop_slices`).
* `ReadWhenAllowed`: while the list names the project, no poll captures a line or
  moves the cursor (also while the index that would tell the project is torn); and
  unless the project stays excluded, every kept line before one that is too large
  is delivered in the end.

Bounds: three lines (a cut, a line that is not kept, one that cannot be sent), up to
one of them synced, one change of the list or of the hint, one exception or crash, two waiting captures.
`Cut` is {codex}: for claude-desktop a cut is the refuted case.  Fairness: polls
and uploads go on.

### `RowCollector`

The rows of a SQLite database: cursor's global and workspace states, gemini's
tokens, a codex table.  The application inserts, replaces, deletes rows and vacuums
(which renumbers them); `cursors` has a row per generation with the row id and the
page count seen; a shrunk database begins a new generation, which the backend takes
for another file.  `NoRowSkipped`: a conversation row before the cursor's floor is
held by the backend or a waiting capture, was left out while excluded, or is
quarantined; unless a poll could not tell that rows moved (`disturbed`), or captures
lost their cursor (`half`).  Three rows, one deletion or vacuum, one change of the
list, one throw.

### `ConsentSurface`

Three parts of the code read the same records by rules of their own: the
collectors decide what is captured, `inspect` counts records and prompts in a dry
run, and the prompt extraction finds the user's words in a captured body for the
receipt and for `logs`.  A record is reduced to what any of them looks at, for each
of five agents.  `InspectIsTrue`: what was captured of the part inspect has read is
in its count and conversely (but for desktop replays and sub-agents' files), and a
prompt or answer shown as such is of a record that inspect counts as one.  All
records of an agent's alphabet with up to two content items; when there are two
records, one is plain.

### `Pacer`

Two token buckets, `retryAfterUntil`, and the growing delays after 429 and 5xx, in
ticks relative to now.  A bucket of rate r in a window w is counted in w-ths, so it
stays an integer.  The wall clock may be set back while timers go on.

* `PaceHeld`: in any window at most what the bucket held plus what flowed in.  `grants`
  records what was let through at most so many ticks ago, for each age up to a window.
* `RetryAfterHonoured`: no capture is let through before the longest Retry-After
  that was noted is over, also when a shorter one came later.
* `AcquireEnds`: every acquire ends, also of a capture larger than the bucket.

`PacerAssumption` wants a rate of at least one capture per window; finding 9 says
what happens below it.

## 6. The daemon as a service (`MCServiceLifecycle`, run `service_lifecycle`)

### `RescueWatchdog`

Everything that starts or ends the daemon process: `run`'s boot in steps, `stop`,
`start`, `restart`, `setup`, `uninstall` in steps, the service manager (three kinds,
external), the boot of the machine, sleep, and the rescue command of the watchdog,
which reads configuration, registration, process, metadata and sentinels, decides
from its ledger, acts and writes the ledger, each in a step of its own.  `RescueDies`
ends it at any of them: it is killed, or it fails to write the ledger, which is only
logged.  Time is
counted in periods of the watchdog; instants are kept as ages that stop growing at
`RESCUE_RATE_CAP`, past which no threshold tells them apart.

* `StopHolds`: a daemon does not run while a stop by its user stands (made in this
  boot, its sentinel written, nothing started by the user since), whoever launched a
  process meanwhile.
* `BoundedLaunches`: between two healthy verdicts the watchdog launches at most
  once more than the failures that trip the breaker, and once more for each attempt
  that never came into the ledger (`lost`).  The launch comes before the writing: on a
  full disk no attempt is ever recorded, and the launches have no bound (finding 13).
* `RestartsOnlyUnmoved`: it replaces a running daemon only when a loop finished no
  cycle between its last two looks at this daemon in this boot, and the looks are not
  so far apart that the machine slept (what an `uninstall --reset` removed counts as
  no look).
* `RescueComes`: a dead, abandoned daemon is launched again and a hanging one is
  replaced, unless the breaker, an upgrade, a pause or the user is in the way.

Two events (faults, sleeps, boots, commands, rescues cut off) on each of three platforms.  Fairness:
the timer fires, rescues, boots and commands end; nothing of faults, the user or
the service manager's own relaunch.  `launches` and `lost` are counted anew when the ledger
is: at a healthy verdict, a boot, and an `uninstall --reset`.

### `CoordinatedUpgrade`

The prod daemon replaces the binary that a dev daemon also runs: it takes the lock,
records that dev was running, stops dev, waits, downloads, releases and exits; its
next process starts dev again and removes both files.  Any step may fail or be the
last one; dev's user starts and stops it meanwhile.

* `StoppedDevIsRecorded`: while dev is down because of an upgrade, the restore
  state says so on disk.
* `DevComesBack`: it runs again, unless its user took it over or the service manager
  refused (launchd always does: finding 12).

Two releases, three moves (faults, restarts, commands).

### `ProfileLayout`

The one-time relocation of a profile's files into `prod/`, which the prod and the
dev daemon both try at their start under a lock that goes stale after a minute.  A
rename may fail (the moves so far are undone); the configuration in `prod/` may fail to
be read or written, perhaps half way, which the code ignores (`RewriteFails`); the
marker may fail to be written, which it does not (`MarkFails`); a process may die at any
step, the machine may sleep while a live process holds the lock, and `uninstall --reset` may
remove files meanwhile.

* `MarkedIsMoved`: once the marker is there no old file is left in the root, and no
  prod daemon runs on a new buffer while the old one lies elsewhere.  Three cases in
  which the code does just that are exempted by name (`spoilt`, finding 14), and from
  the second half also a configuration that was not rewritten (`unnamed`): prod then
  opens a new buffer in the root, with the marker there, while the queue is in `prod/`.
* `RelocationEnds`: a relocation that was cut short is done by a later start.

Three files stand for nine; two troubles, one reset.

### `ConfigFile`

`config.toml` between `exclude`, `unexclude`, `setup`, `setup new`, `setup reset`,
`dev setup`, an editor, and the daemon, which validates it once and from then on
reads its exclusion list at every cycle.  A file is its state (`none`, `garbled`,
`read`), key, sections with values of the wrong kind, sections with values of the
user's own, paths, decompression limit and list; an entry of the list is one of five
names for two folders, so that the lexical comparison of the commands and the
resolving one of the collectors differ.  `said` is what commands reported and the
user wrote, `known` the exclusions the daemon had read.

`PromisesKept`: what was excluded, set up or edited stays in the file, whatever
follows; and no cycle takes an excluded folder, not even one that cannot read the
file, if the daemon had read the exclusion before.

#### Lost updates

Each command writes all of the file from what it had read, and nothing locks it.
When another writer came in between (`Overtaken`), what it wrote is gone: an
`exclude` that ends while `setup new` verifies a key is lost, although
`build-config.ts:18` says the exclusions are "carried over on `setup new` so a key
rotation never wipes the user's exclusions"; an `exclude` that overlaps `setup new`
may put the old key back, and one that overlaps `setup reset` brings the file back.
`PromisesKept` therefore takes what such a command writes as settled anew.

Two commands at once and in all, one edit by hand.

## 7. What the commands see

### `Diagnosis` (run `pipeline_safety`)

A pass of `doctor` reads its signals one by one while the daemon goes on, judges by
what it read, and its user follows one of the pieces of advice the report begins
with.  `rejected` says whether the key in config.toml, and the one that the daemon's
process took from it when it started, is a revoked one: an upload with such a key
writes AUTH_FAILED, `setup` replaces the first alone and removes the sentinel, only a
new process takes over the second.  A frame of `status` reads the database first and the service last, and paints
while its user may quit.

* `LooksAreTrue`: what doctor says of a daemon that did not change while it looked
  is so: down, stopped by the user, stalled, or none of these (`ReportIsTrue`);
  status paints only while it holds the terminal, "ok" means set up, running and not
  held back, and `--json` calls no such frame an error (`ScreenIsTrue`).
* `HelpArrives`: whatever happened, a user who keeps running doctor and following
  its advice gets a daemon that serves, without the watchdog's help, or ends with one
  that runs on with a replaced key (`KeepsOldKey`).  That is finding 4 again: its
  uploads bring AUTH_FAILED back, for which doctor names `setup new` and never
  `restart`.  Of no other trouble does the advice lead in a circle.  A `setup` without
  the network cannot verify the key and changes nothing; its user sees to the network.

Two troubles.  Fairness: minutes pass, a stop under way ends, and the user goes on
with doctor.  `Health` does not tell the drain's retriable answers apart, for which
`--json` says "warning".

### `BufferViews` (run `data_path`)

The database as the daemon writes it (open and migrate piece by piece, insert,
deliver, fail, recover, prune, the two cycles' read-change-write of the one
`daemon_state` row, the last success) and as others read it: `status`, `doctor` and
`logs` each put their answer together of several queries, and each query sees the
database of another moment.  A query that counts or adds up is the set of records it
counts.

* `FramesTrue`: status leaves no stored capture out of its totals; doctor's failures
  are those no successful drain has followed; `logs --id` finds a stored capture.
  What was delivered between two queries is excepted where the code does miss it.
* `StateRowCurrent`: neither cycle puts back the other's older part of `daemon_state`.

Two captures, one drain cycle (what the one before it left, a failed capture or a
receipt, is in the initial states), one upset (a killed process, a setup that clears
the failures).  A statement of the opening that finds its table or column there is no
step of its own, and the daemon does nothing between a command's last query and its
end: neither can change what another step sees.

## 8. Proofs

`UploadPipelineProofs` proves, for all values of the constants that satisfy
`BoundsAssumption` and `PolicyAssumption`, that `Inductive` is an invariant:
`InductiveInvariant`, and from it `TypeCorrect`, `CursorsAccounted`,
`ReceiptsHonest` and `RecoveriesFinal`.  `Accounted` is not inductive alone:

* a commit turns the worker's copy into cursors, so the same must hold of the
  copy, with the uncommitted captures counted in (`WorkAccounted`);
* the captures must be numbered without gaps, the worker's behind the committed
  ones, or a roll-back could drop a committed one (`Numbered`,
  `FreshWhilePolling`);
* a rewound cursor is the watermark that the answer reported, which the backend
  has not gone back from since (`UploadInvariant`);
* a capture that was answered with a regression starts before the file's
  watermark, which only grows, so no late request of it is ever accepted
  (`BackendInvariant`, with `RangesNotEmpty`).

The proof takes the actions one by one, and under each the conjuncts it can
disturb; lemmas say what a copy of a rows function, a capture that is added and
a watermark that grows leave true.

`UploadPipelineProofs` proves `ImplementsLifecycle`: initial states map to initial
states, every step to a step of one or several captures' machines or to a
stutter.  It uses the inductive invariant, above all that the capture being sent
is pending and that it is the one at the walk's place.

`OrderProofs` proves `UploadsInOrder` and `NothingLost`, under one hypothesis,
`Orderly`: no capture is stuck, and the mishaps are of the kinds `crash`, `worker`,
`excluded`, `lost_reply`, `invalid`, `unreadable`, `retention` and `setup`.  Each of
the other kinds makes the walk pass a capture that the backend does not have (a
request that is lost or refused for now, a rejected key, whose sentinel may fail) or
puts a cursor elsewhere than behind the captures (a rotation, a sync that failed, an
exception of the collector); with any of them TLC finds `NoLoss` violated on the
instance of `out_of_order_loss`, some with two inodes or a line uploaded before.  Under
the hypothesis the invariant `InOrder` says that a file has one inode; that its
captures lie one behind the other, up to its cursor; that none that may yet be sent
starts before the backend's watermark, so that it is accepted; and that nothing that
the backend lacks waits before the one being sent.

`DaemonProofs` is about four modules, for any loops, sources, files and limits that
satisfy their assumptions.

* `AtMostOneCycle`, `LoopsStayAlive` (`DaemonLoops`): that a loop with a cycle does
  not start another rests on its flag, so the invariant says that the flag is exact
  (`InFlightExact`): set when there is one cycle, clear when there is none, through
  time-outs, crashes and restarts.
* `LinesCapturedOnce`, `PressureIsHeld` (`CaptureDispatch`): what lies below a cursor
  is captured, and also what lies below the cursor that a poll, orphan or not, began
  from (`ReadIsCaptured`); until a cycle is rejected each source has one poll at most,
  which began from the source's cursor (`OnceSoFar`); the flag, the cycle and its polls
  agree (`CycleExact`); and a buffer over the limit is marked full before the next
  cycle unless it is `unchecked`, and the drain cycle removes the mark only by a
  measurement below the limit (`PressureKnown`).
* `RegistryFollowsFiles` (`SentinelWatcher`): a file of which no change is still to be
  looked at is in the registry as it is, also while another is read (`RegistryKnows`).
* `MachinesFollow` (`MachineShadows`): for each place of a path through the code, the
  invariant says which states of the machine go with it (`Beside`); lemmas say what a
  chain of steps is, step by step, and that each machine follows (`LoopFollows` and so on).

`DiagnosisProofs` proves `LooksHold` (`Diagnosis`), for any number of troubles.  As long
as nothing has changed since a command began, what it has read at each of its steps is
what is so (`DoctorHasRead`, `StatusHasRead`).  A loop that finishes its cycles is not
held up by a gate, and has an old cycle on record only when the machine has slept
(`BegunFinish`): that is why doctor, which forgives a machine that has just resumed,
calls no such daemon stalled.

`PacerProofs` proves `HonoursRetryAfter` for every rate, window, back-off and
behaviour of the clock that satisfies `PacerAssumption`.  The invariant relates what
is owed to `retryAfterUntil` before the first sleep and to what is left of the sleep
during it: a clock that is set back lengthens the first and cannot shorten the second.
`KeepsPace` says that no window of the batch or of the byte limit ever has more than two
windows' worth in it (a capture larger than the bucket counted as all of it), whatever
the order of the uploads, the sizes and the back-offs.
Its invariant `PaceInv` is a balance for every age up to a window: what was let through
at most `age` ticks ago, and what the bucket holds now, are together no more than the
bucket's capacity and what flowed into it in `age` ticks.  That a delay which grows has
a length at all needs what a power is: `Power` is a recursive function, and that there
is one is proved from its values up to each exponent (`SomePowers`, `SamePowers`).

`ServiceProofs` is about four modules.

* `StopsHold`, `LaunchesBounded` and `RestartsJustified` (`RescueWatchdog`), for any
  number of faults, sleeps, boots and commands.  A stop that stands has its sentinel on
  disk, and no process, starting or about to be launched, has got past it
  (`StopStands`); every launch since the last healthy verdict is in the ledger, in
  the copy a rescue is about to write, or lost with a rescue that could not write it
  (`AttemptsCounted`), and a copy that decides for a restart was filled by a look at
  this daemon in this boot, with no long sleep since (`SeenUnmoved`).
* `DevIsRecorded`, `LockHasHolder`, `SwapsQuietly` (`CoordinatedUpgrade`), for every
  platform, source and bound.  What the invariant adds is where in the heartbeat the
  record must already be on disk: from the step that looks at dev, before the one that
  stops it, until the step of the next process that has started it.
* `MovedWhenMarked` (`ProfileLayout`), for any number of troubles and resets.  A buffer
  is opened with the marker there (`OpensMarked`), and no daemon runs while a reset
  removes files (`WipedAlone`).  Unless one of the exempted cases has happened, only the
  holder of the lock moves files (`OneMover`), what its walk has passed is moved
  (`Walked`), a marker that came before the mover was done was written with all files
  moved (`MarkedMover`), and, as long as no rewriting
  has failed, a configuration that names the wrong buffer is one that a mover has yet
  to rewrite (`MisnamedIsMoving`).
* `ConfigPromises` (`ConfigFile`), for any number of commands and edits.  `FileKeeps`
  compares folders and only of a file that parses; what an unexclude leaves depends on
  the names, and a garbled file may be repaired.  So `ConfigInvariant` compares the
  keys by which the commands tell names apart, in every state of the file, and says
  what a command holds between its steps: the file it will write from, and a key that
  is bound by the time it writes.

`DataPathProofs` is about three modules as well.

* `NoLineIsLost` and `ExcludedFreezes` (`LineCollectors`), for files, synced prefixes
  and slices of any length, under the hypothesis that claude-desktop is not in `Cut`
  (run `desktop_slices` refutes it otherwise).  The second is the safety part of
  `ReadWhenAllowed`.  The invariant: as long as nothing is `torn`, the captures follow
  each other from the backend's watermark to the cursor (`AtFront`), or the cursor
  stands before a line that is too large and stays there, while what comes before it is
  captured again and again (`StoppedBefore`).  Lemmas say that the pieces a read is
  cut into cover it in order.  What a capture says of its own lines (`CapturesTrue`)
  needs no order, and holds of claude-desktop's slices too.
* `StateRowNeverStale` and `FramesHold` (`BufferViews`).  A command that has read some
  tables is held to this: what a later query has yet to find is still there, or was
  delivered meanwhile.  `ViewsAssumption` says no more than that the bounds are numbers
  (and that the clock, which starts at 2, is within its own).
* `InspectHolds` (`ConsentSurface`): the collector has taken exactly what it keeps of
  the records up to where it has read, and the screen counts what it has read.

`RowProofs` proves `NoRowIsSkipped` (`RowCollector`), for tables of any length and
content, any number of changes, excludings and throws, and any cut of a read into
captures.  Unless captures have lost their cursor (`half`, finding 7), a table is in
one of two invariants.

* In the tables of cursor and codex, whose rows may go (`TableInv`): the application
  has made a change for every generation, so a poll that notices one has a generation
  left to begin (`Counted`); until rows go, the cursor is not beyond the rows
  (`CursorSettled`); the captures of a generation follow each other from the backend's
  watermark to the cursor, so that the backend refuses none and no cursor is taken back
  (`InOrder`); and what is before the cursor was read (`RowsRead`).
* In gemini's table, which only grows (`TokenInv`), a row that is too large is neither
  captured nor quarantined: the cursor stays, and what is before the row is captured
  again in every poll.  A capture is of new rows or repeats earlier ones, and until there
  is such a row all are new (`TokenQueue`); nothing goes past the row (`Blocked`).  An
  upload of a repetition is refused and moves the cursor to the backend's watermark, so
  the invariant has to say where each row is that lies before a capture, in its range,
  before the watermark, and before the cursor (`BeforeCaptures`, `InCaptures`,
  `AtBackend`, `BeforeCursor`).

`RowCollectorTypes` does not except captures without a cursor.  Such a capture, and a
cursor or watermark that an upload of it has set, may lie beyond the table; the
invariant (`RowTypes`) says that it is then of a generation that a change of the
application's has left behind, so that a poll which notices the smaller table still
has a generation to begin.

The places of the rows are any numbers, and the slices of a read are counted: the lemmas
say that a set of numbers has a least and, when finite, a greatest one (the first from
the well-foundedness of <, the second from the cardinality of what is above), that the
ranks of its numbers are 1 to its cardinality, and that the slices of a read lie behind
each other and have every row that is not too large.

Five theorems are about the runs that check several modules together: `DaemonTypes`,
`PipelineTypes` and `PacedTypes`, `ServiceTypes` and `DataTypes` state the type
invariants that those runs check.  A step of such a run is a step of one module and of
none of the others (a lemma says so of each), so each module's invariant holds in it.

Model-checked only:

* the liveness properties, and the second part of `ReadWhenAllowed`: temporal proofs
  need `ENABLED`, which the prover does not support;

`ReceiptsStored`, `RecoveredIsFinal`, `LoopsAlive`, `LockIsOwn`, `SwapIsQuiet` and
`ExcludedIsFrozen` are proved and not checked in a run of their own.

## 9. More findings

Divergences that a run shows are in `PROJECT.json` and in sections 3 to 5.  What
else was met while modelling:

Collectors and cycles

6. *Slices of claude-desktop share one range* (`claude-desktop/collect.ts:216`, run
   `desktop_slices`): the second one is refused as a regression and deleted.
7. Captures inserted without their cursor (a throw between `insertBatch` and
   `setCursor` outside a worker) are sent again with what follows, and refused:
   lines are lost (`torn`, `half`).  So they are when a file that the sync knows
   throws at its first poll: the handler takes the missing row for offset 0 and
   writes one (`codex/collect-rollout.ts:300`, `gemini/collect.ts:266`), which hides
   the synced row.
8. In the compiled binary, or for a direct source, a throw rejects the whole
   cycle; its orphans may capture lines twice or set a cursor back.  A poll that
   hangs keeps `inFlight` for ever.  The worker path drops a source's errors
   (`commitWorkerCapture` returns none).
9. `upload_max_batches_per_sec` may be configured below 1, for which an acquire
   never ends; the Retry-After of a 503 is waited for twice.
10. A failure of the exclusion list's loader itself fails open
    (`capture-cycle.ts:284`).  `excluded_projects` written as something that is no
    array is read as empty by the daemon.  Cursor's backfill after an un-exclusion
    never runs in the worker, whose database has no metadata.
11. codex's content items are `input_text`, which the prompt extraction does not
    match, so codex receipts have no prompt; inspect counts desktop replays and
    sub-agents' files, which are not captured, and its `captureSubAgents` is ignored
    by the collector.

The service

12. `start` exits after an automatic upgrade without starting the daemon
    (`lifecycleRegistration.ts:58`).  On macOS the dev service manager of the
    upgrade has the prod plist's path.  `coordinatedUpgrade` reports an upgrade also
    when there was none, so prod exits at every check; on Windows the new binary is
    left beside the old one.  A failed download leaves `.upgrade-restore-state`, and
    the watchdog sees an upgrade under way until prod's next start.
13. A boot reads SESSION_STOPPED and then removes it: a stop in between is undone.
    A rescue whose start throws does not count its attempt, nor does one that is killed
    after its launch or cannot write the ledger (`rescue/index.ts:143`, swallowed): a
    daemon that dies at once on a full disk is launched again every 15 minutes for ever.  Nothing calls
    `clearRescueLedger`, though the stuck-daemon runbook says so.  `dev on` does not
    clear dev's SESSION_STOPPED.  An uninstall may be outrun by a booting daemon that
    installs the watchdog again.
14. The relocation renames whenever the source exists, although document 6.5 says it
    does so only when the destination does not: a `setup` with the new binary before
    the first start is overwritten by the old configuration.  A stale lock is removed
    by path and may be another process's fresh one; a crash between the renames and
    the rewrite of the configuration, and a prod start between dev's, leave
    `buffer_path` at the root: a new, empty buffer.  So does an error of reading or
    writing the moved configuration, which is ignored before the marker is written
    (`migrate-flat-to-nested.ts:129`), although nothing died.  `uninstall --reset` leaves flat
    sentinels behind.
15. `setup new` puts back every tuned setting but the exclusions and paths; `dev
    setup` drops the exclusions; any rewrite drops an infinite decompression limit;
    `unexclude` compares lexically, so another name of the folder stays excluded;
    `setup reset` and `setup` forget a custom buffer path; `run` loads a file
    without the profile's defaults, so a dev configuration without `[capture]` uses
    the prod buffer.

What the commands say

16. A capture delivered between the two queries of `logs --id` is reported as not
    found; status' captured bytes dip by what is delivered while it reads; doctor
    hides every failure older than the last drain without fatal outcomes.  Failed
    captures are pruned by their creation, so one that waited longer than the
    retention and then fails is gone at once.
17. doctor calls a capture loop stalled that is paused for a full buffer or has only
    begun, names every live upgrade lock stale, and has checks that depend on errors
    of failed captures which those errors never cause; several probes are constants.
    A loop that hangs before its first recorded cycle is never reported.
18. Whose key was revoked while the daemon runs, and who follows doctor, replaces the
    key with `setup new` again and again: the process keeps the old one (finding 4).
    The quit key leaves status' terminal raw; `--json` is "healthy" of a daemon that
    does not run.

Shadow machines

19. The heartbeat's machine does not finish after a version check that throws, the
    poll's drops its end after an error, the cursor's its error; the pacer's clears
    its Retry-After later than the code.  The sentinel watcher misses what changes
    before the watch begins and after it died.

The two cycles

20. `applyResumeSentinel` (`drain-cycle.ts:135`) measures, then awaits a look at
    BUFFER_FULL and its removal.  A capture cycle that commits and writes the sentinel
    in between has it removed, and the next one polls over the soft limit.

## 10. Not modelled

* Formats, redaction patterns, compression, headers and the shapes of the contract:
  data that no property tells apart.  Rendering of doctor, status, logs and inspect.
* Quarantined records outside `RowCollector`, the one-query lists of `logs`, and
  corruption of the database.
* The service manager's machine, and the upgrade and freshness machines, which
  production code does not use; the pacer machine under a second acquire.
* The wall clock set back between two captures of one file (its effect is what
  `out_of_order_loss` shows), and the row without an inode of more than one file.
* The download's attestation (an outcome), and the removal of files by uninstall
  (I/O beyond the order of its steps).
* `installed_at`, `install_source` and the consent file in `ConfigFile`; the path
  and the existence of a configuration are read in one step there.
* Documentation, scripts and packaging.

`PROJECT.json` gives the reason for each part that is modelled only in part.
