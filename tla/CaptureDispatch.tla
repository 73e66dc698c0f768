-------------------------- MODULE CaptureDispatch --------------------------
(***************************************************************************)
(* One capture cycle polls every source at once: some in a worker that     *)
(* gets a copy of the source's cursors and hands its captures back to be   *)
(* committed in one transaction, some directly on the daemon's database.   *)
(* A worker's failure is an error of its source; but in the compiled       *)
(* binary, which has no worker threads, and for a direct source it rejects *)
(* the whole cycle.  Polls of a rejected cycle go on and may commit in the *)
(* middle of the next one.                                                 *)
(*                                                                         *)
(* BUFFER_FULL is written by the capture cycle and removed by the drain    *)
(* cycle, each some time after it has measured what is waiting.            *)
(*                                                                         *)
(* A source is one file of lines.  The pause for a rejected key is in      *)
(* DaemonLoops, what happens to a capture after its commit in              *)
(* UploadPipeline; here the drain takes lines from the buffer one by one.  *)
(***************************************************************************)
EXTENDS Integers, FiniteSets

CONSTANTS
  WorkerSources, DirectSources, \* the default sources, and the others
  MaxWritten,                   \* bound: lines of a source
  MaxOrphans,                   \* bound: polls of rejected cycles when a cycle starts
  MaxThrown,                    \* bound: failures of sources that are not broken and of the pressure
                                \* check, deaths of the daemon and setups
  SoftPause, SoftResume         \* the buffer policy, in lines

Sources == WorkerSources \union DirectSources

ASSUME DispatchAssumption ==
  /\ WorkerSources \intersect DirectSources = {}
  /\ MaxWritten \in Nat \ {0} /\ MaxOrphans \in Nat /\ MaxThrown \in Nat
  /\ SoftPause \in Nat /\ SoftResume \in Nat /\ SoftResume < SoftPause

VARIABLES
  compiled,     \* whether the daemon is the compiled binary
  broken,       \* the sources whose every poll throws
  written,      \* the lines of each source
  cursor,       \* source_cursors
  times,        \* how often each line is in a committed capture (2: more than once)
  polls,        \* the polls under way
  cycle,        \* the step of runCaptureCycle
  loopPc,       \* captureLoop waits for the cycle, or not, or no longer
  cycleInFlight,\* its inFlight
  waiting,      \* lines in the buffer that have not been uploaded
  bufferFull,   \* the BUFFER_FULL sentinel
  drainPc,      \* the drain cycle uploads, or has measured less than SoftResume
  measured,     \* what it has measured
  rejected,     \* some cycle has been rejected, or cut off between a capture and its cursor
  unchecked,    \* lines may have come since the last check of the pressure, or since the
                \* measurement for which BUFFER_FULL was removed
  thrown

dispatchVars == <<compiled, broken, written, cursor, times, polls, cycle, loopPc,
                  cycleInFlight, waiting, bufferFull, drainPc, measured, rejected, unchecked,
                  thrown>>
fixedVars == <<compiled, broken>>
fileVars  == <<written, cursor, times, waiting>>
loopVars  == <<loopPc, cycleInFlight>>
drainVars == <<drainPc, measured>>

\* A poll: what it started from, the lines there were, 0 for the current cycle or
\* how many cycles have been rejected since.
PollRecords == [src: Sources, from: 0 .. MaxWritten, least: 0 .. MaxWritten, age: Nat]

DispatchTypeOK ==
  /\ compiled \in BOOLEAN /\ broken \subseteq Sources
  /\ written \in [Sources -> 0 .. MaxWritten] /\ cursor \in [Sources -> 0 .. MaxWritten]
  /\ times \in [Sources -> [1 .. MaxWritten -> 0 .. 2]]
  /\ polls \subseteq PollRecords
  /\ cycle \in {"idle", "gate", "polling", "closing", "marking"}
  /\ loopPc \in {"ready", "awaiting"} /\ cycleInFlight \in BOOLEAN
  /\ waiting \in Nat /\ bufferFull \in BOOLEAN
  /\ drainPc \in {"uploading", "low"} /\ measured \in 0 .. SoftResume
  /\ rejected \in BOOLEAN /\ unchecked \in BOOLEAN /\ thrown \in 0 .. MaxThrown

Own == {p \in polls : p.age = 0}
Orphans == polls \ Own
Aged(ps) == {[p EXCEPT !.age = @ + 1] : p \in ps}

DispatchInit ==
  /\ compiled \in BOOLEAN /\ broken \in {b \in SUBSET Sources : b # Sources}
  /\ written = [s \in Sources |-> 0] /\ cursor = written
  /\ times = [s \in Sources |-> [n \in 1 .. MaxWritten |-> 0]]
  /\ polls = {} /\ cycle = "idle"
  /\ loopPc = "ready" /\ cycleInFlight = FALSE
  /\ waiting = 0 /\ bufferFull = FALSE /\ drainPc = "uploading" /\ measured = 0
  /\ rejected = FALSE /\ unchecked = FALSE /\ thrown = 0

Happens == thrown < MaxThrown /\ thrown' = thrown + 1

WriteLine(s) ==
  /\ written[s] < MaxWritten /\ written' = [written EXCEPT ![s] = @ + 1]
  /\ UNCHANGED <<fixedVars, cursor, times, waiting, polls, cycle, loopVars, bufferFull,
                 drainVars, rejected, unchecked, thrown>>

-----------------------------------------------------------------------------
(* The loop *)

\* Mutant: the flag is not looked at.
MayStartAlways == TRUE
MayStart == ~cycleInFlight

\* captureLoop: a tick while the last cycle is in flight does nothing.
BeginCycle ==
  /\ loopPc = "ready" /\ MayStart /\ Cardinality(Orphans) <= MaxOrphans
  /\ loopPc' = "awaiting" /\ cycleInFlight' = TRUE
  /\ cycle' = "gate" /\ polls' = Orphans \union Aged(Own)
  /\ UNCHANGED <<fixedVars, fileVars, bufferFull, drainVars, rejected, unchecked, thrown>>

\* runWithTimeout gives up waiting; the cycle goes on.
TimeOut ==
  /\ loopPc = "awaiting" /\ cycle = "polling" /\ loopPc' = "ready"
  /\ UNCHANGED <<fixedVars, fileVars, polls, cycle, cycleInFlight, bufferFull, drainVars,
                 rejected, unchecked, thrown>>

\* The cycle's promise is settled.
Settled == loopPc' = "ready" /\ cycleInFlight' = FALSE /\ cycle' = "idle"

-----------------------------------------------------------------------------
(* The cycle *)

GateBlocks ==
  /\ cycle = "gate" /\ bufferFull /\ Settled
  /\ UNCHANGED <<fixedVars, fileVars, polls, bufferFull, drainVars, rejected, unchecked, thrown>>

\* All polls begin; a worker is given the cursors as they are now.
GateClear ==
  /\ cycle = "gate" /\ ~bufferFull
  /\ cycle' = "polling"
  /\ polls' = polls \union {[src |-> s, from |-> cursor[s], least |-> written[s], age |-> 0]
                              : s \in Sources}
  /\ UNCHANGED <<fixedVars, fileVars, loopVars, bufferFull, drainVars, rejected, unchecked,
                 thrown>>

\* A direct source reads its cursor when it comes to its file.
ReadCursor(p) ==
  /\ p \in polls /\ p.src \in DirectSources /\ p.from # cursor[p.src]
  /\ polls' = (polls \ {p}) \union {[p EXCEPT !.from = cursor[p.src]]}
  /\ UNCHANGED <<fixedVars, fileVars, cycle, loopVars, bufferFull, drainVars, rejected,
                 unchecked, thrown>>

\* The captures of a poll that has read up to `to`.
Inserts(p, to) ==
  /\ times' = [times EXCEPT ![p.src] =
       [n \in 1 .. MaxWritten |-> IF n > p.from /\ n <= to /\ @[n] < 2 THEN @[n] + 1 ELSE @[n]]]
  /\ waiting' = waiting + (IF to > p.from THEN to - p.from ELSE 0)

\* A worker's captures and cursors are committed together, and its cursors written even
\* when they have not moved.
Commits(p, to) ==
  /\ Inserts(p, to)
  /\ cursor' = IF p.src \in WorkerSources \/ to > p.from
               THEN [cursor EXCEPT ![p.src] = to] ELSE cursor
  /\ written' = written

\* What is left of the polls when p has ended, and the cycle's next step.
Ends(p) ==
  /\ polls' = polls \ {p}
  /\ cycle' = IF p.age = 0 /\ Own = {p} THEN "closing" ELSE cycle

PollEnds(p) ==
  /\ p \in polls /\ p.src \notin broken
  /\ \E to \in p.least .. written[p.src] : Commits(p, to)
  /\ Ends(p)
  /\ UNCHANGED <<fixedVars, loopVars, bufferFull, drainVars, rejected, unchecked, thrown>>

PollThrows(p) ==
  /\ p \in polls
  /\ \/ p.src \in broken /\ thrown' = thrown
     \/ p.src \notin broken /\ Happens

\* A worker's exception comes back as a result with an error, and so does a
\* transaction that fails, in which case nothing is committed.
PollFails(p) ==
  /\ PollThrows(p) /\ p.src \in WorkerSources
  /\ compiled => p.src \notin broken
  /\ Ends(p)
  /\ UNCHANGED <<fixedVars, fileVars, loopVars, bufferFull, drainVars, rejected, unchecked>>

\* Mutant: the other polls end with the cycle.
OthersAborted(p) == Orphans
Others(p) == Orphans \union Aged(Own \ {p})

\* runInProcessWorker's promise is returned and not awaited in pollSourceInWorker's
\* try, a direct source's poll is outside any: Promise.all rejects at once.  A direct
\* source may have captured a file before.
PollRejects(p) ==
  /\ PollThrows(p) /\ (p.src \in DirectSources \/ compiled)
  /\ \/ UNCHANGED fileVars
     \/ p.src \in DirectSources /\ \E to \in p.least .. written[p.src] : Commits(p, to)
  /\ IF p.age = 0
     THEN polls' = Others(p) /\ Settled /\ rejected' = TRUE /\ unchecked' = TRUE
     ELSE polls' = polls \ {p} /\ UNCHANGED <<cycle, loopVars, rejected, unchecked>>
  /\ UNCHANGED <<fixedVars, bufferFull, drainVars>>

\* Mutant: the pause begins a line later.
ShouldPauseLate == waiting > SoftPause + 1
ShouldPause == waiting > SoftPause

\* applyPressureSentinel measures; the metrics follow.
CloseCycle ==
  /\ cycle = "closing" /\ ~ShouldPause /\ Settled /\ unchecked' = (Orphans # {})
  /\ UNCHANGED <<fixedVars, fileVars, polls, bufferFull, drainVars, rejected, thrown>>

FindPressure ==
  /\ cycle = "closing" /\ ShouldPause /\ cycle' = "marking"
  /\ UNCHANGED <<fixedVars, fileVars, polls, loopVars, bufferFull, drainVars, rejected,
                 unchecked, thrown>>

\* It writes BUFFER_FULL for what it has measured.
MarkFull ==
  /\ cycle = "marking" /\ Settled /\ bufferFull' = TRUE /\ unchecked' = (Orphans # {})
  /\ UNCHANGED <<fixedVars, fileVars, polls, drainVars, rejected, thrown>>

\* The check of the pressure, or the writing of the sentinel, fails and is only logged.
PressureFails ==
  /\ cycle \in {"closing", "marking"} /\ Settled /\ Happens /\ unchecked' = TRUE
  /\ bufferFull' \in {bufferFull, bufferFull \/ cycle = "marking"}
  /\ UNCHANGED <<fixedVars, fileVars, polls, drainVars, rejected>>

-----------------------------------------------------------------------------
(* The drain cycle, and what else happens to the sentinel *)

Drain ==
  /\ drainPc = "uploading" /\ waiting > 0 /\ waiting' = waiting - 1
  /\ UNCHANGED <<fixedVars, written, cursor, times, polls, cycle, loopVars, bufferFull, drainVars,
                 rejected, unchecked, thrown>>

\* applyResumeSentinel measures ...
ShouldResume ==
  /\ drainPc = "uploading" /\ waiting < SoftResume
  /\ drainPc' = "low" /\ measured' = waiting
  /\ UNCHANGED <<fixedVars, fileVars, polls, cycle, loopVars, bufferFull, rejected, unchecked,
                 thrown>>

\* Captures have been committed since the drain cycle measured.
Overtaken == waiting > measured

\* ... and removes the sentinel it finds a while later, written for which capture ever.
Resume ==
  /\ drainPc = "low" /\ drainPc' = "uploading"
  /\ bufferFull' = FALSE /\ unchecked' = (unchecked \/ (bufferFull /\ Overtaken))
  /\ UNCHANGED <<fixedVars, fileVars, polls, cycle, loopVars, measured, rejected, thrown>>

\* setup removes BUFFER_FULL whatever is waiting.
SetupRemoves ==
  /\ bufferFull /\ Happens /\ bufferFull' = FALSE /\ unchecked' = TRUE
  /\ UNCHANGED <<fixedVars, fileVars, polls, cycle, loopVars, drainVars, rejected>>

\* The daemon dies and starts again, with what was committed; a direct source's capture may
\* have been inserted and its cursor not yet written.
Dies ==
  /\ Happens /\ polls' = {} /\ Settled /\ drainPc' = "uploading" /\ unchecked' = TRUE
  /\ \/ UNCHANGED <<fileVars, rejected>>
     \/ /\ \E p \in polls : p.src \in DirectSources
                           /\ \E to \in p.least .. written[p.src] : Inserts(p, to)
        /\ rejected' = TRUE /\ UNCHANGED <<written, cursor>>
  /\ UNCHANGED <<fixedVars, bufferFull, measured>>

-----------------------------------------------------------------------------
PollStep(s) == \E p \in polls :
  /\ p.src = s
  /\ \/ PollEnds(p)
     \/ s \in broken /\ (PollFails(p) \/ PollRejects(p))

DispatchNext ==
  \/ \E s \in Sources : WriteLine(s)
  \/ BeginCycle \/ TimeOut \/ GateBlocks \/ GateClear
  \/ CloseCycle \/ FindPressure \/ MarkFull \/ PressureFails
  \/ \E p \in polls : ReadCursor(p) \/ PollEnds(p) \/ PollFails(p) \/ PollRejects(p)
  \/ Drain \/ ShouldResume \/ Resume \/ SetupRemoves \/ Dies

CycleGoesOn == GateBlocks \/ GateClear \/ CloseCycle \/ FindPressure \/ MarkFull
DrainGoesOn == Drain \/ ShouldResume \/ Resume

DispatchFairness ==
  /\ WF_dispatchVars(BeginCycle) /\ WF_dispatchVars(CycleGoesOn)
  /\ \A s \in Sources : WF_dispatchVars(PollStep(s))
  /\ WF_dispatchVars(DrainGoesOn)

DispatchSpec == DispatchInit /\ [][DispatchNext]_dispatchVars /\ DispatchFairness

-----------------------------------------------------------------------------
\* Every line below a cursor is in a capture, whatever has been rejected, failed, died or
\* been overtaken; and as long as no cycle was rejected, or cut off between a capture and
\* its cursor, none is in two, also when cycles outlast the time the loop waits for them.
CapturedOnce ==
  \A s \in Sources : \A n \in 1 .. MaxWritten :
    /\ n <= cursor[s] => times[s][n] > 0
    /\ ~rejected => times[s][n] <= 1

\* No cycle begins to poll with more in the buffer than the soft limit, unless since the
\* last check of the pressure that was not followed by commits
\*   - the check has failed, or a rejected cycle or the daemon's death has left it out,
\*   - the drain cycle has removed a BUFFER_FULL by a measurement from before the
\*     captures for which the sentinel stood there, or
\*   - a setup has removed it.
\* One cycle that ends as it should sets it right.
PressureHolds ==
  [][cycle = "gate" /\ cycle' = "polling" => waiting <= SoftPause \/ unchecked]_dispatchVars

\* A source that always throws, and rejects every cycle, keeps no other source's
\* lines from being captured: again and again there is none of them left behind.
SourcesServed ==
  []<>(\A s \in Sources \ broken : \A n \in 1 .. written[s] : times[s][n] > 0)

=============================================================================
