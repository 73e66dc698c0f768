---------------------------- MODULE UploadPipeline ----------------------------
(***************************************************************************)
(* The path of a captured conversation from the tool's log file to the     *)
(* backend: the capture cycle reads new lines of the source files in a     *)
(* worker and commits captures and cursors to the buffer, the drain cycle  *)
(* uploads the pending captures one at a time, and the two run             *)
(* concurrently in one daemon that may crash between any two of its steps. *)
(*                                                                         *)
(* A position is a number of complete lines, so a cursor is the number of  *)
(* lines of a file already read and a capture [lo, hi] holds the lines     *)
(* lo+1 .. hi.  Lines that carry no dialogue are the constant Noise.       *)
(* Captures are numbered in the order of (created_at, capture_id), the     *)
(* order the drain cycle takes them in.                                    *)
(***************************************************************************)
EXTENDS Integers, FiniteSets

CONSTANTS
  Files,           \* source files, each with its own source_path_hash
  MaxPos,          \* bound: lines a file may grow to
  MaxInode,        \* bound: files a path may name, one after the other
  MaxCaptures,     \* bound: captures that may be made
  Noise,           \* the line numbers that carry no dialogue
  PriorInstall,    \* lines an earlier installation had already uploaded
  CaptureBytes,    \* compressed size of a capture
  RetriableBreak,  \* DRAIN_MAX_CONSECUTIVE_RETRIABLE
  DrainCap,        \* DEFAULT_MAX_BATCHES_PER_DRAIN
  SoftPause,       \* softPauseBytes
  SoftResume,      \* softResumeBytes
  Kinds,           \* the kinds of mishap that may happen
  MaxMishaps,      \* bound: mishaps in a behaviour
  Stuck            \* captures the backend always answers with a 5xx

Ids    == 1 .. MaxCaptures
Inodes == 0 .. MaxInode         \* 0 is NO_INODE_SENTINEL
NoCursor == -1                  \* no row for the key in source_cursors

AllKinds == {"crash", "rotation", "sync", "worker", "collect", "excluded",
             "lost_request", "lost_reply", "unavailable", "invalid",
             "unreadable", "unauthorized", "sentinel", "retention", "setup"}

ASSUME BoundsAssumption ==
  /\ Files # {}
  /\ MaxPos \in Nat \ {0} /\ MaxInode \in Nat \ {0} /\ MaxCaptures \in Nat
  /\ MaxMishaps \in Nat /\ CaptureBytes \in Nat \ {0}
  /\ Noise \subseteq 1 .. MaxPos
  /\ PriorInstall \in [Files -> 0 .. MaxPos]
  /\ Kinds \subseteq AllKinds
  /\ Stuck \subseteq Ids
ASSUME PolicyAssumption ==
  /\ RetriableBreak \in Nat \ {0} /\ DrainCap \in Nat \ {0}
  /\ SoftPause \in Nat /\ SoftResume \in Nat /\ SoftResume < SoftPause

Captures  == [file : Files, inode : 1 .. MaxInode, lo : 0 .. MaxPos, hi : 0 .. MaxPos]

NoCapture == [file |-> CHOOSE f \in Files : TRUE, inode |-> 1, lo |-> 0, hi |-> 0]

\* "captured" rows are still in the worker's private database, "recovered"
\* ones were deleted after a watermark regression, "pruned" ones by retention.
Statuses == {"absent", "captured", "pending", "failed", "delivered",
             "recovered", "pruned"}

VARIABLES
  size, inode,             \* each file: its lines, and which file the path names
  cursor,                  \* source_cursors: watermark_end by file and inode
  batch, status, created,  \* upload_batches and receipts, by capture number
  resync,                  \* captures a row of resync_events was written for
  authFailed, bufferFull,  \* the AUTH_FAILED and BUFFER_FULL sentinel files
  setupPc,                 \* a setup command: what it clears next
  daemon,                  \* "up" or "down"
  pollPc, todo, work, fresh,    \* the capture cycle and its worker's database
  drainPc, at, streak, attempted, reply, reported,  \* the drain cycle
  stored, serverEnd, late, \* the backend, and requests nobody waits for
  mishaps                  \* how many mishaps there were

fileVars   == <<size, inode>>
bufferVars == <<cursor, batch, status, created, resync>>
flagVars   == <<authFailed, bufferFull, setupPc>>
pollVars   == <<pollPc, todo, work, fresh>>
drainVars  == <<drainPc, at, streak, attempted, reply, reported>>
serverVars == <<stored, serverEnd, late>>
vars == <<fileVars, bufferVars, flagVars, daemon, pollVars, drainVars,
          serverVars, mishaps>>

-----------------------------------------------------------------------------
NoRows == [f \in Files |-> [i \in Inodes |-> NoCursor]]

PollSteps  == {"idle", "gated", "polling", "polled", "pausing"}
DrainSteps == {"idle", "walk", "sending", "verifying", "flagging", "wrapup",
               "resuming"}
SetupSteps == {"none", "buffer_full", "failed"}
Answers == {"none", "accepted", "regression", "unavailable", "invalid",
            "unauthorized"}

TypeOK ==
  /\ size \in [Files -> 0 .. MaxPos] /\ inode \in [Files -> 1 .. MaxInode]
  /\ cursor \in [Files -> [Inodes -> -1 .. MaxPos]]
  /\ batch \in [Ids -> Captures] /\ status \in [Ids -> Statuses]
  /\ created \in 0 .. MaxCaptures /\ resync \subseteq Ids
  /\ authFailed \in BOOLEAN /\ bufferFull \in BOOLEAN /\ setupPc \in SetupSteps
  /\ daemon \in {"up", "down"}
  /\ pollPc \in PollSteps
  /\ todo \subseteq Files
  /\ work \in [Files -> [Inodes -> -1 .. MaxPos]]
  /\ fresh \in 0 .. MaxCaptures
  /\ drainPc \in DrainSteps
  /\ at \in 0 .. MaxCaptures /\ streak \in Nat /\ attempted \in Nat
  /\ reply \in Answers /\ reported \in 0 .. MaxPos
  /\ stored \subseteq Ids /\ serverEnd \in [Files -> 0 .. MaxPos]
  /\ late \subseteq Ids
  /\ mishaps \in 0 .. MaxMishaps

\* The gateway is installed: the buffer is empty, the backend may know the
\* files from an earlier installation, and the daemon is not yet running.
Init ==
  /\ size = PriorInstall /\ inode = [f \in Files |-> 1]
  /\ cursor = NoRows
  /\ batch = [id \in Ids |-> NoCapture]
  /\ status = [id \in Ids |-> "absent"] /\ created = 0 /\ resync = {}
  /\ authFailed = FALSE /\ bufferFull = FALSE /\ setupPc = "none"
  /\ daemon = "down"
  /\ pollPc = "idle" /\ todo = {} /\ work = NoRows /\ fresh = 0
  /\ drainPc = "idle" /\ at = 0 /\ streak = 0 /\ attempted = 0
  /\ reply = "none" /\ reported = 0
  /\ stored = {} /\ serverEnd = PriorInstall /\ late = {}
  /\ mishaps = 0

Mishap(kind) == kind \in Kinds /\ mishaps < MaxMishaps /\ mishaps' = mishaps + 1

-----------------------------------------------------------------------------
(* The tools that own the source files. *)

Append(f) ==
  /\ size[f] < MaxPos
  /\ size' = [size EXCEPT ![f] = @ + 1]
  /\ UNCHANGED <<inode, bufferVars, flagVars, daemon, pollVars, drainVars,
                 serverVars, mishaps>>

\* The path names a new, empty file.
Replace(f) ==
  /\ Mishap("rotation")
  /\ inode[f] < MaxInode
  /\ inode' = [inode EXCEPT ![f] = @ + 1]
  /\ size' = [size EXCEPT ![f] = 0]
  /\ UNCHANGED <<bufferVars, flagVars, daemon, pollVars, drainVars, serverVars>>

-----------------------------------------------------------------------------
(* Start of the daemon: with no cursor at all the server's watermarks are   *)
(* stored as rows without an inode; when the request fails, nothing is.     *)

SyncedRows == [f \in Files |-> [i \in Inodes |->
  IF i = 0 /\ serverEnd[f] > 0 THEN serverEnd[f] ELSE NoCursor]]

Boot ==
  /\ daemon = "down"
  /\ daemon' = "up"
  /\ \/ cursor = NoRows /\ cursor' = SyncedRows /\ UNCHANGED mishaps
     \/ cursor = NoRows /\ Mishap("sync") /\ UNCHANGED cursor
     \/ cursor # NoRows /\ UNCHANGED <<cursor, mishaps>>
  /\ UNCHANGED <<fileVars, batch, status, created, resync, flagVars, pollVars,
                 drainVars, serverVars>>

-----------------------------------------------------------------------------
(* The capture cycle. *)

CaptureGate ==
  /\ daemon = "up" /\ pollPc = "idle"
  /\ ~authFailed /\ ~bufferFull
  /\ pollPc' = "gated"
  /\ UNCHANGED <<fileVars, bufferVars, flagVars, daemon, todo, work, fresh,
                 drainVars, serverVars, mishaps>>

\* The worker gets a copy of the cursor rows and works on that copy.
CaptureStart ==
  /\ pollPc = "gated"
  /\ pollPc' = "polling" /\ todo' = Files /\ work' = cursor /\ fresh' = 0
  /\ UNCHANGED <<fileVars, bufferVars, flagVars, daemon, drainVars, serverVars,
                 mishaps>>

\* getCursorWithFallback, then watermarkStart = cursor?.watermarkEnd ?? 0.
ResumePoint(rows, f, i) ==
  IF rows[f][i] # NoCursor THEN rows[f][i]
  ELSE IF rows[f][0] # NoCursor THEN rows[f][0] ELSE 0

Start(f)  == ResumePoint(work, f, inode[f])
Kept(f)   == (Start(f) + 1 .. size[f]) \ Noise

\* Where a first slice may end: after a kept line that is not the last one.
Cuts(f) == {c \in Kept(f) : \E p \in Kept(f) : p > c}

Collecting(f) == pollPc = "polling" /\ f \in todo /\ todo' = todo \ {f}

\* Mutant: the cursor is set one line too far.
SetWorkPastEnd(f, end) ==
  work' = [work EXCEPT ![f] = [@ EXCEPT ![inode[f]] = end + 1]]

SetWork(f, end) == work' = [work EXCEPT ![f] = [@ EXCEPT ![inode[f]] = end]]

Slice(f, lo, hi) == [file |-> f, inode |-> inode[f], lo |-> lo, hi |-> hi]

\* insertBatch, in the worker's database, for each of the given slices.
InsertOne(a) ==
  LET n == created + fresh
  IN /\ n < MaxCaptures
     /\ batch' = [batch EXCEPT ![n + 1] = a]
     /\ status' = [status EXCEPT ![n + 1] = "captured"]
     /\ fresh' = fresh + 1

InsertTwo(a, b) ==
  LET n == created + fresh
  IN /\ n + 1 < MaxCaptures
     /\ batch' = [batch EXCEPT ![n + 1] = a, ![n + 2] = b]
     /\ status' = [status EXCEPT ![n + 1] = "captured", ![n + 2] = "captured"]
     /\ fresh' = fresh + 2

CollectFrame == UNCHANGED <<fileVars, cursor, created, resync, flagVars, daemon,
                            pollPc, drainVars, serverVars>>

\* Nothing new, or the file belongs to an excluded project: no cursor is written.
CollectNothing(f) ==
  /\ Collecting(f)
  /\ \/ size[f] <= Start(f) /\ UNCHANGED mishaps
     \/ size[f] > Start(f) /\ Mishap("excluded")
  /\ UNCHANGED <<batch, status, work, fresh>> /\ CollectFrame

CollectNoise(f) ==
  /\ Collecting(f)
  /\ size[f] > Start(f) /\ Kept(f) = {}
  /\ SetWork(f, size[f])
  /\ UNCHANGED <<batch, status, fresh, mishaps>> /\ CollectFrame

\* splitJsonlAtBoundary made one slice or two; the last one ends with the range.
CollectLines(f) ==
  /\ Collecting(f)
  /\ size[f] > Start(f) /\ Kept(f) # {}
  /\ \/ InsertOne(Slice(f, Start(f), size[f]))
     \/ \E c \in Cuts(f) : InsertTwo(Slice(f, Start(f), c), Slice(f, c, size[f]))
  /\ SetWork(f, size[f])
  /\ UNCHANGED mishaps /\ CollectFrame

\* Mutant: the handler of the exception writes the end of the range.
CollectFailsAdvancing(f) ==
  /\ Collecting(f)
  /\ size[f] > Start(f)
  /\ Mishap("collect")
  /\ SetWork(f, size[f])
  /\ UNCHANGED <<batch, status, fresh>> /\ CollectFrame

\* An exception, before the first slice is inserted or at the second one.  The
\* handler writes the row of this very inode back, or 0 when there is none.
CollectFails(f) ==
  /\ Collecting(f)
  /\ size[f] > Start(f)
  /\ Mishap("collect")
  /\ \/ UNCHANGED <<batch, status, fresh>>
     \/ \E c \in Cuts(f) : InsertOne(Slice(f, Start(f), c))
  /\ SetWork(f, IF work[f][inode[f]] # NoCursor THEN work[f][inode[f]] ELSE 0)
  /\ CollectFrame

\* commitWorkerCapture: one transaction inserts the captures and writes back
\* every cursor row of the worker's copy, changed or not.
CommitCapture ==
  /\ pollPc = "polling" /\ todo = {}
  /\ status' = [id \in Ids |-> IF status[id] = "captured" THEN "pending" ELSE status[id]]
  /\ created' = created + fresh
  /\ cursor' = [f \in Files |-> [i \in Inodes |->
                  IF work[f][i] # NoCursor THEN work[f][i] ELSE cursor[f][i]]]
  /\ pollPc' = "polled" /\ work' = NoRows /\ fresh' = 0
  /\ UNCHANGED <<fileVars, batch, resync, flagVars, daemon, todo, drainVars,
                 serverVars, mishaps>>

DropCaptured == [id \in Ids |-> IF status[id] = "captured" THEN "absent" ELSE status[id]]

\* Mutant: the cursors are written outside the transaction that rolls back.
WorkerFailsKeepingCursors ==
  /\ pollPc = "polling"
  /\ Mishap("worker")
  /\ status' = DropCaptured
  /\ cursor' = [f \in Files |-> [i \in Inodes |->
                  IF work[f][i] # NoCursor THEN work[f][i] ELSE cursor[f][i]]]
  /\ pollPc' = "polled" /\ todo' = {} /\ work' = NoRows /\ fresh' = 0
  /\ UNCHANGED <<fileVars, batch, created, resync, flagVars, daemon, drainVars,
                 serverVars>>

\* The worker throws or the transaction rolls back: its work is dropped.
WorkerFails ==
  /\ pollPc = "polling"
  /\ Mishap("worker")
  /\ status' = DropCaptured
  /\ pollPc' = "polled" /\ todo' = {} /\ work' = NoRows /\ fresh' = 0
  /\ UNCHANGED <<fileVars, cursor, batch, created, resync, flagVars, daemon,
                 drainVars, serverVars>>

\* Mutant: the query for the next pending row has lost its condition on the status.
PendingOrFailed == {id \in Ids : status[id] \in {"pending", "failed"}}

Pending == {id \in Ids : status[id] = "pending"}
PendingBytes == CaptureBytes * Cardinality(Pending)

\* applyPressureSentinel measures, and then writes the sentinel file.
EvaluatePressure ==
  /\ pollPc = "polled"
  /\ pollPc' = IF PendingBytes > SoftPause THEN "pausing" ELSE "idle"
  /\ UNCHANGED <<fileVars, bufferVars, flagVars, daemon, todo, work, fresh,
                 drainVars, serverVars, mishaps>>

WriteBufferFull ==
  /\ pollPc = "pausing"
  /\ bufferFull' = TRUE /\ pollPc' = "idle"
  /\ UNCHANGED <<fileVars, bufferVars, authFailed, setupPc, daemon, todo, work, fresh,
                 drainVars, serverVars, mishaps>>

-----------------------------------------------------------------------------
(* The backend: it knows a capture_id it has stored, accepts a range that   *)
(* starts at or after the end of the last one of the file, and refuses any  *)
(* other as a watermark regression.                                         *)

End(id)      == serverEnd[batch[id].file]
Accepts(id)  == id \in stored \/ batch[id].lo >= End(id)

ServerProcesses(id) ==
  /\ stored' = IF Accepts(id) THEN stored \union {id} ELSE stored
  /\ serverEnd' = IF Accepts(id) /\ id \notin stored
                  THEN [serverEnd EXCEPT ![batch[id].file] = batch[id].hi]
                  ELSE serverEnd

\* A request the daemon gave up on, or was sent by a dead daemon, is processed.
LateRequestArrives(id) ==
  /\ id \in late
  /\ late' = late \ {id}
  /\ ServerProcesses(id)
  /\ UNCHANGED <<fileVars, bufferVars, flagVars, daemon, pollVars, drainVars, mishaps>>

-----------------------------------------------------------------------------
(* The drain cycle. *)

\* Mutant: the drain cycle has the gates of the capture cycle.
DrainStartGatedLikeCapture ==
  /\ daemon = "up" /\ drainPc = "idle"
  /\ ~authFailed /\ ~bufferFull
  /\ drainPc' = "walk" /\ at' = 0 /\ streak' = 0 /\ attempted' = 0
  /\ UNCHANGED <<fileVars, bufferVars, flagVars, daemon, pollVars, reply, reported,
                 serverVars, mishaps>>

DrainStart ==
  /\ daemon = "up" /\ drainPc = "idle"
  /\ ~authFailed
  /\ drainPc' = "walk" /\ at' = 0 /\ streak' = 0 /\ attempted' = 0
  /\ UNCHANGED <<fileVars, bufferVars, flagVars, daemon, pollVars, reply, reported,
                 serverVars, mishaps>>

PendingAfter == {id \in Pending : id > at}

\* Mutant: the walk breaks off one retriable outcome too early.
WalkEndsEarly == \/ attempted >= DrainCap \/ authFailed \/ PendingAfter = {}
                 \/ streak >= RetriableBreak - 1

WalkEnds == \/ attempted >= DrainCap \/ authFailed \/ PendingAfter = {}
            \/ streak >= RetriableBreak

\* Mutant: the newest pending capture is taken first.
DrainPickNewest(id) ==
  /\ drainPc = "walk" /\ ~WalkEnds
  /\ id \in PendingAfter /\ \A j \in PendingAfter : j <= id
  /\ at' = id /\ drainPc' = "sending" /\ reply' = "none"
  /\ UNCHANGED <<fileVars, bufferVars, flagVars, daemon, pollVars, streak, attempted,
                 reported, serverVars, mishaps>>

\* nextPendingBatchAfter; its upload is sent.
DrainPick(id) ==
  /\ drainPc = "walk" /\ ~WalkEnds
  /\ id \in PendingAfter /\ \A j \in PendingAfter : id <= j
  /\ at' = id /\ drainPc' = "sending" /\ reply' = "none"
  /\ UNCHANGED <<fileVars, bufferVars, flagVars, daemon, pollVars, streak, attempted,
                 reported, serverVars, mishaps>>

DrainWalkEnds ==
  /\ drainPc = "walk" /\ WalkEnds
  /\ drainPc' = "wrapup" /\ at' = 0 /\ streak' = 0 /\ attempted' = 0
  /\ UNCHANGED <<fileVars, bufferVars, flagVars, daemon, pollVars, reply, reported,
                 serverVars, mishaps>>

Waiting == drainPc = "sending" /\ reply = "none"
ReplyFrame == UNCHANGED <<fileVars, bufferVars, flagVars, daemon, pollVars,
                          drainPc, at, streak, attempted>>

\* The backend processes the upload and its answer is read.
ServerAnswers ==
  /\ Waiting /\ at \notin Stuck
  /\ ServerProcesses(at)
  /\ reply' = IF Accepts(at) THEN "accepted" ELSE "regression"
  /\ reported' = IF Accepts(at) THEN reported ELSE End(at)
  /\ UNCHANGED <<late, mishaps>> /\ ReplyFrame

\* It refuses it unprocessed: 429 or 5xx, 400 or 413, 401 or 403.
ServerRefuses ==
  /\ Waiting
  /\ \/ at \in Stuck /\ reply' = "unavailable" /\ UNCHANGED mishaps
     \/ \E kind \in {"unavailable", "invalid", "unauthorized"} :
          Mishap(kind) /\ reply' = kind
  /\ UNCHANGED <<reported, serverVars>> /\ ReplyFrame

\* No answer in time: the request is lost, or on its way, or only the answer is.
UploadTimesOut ==
  /\ Waiting
  /\ \/ Mishap("lost_request") /\ late' \in {late, late \union {at}}
        /\ UNCHANGED <<stored, serverEnd>>
     \/ Mishap("lost_reply") /\ ServerProcesses(at) /\ UNCHANGED late
  /\ reply' = "unavailable"
  /\ UNCHANGED reported /\ ReplyFrame

\* A 200 whose body is empty or not JSON: a FatalError.
AnswerUnreadable ==
  /\ Waiting
  /\ Mishap("unreadable") /\ Accepts(at)
  /\ ServerProcesses(at)
  /\ reply' = "invalid"
  /\ UNCHANGED <<reported, late>> /\ ReplyFrame

Handling(answer) == drainPc = "sending" /\ reply = answer
HandleFrame == UNCHANGED <<fileVars, batch, created, flagVars, daemon, pollVars,
                           at, reported, serverVars>>

\* markBatchDelivered: the receipt is written and the row deleted in one transaction.
HandleAccepted ==
  /\ Handling("accepted")
  /\ status' = [status EXCEPT ![at] = "delivered"]
  /\ drainPc' = "walk" /\ streak' = 0 /\ attempted' = attempted + 1 /\ reply' = "none"
  /\ UNCHANGED <<cursor, resync, mishaps>> /\ HandleFrame

\* setCursorFromRegression: the capture's file resumes where the server says.
RewoundCursor ==
  [cursor EXCEPT ![batch[at].file] = [@ EXCEPT ![batch[at].inode] = reported]]

HandleRegression ==
  /\ Handling("regression")
  /\ cursor' = RewoundCursor
  /\ resync' = resync \union {at}
  /\ status' = [status EXCEPT ![at] = "recovered"]
  /\ drainPc' = "walk" /\ streak' = 0 /\ attempted' = attempted + 1 /\ reply' = "none"
  /\ UNCHANGED mishaps /\ HandleFrame

\* markBatchFailed.
HandleInvalid ==
  /\ Handling("invalid")
  /\ status' = [status EXCEPT ![at] = "failed"]
  /\ drainPc' = "walk" /\ streak' = 0 /\ attempted' = attempted + 1 /\ reply' = "none"
  /\ UNCHANGED <<cursor, resync, mishaps>> /\ HandleFrame

\* recordRetriableFailure: the row stays pending, the walk goes on after it.
Retry ==
  /\ drainPc' = "walk" /\ streak' = streak + 1 /\ attempted' = attempted + 1
  /\ reply' = "none"
  /\ UNCHANGED <<cursor, status, resync>> /\ HandleFrame

HandleRetriable == Handling("unavailable") /\ Retry /\ UNCHANGED mishaps

\* handleAuthError asks verify-key whether the key is really invalid.
HandleUnauthorized ==
  /\ Handling("unauthorized")
  /\ drainPc' = "verifying" /\ reply' = "none"
  /\ UNCHANGED <<cursor, resync, status, streak, attempted, mishaps>> /\ HandleFrame

\* The key is fine, or verify-key failed in another way.
AuthUnconfirmed == drainPc = "verifying" /\ Retry /\ UNCHANGED mishaps

AuthConfirmed ==
  /\ drainPc = "verifying"
  /\ status' = [status EXCEPT ![at] = "failed"]
  /\ drainPc' = "flagging"
  /\ UNCHANGED <<cursor, resync, streak, attempted, reply, mishaps>> /\ HandleFrame

\* The sentinel is written, or the error of writing it is only logged.
WriteAuthFailed ==
  /\ drainPc = "flagging"
  /\ \/ authFailed' = TRUE /\ UNCHANGED mishaps
     \/ Mishap("sentinel") /\ UNCHANGED authFailed
  /\ drainPc' = "walk" /\ streak' = 0 /\ attempted' = attempted + 1
  /\ UNCHANGED <<fileVars, bufferVars, bufferFull, setupPc, daemon, pollVars, at, reply,
                 reported, serverVars>>

\* The rows of these captures are deleted for good.
StatusWithout(S) == [id \in Ids |-> IF id \in S THEN "pruned" ELSE status[id]]

\* pruneBuffer drops rows past their retention; then the pending bytes are measured.
DrainWrapup ==
  /\ drainPc = "wrapup"
  /\ \/ UNCHANGED <<status, mishaps>>
     \/ /\ Mishap("retention")
        /\ \E old \in SUBSET {id \in Ids : status[id] \in {"failed", "delivered"}} :
             status' = StatusWithout(old)
  /\ drainPc' = IF PendingBytes < SoftResume THEN "resuming" ELSE "idle"
  /\ UNCHANGED <<fileVars, cursor, batch, created, resync, flagVars, daemon, pollVars,
                 at, streak, attempted, reply, reported, serverVars>>

ClearBufferFull ==
  /\ drainPc = "resuming"
  /\ bufferFull' = FALSE /\ drainPc' = "idle"
  /\ UNCHANGED <<fileVars, bufferVars, authFailed, setupPc, daemon, pollVars,
                 at, streak, attempted, reply, reported, serverVars, mishaps>>

-----------------------------------------------------------------------------
(* The ways out of AUTH_FAILED. *)

\* The recovery loop finds the key valid.
AuthRecovered ==
  /\ daemon = "up" /\ authFailed
  /\ authFailed' = FALSE
  /\ UNCHANGED <<fileVars, bufferVars, bufferFull, setupPc, daemon, pollVars, drainVars,
                 serverVars, mishaps>>

\* The user runs setup with a valid key.  It removes AUTH_FAILED, then BUFFER_FULL, and
\* then deletes the failed captures; an error of the last two is swallowed.
SetupClearsAuthFailed ==
  /\ setupPc = "none" /\ Mishap("setup")
  /\ authFailed' = FALSE /\ setupPc' = "buffer_full"
  /\ UNCHANGED <<fileVars, bufferVars, bufferFull, daemon, pollVars, drainVars, serverVars>>

SetupClearsBufferFull ==
  /\ setupPc = "buffer_full"
  /\ bufferFull' \in {FALSE, bufferFull} /\ setupPc' = "failed"
  /\ UNCHANGED <<fileVars, bufferVars, authFailed, daemon, pollVars, drainVars,
                 serverVars, mishaps>>

SetupClearsFailed ==
  /\ setupPc = "failed"
  /\ setupPc' = "none"
  /\ \/ UNCHANGED status
     \/ status' = StatusWithout({id \in Ids : status[id] = "failed"})
  /\ UNCHANGED <<fileVars, cursor, batch, created, resync, authFailed, bufferFull, daemon,
                 pollVars, drainVars, serverVars, mishaps>>

-----------------------------------------------------------------------------
(* Crashes: memory is lost, the buffer, the sentinels and the backend stay. *)

Forget ==
  /\ daemon = "up" /\ daemon' = "down"
  /\ Mishap("crash")
  /\ pollPc' = "idle" /\ todo' = {} /\ work' = NoRows /\ fresh' = 0
  /\ drainPc' = "idle" /\ at' = 0 /\ streak' = 0 /\ attempted' = 0 /\ reply' = "none"
  /\ UNCHANGED <<reported, fileVars, batch, created, flagVars, stored, serverEnd>>

Crash ==
  /\ Forget
  /\ status' = DropCaptured
  /\ IF Waiting THEN late' \in {late, late \union {at}} ELSE UNCHANGED late
  /\ UNCHANGED <<cursor, resync>>

\* The three writes of a recovery are three transactions: the cursor, the audit
\* row, the deletion of the capture.  The daemon dies after the first or second.
CrashInRecovery ==
  /\ Handling("regression")
  /\ Forget
  /\ cursor' = RewoundCursor
  /\ resync' \in {resync, resync \union {at}}
  /\ status' = DropCaptured
  /\ UNCHANGED late

-----------------------------------------------------------------------------
Collect(f) == CollectNothing(f) \/ CollectNoise(f) \/ CollectLines(f) \/ CollectFails(f)

Capture == \/ CaptureGate \/ CaptureStart
           \/ \E f \in Files : Collect(f)
           \/ CommitCapture \/ WorkerFails
           \/ EvaluatePressure \/ WriteBufferFull

Reply == ServerAnswers \/ ServerRefuses \/ UploadTimesOut \/ AnswerUnreadable

Handle == \/ HandleAccepted \/ HandleRegression \/ HandleInvalid \/ HandleRetriable
          \/ HandleUnauthorized \/ AuthUnconfirmed \/ AuthConfirmed \/ WriteAuthFailed

Drain == \/ DrainStart \/ DrainWalkEnds \/ DrainWrapup \/ ClearBufferFull
         \/ \E id \in Ids : DrainPick(id)
         \/ Reply \/ Handle

Environment == \/ \E f \in Files : Append(f) \/ Replace(f)
               \/ \E id \in Ids : LateRequestArrives(id)
               \/ AuthRecovered
               \/ SetupClearsAuthFailed \/ SetupClearsBufferFull \/ SetupClearsFailed

Next == Environment \/ Boot \/ Capture \/ Drain \/ Crash \/ CrashInRecovery

Spec == Init /\ [][Next]_vars

\* The service manager restarts the daemon, its timers start the two cycles, and
\* every request ends in an answer or in a time-out.
FairSpec == Spec /\ WF_vars(Boot) /\ WF_vars(Capture) /\ WF_vars(Drain)

-----------------------------------------------------------------------------
(* Safety properties. *)

Covers(id, f, i, p) == /\ batch[id].file = f /\ batch[id].inode = i
                       /\ batch[id].lo < p /\ p <= batch[id].hi

\* Every line with dialogue that a stored cursor has passed was put in a capture
\* that was committed, or the server has said that it holds the file beyond it.
\* So a crash, a failed worker, a failed file, a snapshot that is out of date or a
\* half-done recovery never lets the cursor run ahead of what was committed.
Accounted ==
  \A f \in Files, i \in Inodes, p \in (1 .. MaxPos) \ Noise :
    p <= cursor[f][i] =>
      \/ p <= serverEnd[f]
      \/ \E id \in 1 .. created : Covers(id, f, i, p)

\* A capture with a receipt is stored by the backend, whatever became of the
\* requests that were lost, repeated or answered too late.
ReceiptsStored == \A id \in Ids : status[id] = "delivered" => id \in stored

\* A capture given up after a watermark regression is in the resync audit, and the
\* backend never stores it later on, not even from a request still on its way.
RecoveredIsFinal ==
  \A id \in Ids : status[id] = "recovered" => id \in resync /\ id \notin stored

\* Only the regression of a capture may take its lines away from the backend: in
\* any other case a line behind a cursor is stored, waiting, or in a failed capture
\* that was kept for its retention time.
NoLoss ==
  \A f \in Files, i \in 1 .. MaxInode, p \in (1 .. MaxPos) \ Noise :
    p <= cursor[f][i] =>
      \/ i = 1 /\ p <= PriorInstall[f]
      \/ \E id \in 1 .. created : /\ Covers(id, f, i, p)
                                  /\ status[id] # "recovered" \/ id \in stored

\* Captures of a file are sent in the order of their ranges: none is sent while an
\* earlier one of that file, which the backend does not have, waits (contract 6.3).
UploadInOrder ==
  drainPc = "sending" =>
    \A id \in Pending \ stored :
      batch[id].file = batch[at].file => batch[id].lo >= batch[at].lo

\* A failed capture is one the backend did not take: an accepted capture is never
\* reported as failed (contract 8.1: after a 200 OK the batch is marked done).
FailedMeansRefused == \A id \in Ids : status[id] = "failed" => id \notin stored

\* The commit of a capture cycle moves the point where a file is read on only over
\* lines that it commits: what the drain cycle rewound since the worker took its copy
\* of the cursors is not skipped.
CommitCoversAdvance ==
  [][CommitCapture =>
       \A f \in Files, i \in 1 .. MaxInode, p \in (1 .. MaxPos) \ Noise :
         ResumePoint(cursor, f, i) < p /\ p <= ResumePoint(cursor', f, i) =>
           \E id \in Ids : status[id] = "captured" /\ Covers(id, f, i, p)]_vars

-----------------------------------------------------------------------------
(* The inductive invariant that the safety properties follow from. *)

\* Captures are numbered without gaps: first the committed ones, then the worker's.
Numbered ==
  /\ created + fresh <= MaxCaptures
  /\ \A id \in Ids :
       /\ status[id] \notin {"absent", "captured"} => id <= created
       /\ status[id] = "captured" => created < id /\ id <= created + fresh
       /\ status[id] = "absent" => created + fresh < id

\* Only a running worker has captures of its own.
FreshWhilePolling == pollPc # "polling" => fresh = 0

RangesNotEmpty == \A id \in 1 .. created + fresh : batch[id].lo < batch[id].hi

\* What a commit of the worker's copy of the cursors would make of Accounted.
WorkAccounted ==
  \A f \in Files, i \in Inodes, p \in (1 .. MaxPos) \ Noise :
    p <= work[f][i] =>
      \/ p <= serverEnd[f]
      \/ \E id \in 1 .. created + fresh : Covers(id, f, i, p)

\* An upload is one of a committed, pending capture, and the answer to it says what
\* the backend holds from then on.
UploadInvariant ==
  /\ at <= created
  /\ drainPc \in {"sending", "verifying"} => at > 0 /\ status[at] = "pending"
  /\ drainPc = "flagging" => at > 0 /\ status[at] \in {"failed", "pruned"}
  /\ drainPc \in {"idle", "wrapup", "resuming"} => at = 0
  /\ reply # "none" => drainPc = "sending"
  /\ reply = "accepted" => at \in stored
  /\ reply = "regression" => /\ reported <= End(at)
                             /\ batch[at].lo < End(at) /\ at \notin stored

BackendInvariant ==
  /\ late \union stored \subseteq 1 .. created
  /\ \A id \in Ids : status[id] = "recovered" => batch[id].lo < End(id)

Inductive ==
  /\ TypeOK /\ Numbered /\ FreshWhilePolling /\ RangesNotEmpty /\ Accounted
  /\ WorkAccounted /\ UploadInvariant /\ BackendInvariant /\ ReceiptsStored /\ RecoveredIsFinal

-----------------------------------------------------------------------------
(* The state that uploadBatch's lifecycle machine is in, for each capture: its    *)
(* instance is gone when the drain cycle is.                                      *)

Stage == [id \in Ids |->
  CASE status[id] \in {"absent", "captured"} -> "none"
    [] status[id] = "pending" /\ id = at /\ drainPc = "sending"   -> "uploading"
    [] status[id] = "pending" /\ id = at /\ drainPc = "verifying" -> "verifying_auth"
    [] status[id] = "pending" /\ id <= at
         /\ ~(id = at /\ drainPc \in {"sending", "verifying"})   -> "retriable_pending"
    [] status[id] = "pending" /\ id > at -> "pending"
    [] OTHER -> status[id]]

Lifecycle == INSTANCE BatchLifecycle WITH stage <- Stage

\* Every step of the two cycles, of the backend and of a crash moves the lifecycle of
\* the captures as their state machine says, and one upload at a time.
LifecycleSpec == Lifecycle!Spec

-----------------------------------------------------------------------------
(* Liveness properties. *)

\* A committed capture does not stay pending for ever, unless the key is rejected.
PendingSettles ==
  \A id \in Ids \ Stuck : status[id] = "pending" ~> status[id] # "pending" \/ authFailed

\* Every line with dialogue that is in a file reaches the backend, or a capture that
\* holds it has failed.
LinesSettle ==
  \A f \in Files, p \in (1 .. MaxPos) \ Noise :
    size[f] >= p /\ inode[f] = 1
      ~> \/ inode[f] # 1 \/ p <= PriorInstall[f]
         \/ \E id \in 1 .. created : /\ Covers(id, f, 1, p)
                                     /\ \/ id \in stored
                                     \/ status[id] \in {"failed", "pruned"}

\* Back-pressure is released: capturing never stays paused for a full buffer alone.
BufferFullClears == bufferFull ~> ~bufferFull \/ authFailed
=============================================================================
