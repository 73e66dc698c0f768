------------------------ MODULE UploadPipelineProofs ------------------------
(***************************************************************************)
(* Proofs about UploadPipeline, for every value of its constants.  The     *)
(* safety properties follow from the invariant Inductive, and so does that *)
(* the pipeline implements the batch lifecycle.                            *)
(***************************************************************************)
EXTENDS UploadPipeline, TLAPS

LEMMA Numbers ==
  /\ MaxPos \in Nat /\ 0 < MaxPos /\ MaxInode \in Nat /\ 0 < MaxInode
  /\ MaxCaptures \in Nat /\ MaxMishaps \in Nat
BY BoundsAssumption

\* The literals used below belong to the sets of the type invariant.
LEMMA Literals ==
  /\ "absent" \in Statuses /\ "captured" \in Statuses /\ "pending" \in Statuses
  /\ "failed" \in Statuses /\ "delivered" \in Statuses /\ "recovered" \in Statuses
  /\ "pruned" \in Statuses
  /\ "none" \in Answers /\ "accepted" \in Answers /\ "regression" \in Answers
  /\ "unavailable" \in Answers /\ "invalid" \in Answers /\ "unauthorized" \in Answers
  /\ "idle" \in PollSteps /\ "gated" \in PollSteps /\ "polling" \in PollSteps
  /\ "polled" \in PollSteps /\ "pausing" \in PollSteps
  /\ "idle" \in DrainSteps /\ "walk" \in DrainSteps /\ "sending" \in DrainSteps
  /\ "verifying" \in DrainSteps /\ "flagging" \in DrainSteps /\ "wrapup" \in DrainSteps
  /\ "resuming" \in DrainSteps
  /\ "none" \in SetupSteps /\ "buffer_full" \in SetupSteps /\ "failed" \in SetupSteps
BY DEF Statuses, Answers, PollSteps, DrainSteps, SetupSteps

LEMMA NoCaptureType == NoCapture \in Captures
BY BoundsAssumption DEF NoCapture, Captures

LEMMA NoRowsType == NoRows \in [Files -> [Inodes -> -1 .. MaxPos]]
BY Numbers DEF NoRows, NoCursor

LEMMA TypeInit == Init => TypeOK
<1> SUFFICES ASSUME Init PROVE TypeOK
  OBVIOUS
<1>1. size \in [Files -> 0 .. MaxPos] /\ serverEnd \in [Files -> 0 .. MaxPos]
  BY BoundsAssumption DEF Init
<1>2. inode \in [Files -> 1 .. MaxInode]
  BY Numbers DEF Init
<1>3. batch \in [Ids -> Captures]
  BY NoCaptureType DEF Init
<1>4. status \in [Ids -> Statuses]
  BY Literals DEF Init
<1>5. created \in 0 .. MaxCaptures /\ fresh \in 0 .. MaxCaptures /\ at \in 0 .. MaxCaptures
      /\ mishaps \in 0 .. MaxMishaps /\ reported \in 0 .. MaxPos
      /\ streak \in Nat /\ attempted \in Nat
  BY Numbers DEF Init
<1> QED
  BY <1>1, <1>2, <1>3, <1>4, <1>5, Literals, NoRowsType DEF Init, TypeOK

\* Where collecting starts is a position of the file.
LEMMA StartType == ASSUME TypeOK, NEW f \in Files PROVE Start(f) \in 0 .. MaxPos
<1>1. inode[f] \in Inodes /\ 0 \in Inodes
  BY Numbers DEF TypeOK, Inodes
<1>2. work[f][inode[f]] \in -1 .. MaxPos /\ work[f][0] \in -1 .. MaxPos
  BY <1>1 DEF TypeOK
<1> QED
  BY <1>2, Numbers DEF Start, ResumePoint, NoCursor

LEMMA CutType ==
  ASSUME TypeOK, NEW f \in Files, NEW c \in Cuts(f)
  PROVE  c \in 0 .. MaxPos /\ Start(f) < c /\ c < size[f]
BY StartType, Numbers DEF Cuts, Kept, TypeOK

LEMMA SetWorkType ==
  ASSUME TypeOK, NEW f \in Files, NEW end \in -1 .. MaxPos, SetWork(f, end)
  PROVE  work' \in [Files -> [Inodes -> -1 .. MaxPos]]
BY DEF TypeOK, SetWork

LEMMA SliceType ==
  ASSUME TypeOK, NEW f \in Files, NEW lo \in 0 .. MaxPos, NEW hi \in 0 .. MaxPos
  PROVE  Slice(f, lo, hi) \in Captures
BY DEF TypeOK, Slice, Captures

LEMMA InsertOneType ==
  ASSUME TypeOK, NEW a \in Captures, InsertOne(a)
  PROVE  /\ batch' \in [Ids -> Captures] /\ status' \in [Ids -> Statuses]
         /\ fresh' \in 0 .. MaxCaptures
<1>1. batch' \in [Ids -> Captures] /\ status' \in [Ids -> Statuses]
  BY Literals DEF TypeOK, InsertOne
<1>2. fresh' \in 0 .. MaxCaptures
  BY Numbers DEF TypeOK, InsertOne
<1> QED
  BY <1>1, <1>2

LEMMA InsertTwoType ==
  ASSUME TypeOK, NEW a \in Captures, NEW b \in Captures, InsertTwo(a, b)
  PROVE  /\ batch' \in [Ids -> Captures] /\ status' \in [Ids -> Statuses]
         /\ fresh' \in 0 .. MaxCaptures
<1>1. batch' \in [Ids -> Captures]
  BY DEF TypeOK, InsertTwo
<1>2. status' \in [Ids -> Statuses]
  BY Literals DEF TypeOK, InsertTwo
<1>3. fresh' \in 0 .. MaxCaptures
  BY Numbers DEF TypeOK, InsertTwo
<1> QED
  BY <1>1, <1>2, <1>3

LEMMA ServerType ==
  ASSUME TypeOK, NEW id \in Ids, ServerProcesses(id)
  PROVE  stored' \subseteq Ids /\ serverEnd' \in [Files -> 0 .. MaxPos]
<1>1. batch[id] \in Captures
  BY DEF TypeOK
<1>2. batch[id].hi \in 0 .. MaxPos
  BY <1>1 DEF Captures
<1>3. serverEnd' \in [Files -> 0 .. MaxPos]
  BY <1>2 DEF TypeOK, ServerProcesses
<1>4. stored' \subseteq Ids
  BY DEF TypeOK, ServerProcesses
<1> QED
  BY <1>3, <1>4

LEMMA DropCapturedType == TypeOK => DropCaptured \in [Ids -> Statuses]
BY Literals DEF TypeOK, DropCaptured

LEMMA SetStatusType ==
  ASSUME TypeOK, NEW id, NEW s \in Statuses
  PROVE  [status EXCEPT ![id] = s] \in [Ids -> Statuses]
BY DEF TypeOK

LEMMA StatusWithoutType ==
  ASSUME TypeOK, NEW S PROVE StatusWithout(S) \in [Ids -> Statuses]
BY Literals DEF TypeOK, StatusWithout

LEMMA RewoundType == TypeOK => RewoundCursor \in [Files -> [Inodes -> -1 .. MaxPos]]
<1> SUFFICES ASSUME TypeOK PROVE RewoundCursor \in [Files -> [Inodes -> -1 .. MaxPos]]
  OBVIOUS
<1>1. reported \in -1 .. MaxPos
  BY DEF TypeOK
<1> QED
  BY <1>1 DEF TypeOK, RewoundCursor

LEMMA CountType ==
  TypeOK => /\ attempted + 1 \in Nat /\ streak + 1 \in Nat /\ 0 \in Nat
            /\ 0 \in 0 .. MaxCaptures /\ mishaps + 1 \in Int
BY Numbers DEF TypeOK

LEMMA MishapType == ASSUME TypeOK, NEW k, Mishap(k) PROVE mishaps' \in 0 .. MaxMishaps
BY Numbers DEF TypeOK, Mishap

USE DEF fileVars, bufferVars, flagVars, pollVars, drainVars, serverVars, vars

LEMMA TypeEnvironment == TypeOK /\ Environment => TypeOK'
<1> SUFFICES ASSUME TypeOK, Environment PROVE TypeOK'
  OBVIOUS
<1>1. ASSUME NEW f \in Files, Append(f) PROVE TypeOK'
  <2>1. size' \in [Files -> 0 .. MaxPos]
    BY <1>1, Numbers DEF TypeOK, Append
  <2> QED
    BY <1>1, <2>1 DEF TypeOK, Append
<1>2. ASSUME NEW f \in Files, Replace(f) PROVE TypeOK'
  <2>1. size' \in [Files -> 0 .. MaxPos]
    BY <1>2, Numbers DEF TypeOK, Replace
  <2>2. inode' \in [Files -> 1 .. MaxInode]
    BY <1>2, Numbers DEF TypeOK, Replace
  <2>3. mishaps' \in 0 .. MaxMishaps
    BY <1>2, MishapType DEF Replace
  <2> QED
    BY <1>2, <2>1, <2>2, <2>3 DEF TypeOK, Replace
<1>3. ASSUME NEW id \in Ids, LateRequestArrives(id) PROVE TypeOK'
  <2>1. stored' \subseteq Ids /\ serverEnd' \in [Files -> 0 .. MaxPos]
    BY <1>3, ServerType DEF LateRequestArrives
  <2> QED
    BY <1>3, <2>1 DEF TypeOK, LateRequestArrives
<1>4. CASE AuthRecovered
  BY <1>4 DEF TypeOK, AuthRecovered
<1>5. CASE SetupClearsAuthFailed
  <2>1. mishaps' \in 0 .. MaxMishaps
    BY <1>5, MishapType DEF SetupClearsAuthFailed
  <2> QED
    BY <1>5, <2>1, Literals DEF TypeOK, SetupClearsAuthFailed
<1>6. CASE SetupClearsBufferFull
  BY <1>6, Literals DEF TypeOK, SetupClearsBufferFull
<1>7. CASE SetupClearsFailed
  <2>1. status' \in [Ids -> Statuses]
    BY <1>7, StatusWithoutType DEF TypeOK, SetupClearsFailed
  <2> QED
    BY <1>7, <2>1, Literals DEF TypeOK, SetupClearsFailed
<1> QED
  BY <1>1, <1>2, <1>3, <1>4, <1>5, <1>6, <1>7 DEF Environment

LEMMA TypeBoot == TypeOK /\ Boot => TypeOK'
<1> SUFFICES ASSUME TypeOK, Boot PROVE TypeOK'
  OBVIOUS
<1>1. SyncedRows \in [Files -> [Inodes -> -1 .. MaxPos]]
  BY Numbers DEF TypeOK, SyncedRows, NoCursor
<1>2. cursor' \in [Files -> [Inodes -> -1 .. MaxPos]]
  BY <1>1 DEF TypeOK, Boot
<1>3. mishaps' \in 0 .. MaxMishaps
  BY MishapType DEF TypeOK, Boot
<1> QED
  BY <1>2, <1>3 DEF TypeOK, Boot

LEMMA TypeCollect == ASSUME NEW f \in Files PROVE TypeOK /\ Collect(f) => TypeOK'
<1> SUFFICES ASSUME TypeOK, Collect(f) PROVE TypeOK'
  OBVIOUS
<1> USE DEF CollectFrame, Collecting
<1>a. size[f] \in 0 .. MaxPos /\ Start(f) \in 0 .. MaxPos
  BY StartType DEF TypeOK
<1>b. size[f] \in -1 .. MaxPos
  BY <1>a
<1>1. CASE CollectNothing(f)
  <2>1. mishaps' \in 0 .. MaxMishaps
    BY <1>1, MishapType DEF TypeOK, CollectNothing
  <2> QED
    BY <1>1, <2>1 DEF TypeOK, CollectNothing
<1>2. CASE CollectNoise(f)
  <2>1. work' \in [Files -> [Inodes -> -1 .. MaxPos]]
    BY <1>2, <1>b, SetWorkType DEF CollectNoise
  <2> QED
    BY <1>2, <2>1 DEF TypeOK, CollectNoise
<1>3. CASE CollectLines(f)
  <2>1. work' \in [Files -> [Inodes -> -1 .. MaxPos]]
    BY <1>3, <1>b, SetWorkType DEF CollectLines
  <2>2. /\ batch' \in [Ids -> Captures] /\ status' \in [Ids -> Statuses]
        /\ fresh' \in 0 .. MaxCaptures
    <3>1. CASE InsertOne(Slice(f, Start(f), size[f]))
      BY <1>a, <3>1, SliceType, InsertOneType
    <3>2. ASSUME NEW c \in Cuts(f), InsertTwo(Slice(f, Start(f), c), Slice(f, c, size[f]))
          PROVE  /\ batch' \in [Ids -> Captures] /\ status' \in [Ids -> Statuses]
                 /\ fresh' \in 0 .. MaxCaptures
      <4>1. c \in 0 .. MaxPos
        BY <3>2, CutType
      <4>2. Slice(f, Start(f), c) \in Captures /\ Slice(f, c, size[f]) \in Captures
        BY <1>a, <4>1, SliceType
      <4> QED
        BY <3>2, <4>2, InsertTwoType
    <3> QED
      BY <1>3, <3>1, <3>2 DEF CollectLines
  <2> QED
    BY <1>3, <2>1, <2>2 DEF TypeOK, CollectLines
<1>4. CASE CollectFails(f)
  <2>1. work' \in [Files -> [Inodes -> -1 .. MaxPos]]
    <3>1. inode[f] \in Inodes
      BY Numbers DEF TypeOK, Inodes
    <3>2. (IF work[f][inode[f]] # NoCursor THEN work[f][inode[f]] ELSE 0) \in -1 .. MaxPos
      BY <3>1, Numbers DEF TypeOK
    <3> QED
      BY <1>4, <3>2, SetWorkType DEF CollectFails
  <2>2. /\ batch' \in [Ids -> Captures] /\ status' \in [Ids -> Statuses]
        /\ fresh' \in 0 .. MaxCaptures
    <3>1. ASSUME NEW c \in Cuts(f), InsertOne(Slice(f, Start(f), c))
          PROVE  /\ batch' \in [Ids -> Captures] /\ status' \in [Ids -> Statuses]
                 /\ fresh' \in 0 .. MaxCaptures
      <4>1. c \in 0 .. MaxPos
        BY <3>1, CutType
      <4> QED
        BY <1>a, <3>1, <4>1, SliceType, InsertOneType
    <3> QED
      BY <1>4, <3>1 DEF TypeOK, CollectFails
  <2>3. mishaps' \in 0 .. MaxMishaps
    BY <1>4, MishapType DEF CollectFails
  <2> QED
    BY <1>4, <2>1, <2>2, <2>3 DEF TypeOK, CollectFails
<1> QED
  BY <1>1, <1>2, <1>3, <1>4 DEF Collect

LEMMA TypeCapture == TypeOK /\ Numbered /\ Capture => TypeOK'
<1> SUFFICES ASSUME TypeOK, Numbered, Capture PROVE TypeOK'
  OBVIOUS
<1>a. 0 \in 0 .. MaxCaptures
  BY Numbers
<1>1. CASE CaptureGate
  BY <1>1, Literals DEF TypeOK, CaptureGate
<1>2. CASE CaptureStart
  BY <1>2, <1>a, Literals DEF TypeOK, CaptureStart
<1>3. CASE CommitCapture
  <2>1. status' \in [Ids -> Statuses]
    BY <1>3, Literals DEF TypeOK, CommitCapture
  <2>2. cursor' \in [Files -> [Inodes -> -1 .. MaxPos]]
    BY <1>3 DEF TypeOK, CommitCapture
  <2>3. created' \in 0 .. MaxCaptures
    BY <1>3, Numbers DEF TypeOK, Numbered, CommitCapture
  <2> QED
    BY <1>3, <1>a, <2>1, <2>2, <2>3, NoRowsType, Literals DEF TypeOK, CommitCapture
<1>4. CASE WorkerFails
  <2>1. mishaps' \in 0 .. MaxMishaps
    BY <1>4, MishapType DEF WorkerFails
  <2> QED
    BY <1>4, <1>a, <2>1, DropCapturedType, NoRowsType, Literals DEF TypeOK, WorkerFails
<1>5. CASE EvaluatePressure
  BY <1>5, Literals DEF TypeOK, EvaluatePressure
<1>6. CASE WriteBufferFull
  BY <1>6, Literals DEF TypeOK, WriteBufferFull
<1> QED
  BY <1>1, <1>2, <1>3, <1>4, <1>5, <1>6, TypeCollect DEF Capture

\* The capture whose upload is on its way exists.
LEMMA AtType ==
  ASSUME TypeOK, UploadInvariant, drainPc \in {"sending", "verifying", "flagging"}
  PROVE  at \in Ids
BY Numbers DEF TypeOK, UploadInvariant, Ids

LEMMA TypeReply == TypeOK /\ UploadInvariant /\ Reply => TypeOK'
<1> SUFFICES ASSUME TypeOK, UploadInvariant, Reply PROVE TypeOK'
  OBVIOUS
<1> USE DEF ReplyFrame, Waiting
<1>a. drainPc = "sending"
  BY DEF Reply, ServerAnswers, ServerRefuses, UploadTimesOut, AnswerUnreadable
<1>b. at \in Ids
  BY <1>a, AtType
<1>c. End(at) \in 0 .. MaxPos
  <2>1. batch[at] \in Captures
    BY <1>b DEF TypeOK
  <2>2. batch[at].file \in Files
    BY <2>1 DEF Captures
  <2> QED
    BY <2>2 DEF TypeOK, End
<1>1. CASE ServerAnswers
  <2>1. stored' \subseteq Ids /\ serverEnd' \in [Files -> 0 .. MaxPos]
    BY <1>1, <1>b, ServerType DEF ServerAnswers
  <2>2. reported' \in 0 .. MaxPos
    BY <1>1, <1>c DEF TypeOK, ServerAnswers
  <2>3. reply' \in Answers
    BY <1>1, Literals DEF ServerAnswers
  <2> QED
    BY <1>1, <2>1, <2>2, <2>3 DEF TypeOK, ServerAnswers
<1>2. CASE ServerRefuses
  <2>1. mishaps' \in 0 .. MaxMishaps
    BY <1>2, MishapType DEF TypeOK, ServerRefuses
  <2>2. reply' \in Answers
    BY <1>2, Literals DEF ServerRefuses
  <2> QED
    BY <1>2, <2>1, <2>2 DEF TypeOK, ServerRefuses
<1>3. CASE UploadTimesOut
  <2>1. mishaps' \in 0 .. MaxMishaps
    BY <1>3, MishapType DEF UploadTimesOut
  <2>2. stored' \subseteq Ids /\ serverEnd' \in [Files -> 0 .. MaxPos]
    BY <1>3, <1>b, ServerType DEF TypeOK, UploadTimesOut
  <2>3. late' \subseteq Ids
    BY <1>3, <1>b DEF TypeOK, UploadTimesOut
  <2> QED
    BY <1>3, <2>1, <2>2, <2>3, Literals DEF TypeOK, UploadTimesOut
<1>4. CASE AnswerUnreadable
  <2>1. mishaps' \in 0 .. MaxMishaps
    BY <1>4, MishapType DEF AnswerUnreadable
  <2>2. stored' \subseteq Ids /\ serverEnd' \in [Files -> 0 .. MaxPos]
    BY <1>4, <1>b, ServerType DEF AnswerUnreadable
  <2> QED
    BY <1>4, <2>1, <2>2, Literals DEF TypeOK, AnswerUnreadable
<1> QED
  BY <1>1, <1>2, <1>3, <1>4 DEF Reply

LEMMA TypeHandle == TypeOK /\ UploadInvariant /\ Handle => TypeOK'
<1> SUFFICES ASSUME TypeOK, UploadInvariant, Handle PROVE TypeOK'
  OBVIOUS
<1> USE DEF HandleFrame, Handling
<1>a. attempted + 1 \in Nat /\ streak + 1 \in Nat /\ 0 \in Nat
  BY CountType
<1>1. CASE HandleAccepted
  <2>1. status' \in [Ids -> Statuses]
    BY <1>1, SetStatusType, Literals DEF HandleAccepted
  <2> QED
    BY <1>1, <1>a, <2>1, Literals DEF TypeOK, HandleAccepted
<1>2. CASE HandleRegression
  <2>1. status' \in [Ids -> Statuses]
    BY <1>2, SetStatusType, Literals DEF HandleRegression
  <2>2. resync' \subseteq Ids
    BY <1>2, AtType DEF TypeOK, HandleRegression
  <2> QED
    BY <1>2, <1>a, <2>1, <2>2, RewoundType, Literals DEF TypeOK, HandleRegression
<1>3. CASE HandleInvalid
  <2>1. status' \in [Ids -> Statuses]
    BY <1>3, SetStatusType, Literals DEF HandleInvalid
  <2> QED
    BY <1>3, <1>a, <2>1, Literals DEF TypeOK, HandleInvalid
<1>4. CASE HandleRetriable
  BY <1>4, <1>a, Literals DEF TypeOK, HandleRetriable, Retry
<1>5. CASE HandleUnauthorized
  BY <1>5, Literals DEF TypeOK, HandleUnauthorized
<1>6. CASE AuthUnconfirmed
  BY <1>6, <1>a, Literals DEF TypeOK, AuthUnconfirmed, Retry
<1>7. CASE AuthConfirmed
  <2>1. status' \in [Ids -> Statuses]
    BY <1>7, SetStatusType, Literals DEF AuthConfirmed
  <2> QED
    BY <1>7, <2>1, Literals DEF TypeOK, AuthConfirmed
<1>8. CASE WriteAuthFailed
  <2>1. mishaps' \in 0 .. MaxMishaps
    BY <1>8, MishapType DEF TypeOK, WriteAuthFailed
  <2> QED
    BY <1>8, <1>a, <2>1, Literals DEF TypeOK, WriteAuthFailed
<1> QED
  BY <1>1, <1>2, <1>3, <1>4, <1>5, <1>6, <1>7, <1>8 DEF Handle

LEMMA TypeDrain == TypeOK /\ UploadInvariant /\ Drain => TypeOK'
<1> SUFFICES ASSUME TypeOK, UploadInvariant, Drain PROVE TypeOK'
  OBVIOUS
<1>a. 0 \in 0 .. MaxCaptures /\ 0 \in Nat
  BY Numbers
<1>1. CASE DrainStart
  BY <1>1, <1>a, Literals DEF TypeOK, DrainStart
<1>2. CASE DrainWalkEnds
  BY <1>2, <1>a, Literals DEF TypeOK, DrainWalkEnds
<1>3. CASE DrainWrapup
  <2>1. mishaps' \in 0 .. MaxMishaps
    BY <1>3, MishapType DEF TypeOK, DrainWrapup
  <2>2. status' \in [Ids -> Statuses]
    BY <1>3, StatusWithoutType DEF TypeOK, DrainWrapup
  <2>3. drainPc' \in DrainSteps
    BY <1>3, Literals DEF DrainWrapup
  <2> QED
    BY <1>3, <2>1, <2>2, <2>3 DEF TypeOK, DrainWrapup
<1>4. CASE ClearBufferFull
  BY <1>4, Literals DEF TypeOK, ClearBufferFull
<1>5. ASSUME NEW id \in Ids, DrainPick(id) PROVE TypeOK'
  <2>1. id \in 0 .. MaxCaptures
    BY Numbers DEF Ids
  <2> QED
    BY <1>5, <2>1, Literals DEF TypeOK, DrainPick
<1> QED
  BY <1>1, <1>2, <1>3, <1>4, <1>5, TypeReply, TypeHandle DEF Drain

LEMMA TypeCrash == TypeOK /\ UploadInvariant /\ (Crash \/ CrashInRecovery) => TypeOK'
<1> SUFFICES ASSUME TypeOK, UploadInvariant, Crash \/ CrashInRecovery PROVE TypeOK'
  OBVIOUS
<1>1. Forget
  BY DEF Crash, CrashInRecovery
<1>2. mishaps' \in 0 .. MaxMishaps
  BY <1>1, MishapType DEF Forget
<1>3. 0 \in 0 .. MaxCaptures /\ 0 \in Nat
  BY Numbers
<1>4. status' \in [Ids -> Statuses]
  BY DropCapturedType DEF Crash, CrashInRecovery
<1>5. CASE Crash
  <2>1. late' \subseteq Ids
    BY <1>5, AtType DEF TypeOK, Crash, Waiting
  <2> QED
    BY <1>1, <1>2, <1>3, <1>4, <1>5, <2>1, NoRowsType, Literals DEF TypeOK, Crash, Forget
<1>6. CASE CrashInRecovery
  <2>1. resync' \subseteq Ids
    BY <1>6, AtType DEF TypeOK, CrashInRecovery, Handling
  <2> QED
    BY <1>1, <1>2, <1>3, <1>4, <1>6, <2>1, NoRowsType, RewoundType, Literals
       DEF TypeOK, CrashInRecovery, Forget
<1> QED
  BY <1>5, <1>6

LEMMA TypeStep == TypeOK /\ Numbered /\ UploadInvariant /\ [Next]_vars => TypeOK'
<1>1. TypeOK /\ UNCHANGED vars => TypeOK'
  BY DEF TypeOK
<1> QED
  BY <1>1, TypeEnvironment, TypeBoot, TypeCapture, TypeDrain, TypeCrash DEF Next

-----------------------------------------------------------------------------
(* The conjuncts of the inductive invariant. *)

\* A conjunct stays true when nothing it speaks of changes.
LEMMA Untouched ==
  /\ Numbered /\ UNCHANGED <<status, created, fresh>> => Numbered'
  /\ FreshWhilePolling /\ UNCHANGED <<pollPc, fresh>> => FreshWhilePolling'
  /\ RangesNotEmpty /\ UNCHANGED <<batch, created, fresh>> => RangesNotEmpty'
  /\ Accounted /\ UNCHANGED <<cursor, batch, created, serverEnd>> => Accounted'
  /\ WorkAccounted /\ UNCHANGED <<work, batch, created, fresh, serverEnd>> => WorkAccounted'
  /\ UploadInvariant
     /\ UNCHANGED <<batch, status, created, drainPc, at, reply, reported, stored, serverEnd>>
     => UploadInvariant'
  /\ BackendInvariant /\ UNCHANGED <<batch, status, created, stored, serverEnd, late>>
     => BackendInvariant'
  /\ ReceiptsStored /\ UNCHANGED <<status, stored>> => ReceiptsStored'
  /\ RecoveredIsFinal /\ UNCHANGED <<status, resync, stored>> => RecoveredIsFinal'
<1>1. Numbered /\ UNCHANGED <<status, created, fresh>> => Numbered'
  BY DEF Numbered
<1>2. FreshWhilePolling /\ UNCHANGED <<pollPc, fresh>> => FreshWhilePolling'
  BY DEF FreshWhilePolling
<1>3. RangesNotEmpty /\ UNCHANGED <<batch, created, fresh>> => RangesNotEmpty'
  BY DEF RangesNotEmpty
<1>4. Accounted /\ UNCHANGED <<cursor, batch, created, serverEnd>> => Accounted'
  BY DEF Accounted, Covers
<1>5. WorkAccounted /\ UNCHANGED <<work, batch, created, fresh, serverEnd>> => WorkAccounted'
  BY DEF WorkAccounted, Covers
<1>6. UploadInvariant
      /\ UNCHANGED <<batch, status, created, drainPc, at, reply, reported, stored, serverEnd>>
      => UploadInvariant'
  BY DEF UploadInvariant, End
<1>7. BackendInvariant /\ UNCHANGED <<batch, status, created, stored, serverEnd, late>>
      => BackendInvariant'
  BY DEF BackendInvariant, End
<1>8. ReceiptsStored /\ UNCHANGED <<status, stored>> => ReceiptsStored'
  BY DEF ReceiptsStored
<1>9. RecoveredIsFinal /\ UNCHANGED <<status, resync, stored>> => RecoveredIsFinal'
  BY DEF RecoveredIsFinal
<1> QED
  BY <1>1, <1>2, <1>3, <1>4, <1>5, <1>6, <1>7, <1>8, <1>9

LEMMA InductiveInit == Init => Inductive
<1> SUFFICES ASSUME Init PROVE Inductive
  OBVIOUS
<1>1. TypeOK
  BY TypeInit
<1>2. Numbered /\ FreshWhilePolling
  BY Numbers DEF Init, Numbered, FreshWhilePolling, Ids
<1>3. RangesNotEmpty
  BY DEF Init, RangesNotEmpty
<1>4. Accounted /\ WorkAccounted
  BY DEF Init, NoRows, NoCursor, Accounted, WorkAccounted
<1>5. UploadInvariant
  BY DEF Init, UploadInvariant
<1>6. BackendInvariant /\ ReceiptsStored /\ RecoveredIsFinal
  BY DEF Init, BackendInvariant, ReceiptsStored, RecoveredIsFinal
<1> QED
  BY <1>1, <1>2, <1>3, <1>4, <1>5, <1>6 DEF Inductive

\* What the backend does with an upload, its own ends only grow, and it never stores
\* a capture whose range starts before the end of what it has.
LEMMA Processed ==
  ASSUME TypeOK, RangesNotEmpty, NEW id \in 1 .. created, ServerProcesses(id),
         UNCHANGED batch
  PROVE  /\ \A f \in Files : serverEnd[f] <= serverEnd'[f]
         /\ \A j \in Ids : End(j) <= End(j)'
         /\ stored \subseteq stored' /\ stored' \subseteq stored \union {id}
         /\ \A j \in Ids : batch[j].lo < End(j) /\ j \notin stored => j \notin stored'
         /\ id \in stored' <=> Accepts(id)
<1>1. id \in Ids
  BY Numbers DEF TypeOK, Ids
<1>2. \A j \in Ids : /\ batch[j].file \in Files /\ batch[j].lo \in 0 .. MaxPos
                      /\ batch[j].hi \in 0 .. MaxPos
  BY DEF TypeOK, Captures
<1>3. batch[id].lo < batch[id].hi
  BY Numbers DEF RangesNotEmpty, TypeOK
<1>4. ASSUME NEW f \in Files PROVE serverEnd[f] <= serverEnd'[f]
  <2>1. serverEnd[f] \in 0 .. MaxPos
    BY DEF TypeOK
  <2>2. CASE batch[id].file = f /\ Accepts(id) /\ id \notin stored
    BY <1>1, <1>2, <1>3, <2>1, <2>2, Numbers DEF TypeOK, ServerProcesses, Accepts, End
  <2>3. CASE ~(batch[id].file = f /\ Accepts(id) /\ id \notin stored)
    BY <1>1, <1>2, <2>1, <2>3, Numbers DEF TypeOK, ServerProcesses
  <2> QED
    BY <2>2, <2>3
<1>5. \A j \in Ids : End(j) <= End(j)'
  BY <1>2, <1>4 DEF End
<1>6. stored \subseteq stored' /\ stored' \subseteq stored \union {id}
  BY DEF ServerProcesses
<1>7. id \in stored' <=> Accepts(id)
  BY DEF ServerProcesses, Accepts
<1>8. ASSUME NEW j \in Ids, batch[j].lo < End(j), j \notin stored PROVE j \notin stored'
  <2>1. End(j) \in 0 .. MaxPos
    BY <1>2 DEF TypeOK, End
  <2>2. ~Accepts(j)
    BY <1>2, <1>8, <2>1, Numbers DEF Accepts
  <2> QED
    BY <1>6, <1>7, <1>8, <2>2
<1> QED
  BY <1>4, <1>5, <1>6, <1>7, <1>8

\* A step of the backend keeps every conjunct that does not speak of its answer.
LEMMA BackendStep ==
  ASSUME Inductive, TypeOK', NEW id \in 1 .. created, ServerProcesses(id),
         late' \subseteq late \union {id}, UNCHANGED <<fileVars, bufferVars, pollVars>>
  PROVE  /\ Numbered' /\ FreshWhilePolling' /\ RangesNotEmpty' /\ Accounted'
         /\ WorkAccounted' /\ BackendInvariant' /\ ReceiptsStored' /\ RecoveredIsFinal'
<1> USE DEF Inductive
<1>1. \A f \in Files : /\ serverEnd[f] <= serverEnd'[f]
                       /\ serverEnd[f] \in Int /\ serverEnd'[f] \in Int
  BY Processed, Numbers DEF TypeOK
<1>2. \A j \in Ids : /\ batch[j].lo \in Int /\ End(j) \in Int /\ End(j)' \in Int
                     /\ End(j) <= End(j)'
  <2>1. \A j \in Ids : batch[j].file \in Files /\ batch[j].lo \in 0 .. MaxPos
    BY DEF TypeOK, Captures
  <2> QED
    BY <1>1, <2>1, Numbers DEF End
<1>3. Numbered' /\ FreshWhilePolling' /\ RangesNotEmpty'
  BY Untouched
<1>4. Accounted'
  BY <1>1 DEF Accounted, Covers
<1>5. WorkAccounted'
  BY <1>1 DEF WorkAccounted, Covers
<1>6. stored \subseteq stored' /\ stored' \subseteq stored \union {id}
  BY Processed
<1>7. BackendInvariant'
  BY <1>2, <1>6 DEF BackendInvariant
<1>8. ReceiptsStored'
  BY <1>6 DEF ReceiptsStored
<1>9. RecoveredIsFinal'
  BY Processed DEF RecoveredIsFinal, BackendInvariant
<1> QED
  BY <1>3, <1>4, <1>5, <1>7, <1>8, <1>9

\* Captures the backend has refused or stored are deleted for good.
LEMMA StatusPruned ==
  ASSUME Inductive, NEW S, \A id \in Ids : id \in S => status[id] \in {"failed", "delivered"},
         status' = StatusWithout(S),
         UNCHANGED <<batch, created, resync, pollVars, serverVars>>
  PROVE  /\ Numbered' /\ FreshWhilePolling' /\ RangesNotEmpty' /\ WorkAccounted'
         /\ BackendInvariant' /\ ReceiptsStored' /\ RecoveredIsFinal'
<1> USE DEF Inductive
<1>1. \A j \in Ids : status'[j] = IF j \in S THEN "pruned" ELSE status[j]
  BY DEF StatusWithout
<1>2. Numbered'
  BY <1>1 DEF Numbered
<1>3. FreshWhilePolling' /\ RangesNotEmpty' /\ WorkAccounted'
  BY Untouched
<1>4. BackendInvariant'
  BY <1>1 DEF BackendInvariant, End
<1>5. ReceiptsStored' /\ RecoveredIsFinal'
  BY <1>1 DEF ReceiptsStored, RecoveredIsFinal
<1> QED
  BY <1>2, <1>3, <1>4, <1>5

LEMMA InductiveEnvironment == Inductive /\ Environment => Inductive'
<1> SUFFICES ASSUME Inductive, Environment PROVE Inductive'
  OBVIOUS
<1> USE DEF Inductive
<1>a. TypeOK'
  BY TypeEnvironment
<1>1. ASSUME NEW f \in Files, Append(f) \/ Replace(f) PROVE Inductive'
  BY <1>a, <1>1, Untouched DEF Append, Replace
<1>2. ASSUME NEW id \in Ids, LateRequestArrives(id) PROVE Inductive'
  <2>1. id \in 1 .. created
    BY <1>2 DEF LateRequestArrives, BackendInvariant
  <2>2. late' \subseteq late \union {id}
    BY <1>2 DEF LateRequestArrives
  <2>3. /\ Numbered' /\ FreshWhilePolling' /\ RangesNotEmpty' /\ Accounted'
        /\ WorkAccounted' /\ BackendInvariant' /\ ReceiptsStored' /\ RecoveredIsFinal'
    BY <1>a, <1>2, <2>1, <2>2, BackendStep DEF LateRequestArrives
  <2>4. UploadInvariant'
    <3>1. /\ \A j \in Ids : End(j) <= End(j)'
          /\ stored \subseteq stored'
          /\ \A j \in Ids : batch[j].lo < End(j) /\ j \notin stored => j \notin stored'
      BY <1>2, <2>1, Processed DEF LateRequestArrives
    <3>2. \A j \in Ids : /\ batch[j].lo \in Int /\ End(j) \in Int /\ End(j)' \in Int
      <4>1. \A j \in Ids : batch[j].file \in Files /\ batch[j].lo \in 0 .. MaxPos
        BY DEF TypeOK, Captures
      <4> QED
        BY <1>a, <1>2, <4>1, Numbers DEF End, TypeOK, LateRequestArrives
    <3>3. reply = "regression" => at \in Ids
      BY AtType DEF UploadInvariant
    <3>4. reported \in Int
      BY Numbers DEF TypeOK
    <3> QED
      BY <1>2, <3>1, <3>2, <3>3, <3>4 DEF LateRequestArrives, UploadInvariant
  <2> QED
    BY <1>a, <2>3, <2>4
<1>3. CASE AuthRecovered \/ SetupClearsAuthFailed \/ SetupClearsBufferFull
  BY <1>a, <1>3, Untouched DEF AuthRecovered, SetupClearsAuthFailed, SetupClearsBufferFull
<1>4. CASE SetupClearsFailed
  <2> DEFINE S == {id \in Ids : status[id] = "failed"}
  <2>1. CASE UNCHANGED status
    BY <1>a, <1>4, <2>1, Untouched DEF SetupClearsFailed
  <2>2. CASE status' = StatusWithout(S)
    <3>1. /\ Numbered' /\ FreshWhilePolling' /\ RangesNotEmpty' /\ WorkAccounted'
          /\ BackendInvariant' /\ ReceiptsStored' /\ RecoveredIsFinal'
      BY <1>4, <2>2, StatusPruned DEF SetupClearsFailed
    <3>2. \A j \in Ids : status'[j] = IF status[j] = "failed" THEN "pruned" ELSE status[j]
      BY <2>2 DEF StatusWithout
    <3>3. at > 0 => at \in Ids
      BY Numbers DEF TypeOK, UploadInvariant, Ids
    <3>4. UploadInvariant'
      BY <1>4, <3>2, <3>3 DEF SetupClearsFailed, UploadInvariant, End
    <3> QED
      BY <1>a, <1>4, <3>1, <3>4, Untouched DEF SetupClearsFailed
  <2> QED
    BY <1>4, <2>1, <2>2 DEF SetupClearsFailed
<1> QED
  BY <1>1, <1>2, <1>3, <1>4 DEF Environment

LEMMA InductiveBoot == Inductive /\ Boot => Inductive'
<1> SUFFICES ASSUME Inductive, Boot PROVE Inductive'
  OBVIOUS
<1> USE DEF Inductive
<1>1. TypeOK'
  BY TypeBoot
<1>2. Accounted'
  <2>1. CASE cursor' = SyncedRows
    <3>1. ASSUME NEW f \in Files, NEW i \in Inodes, NEW p \in (1 .. MaxPos) \ Noise,
                 p <= SyncedRows[f][i]
          PROVE  p <= serverEnd[f]
      BY <3>1, Numbers DEF SyncedRows, NoCursor
    <3> QED
      BY <2>1, <3>1 DEF Accounted, Boot
  <2>2. CASE UNCHANGED cursor
    BY <2>2, Untouched DEF Boot
  <2> QED
    BY <2>1, <2>2 DEF Boot
<1> QED
  BY <1>1, <1>2, Untouched DEF Boot

\* Up to the point where collecting a file starts, its lines are accounted for.
LEMMA StartAccounted ==
  ASSUME TypeOK, Numbered, WorkAccounted, NEW f \in Files,
         NEW p \in (1 .. MaxPos) \ Noise, p <= Start(f)
  PROVE  \/ p <= serverEnd[f]
         \/ \E id \in 1 .. created + fresh : Covers(id, f, inode[f], p)
<1>1. inode[f] \in Inodes /\ 0 \in Inodes
  BY Numbers DEF TypeOK, Inodes
<1>2. p \in Int /\ 0 < p
  BY Numbers
<1>3. CASE work[f][inode[f]] # NoCursor
  BY <1>1, <1>3 DEF WorkAccounted, Start, ResumePoint
<1>4. CASE work[f][inode[f]] = NoCursor /\ work[f][0] # NoCursor
  <2>1. \A id \in 1 .. created + fresh : batch[id].inode # 0
    <3>1. \A id \in 1 .. created + fresh : id \in Ids
      BY Numbers DEF TypeOK, Numbered, Ids
    <3> QED
      BY <3>1, Numbers DEF TypeOK, Captures
  <2> QED
    BY <1>1, <1>4, <2>1 DEF WorkAccounted, Start, ResumePoint, Covers
<1>5. CASE work[f][inode[f]] = NoCursor /\ work[f][0] = NoCursor
  BY <1>2, <1>5 DEF Start, ResumePoint
<1> QED
  BY <1>3, <1>4, <1>5

\* insertBatch adds captures after the ones there are and leaves those alone.
LEMMA Inserted ==
  ASSUME TypeOK, Numbered, RangesNotEmpty, UNCHANGED created,
         NEW a \in Captures, NEW b \in Captures,
         a.lo < a.hi, b.lo < b.hi, InsertOne(a) \/ InsertTwo(a, b)
  PROVE  /\ Numbered' /\ RangesNotEmpty'
         /\ created + fresh <= created' + fresh'
         /\ \A id \in 1 .. created + fresh : batch'[id] = batch[id]
         /\ \A id \in Ids : status'[id] \in {status[id], "captured"}
         /\ \A id \in Ids : id <= created => status'[id] = status[id]
<1>1. created \in Nat /\ fresh \in Nat /\ created + fresh <= MaxCaptures
  BY Numbers DEF TypeOK, Numbered
<1>2. /\ \A id \in 1 .. created + fresh : batch'[id] = batch[id]
      /\ \A id \in Ids : status'[id] \in {status[id], "captured"}
      /\ \A id \in Ids : id <= created => status'[id] = status[id]
      /\ \A id \in Ids : id <= created + fresh => status'[id] = status[id]
      /\ \A id \in 1 .. created' + fresh' : batch'[id].lo < batch'[id].hi
      /\ created + fresh < created' + fresh' /\ created' + fresh' <= MaxCaptures
      /\ \A id \in Ids : created + fresh < id /\ id <= created' + fresh'
                           => status'[id] = "captured"
      /\ \A id \in Ids : created' + fresh' < id => status'[id] = status[id]
  <2>1. CASE InsertOne(a)
    BY <1>1, <2>1, Numbers DEF TypeOK, RangesNotEmpty, InsertOne, Ids
  <2>2. CASE InsertTwo(a, b)
    <3>1. fresh' = fresh + 2 /\ created + fresh + 1 < MaxCaptures
      BY <2>2 DEF InsertTwo
    <3>2. \A id \in Ids :
            batch'[id] = IF id = created + fresh + 1 THEN a
                         ELSE IF id = created + fresh + 2 THEN b ELSE batch[id]
      <4>1. created + fresh + 1 # created + fresh + 2
        BY <1>1
      <4> QED
        BY <4>1, <2>2 DEF TypeOK, InsertTwo
    <3>3. \A id \in Ids :
            status'[id] = IF id \in {created + fresh + 1, created + fresh + 2} THEN "captured"
                          ELSE status[id]
      BY <1>1, <2>2 DEF TypeOK, InsertTwo, Ids
    <3>4. \A id \in 1 .. created' + fresh' : id \in Ids
      BY <1>1, <3>1, Numbers DEF Ids
    <3>5. \A id \in 1 .. created' + fresh' : batch'[id].lo < batch'[id].hi
      BY <1>1, <3>1, <3>2, <3>4 DEF RangesNotEmpty
    <3> QED
      BY <1>1, <3>1, <3>2, <3>3, <3>5, Numbers DEF Ids
  <2> QED
    BY <2>1, <2>2
<1>3. RangesNotEmpty'
  BY <1>2 DEF RangesNotEmpty
<1>4. fresh' \in Int /\ created' \in Int /\ \A id \in Ids : id \in Int
  BY <1>1 DEF InsertOne, InsertTwo, Ids
<1>5. ASSUME NEW k \in Ids, NEW i \in Int, i = k,
             NEW c \in Int, NEW n \in Int, NEW m \in Int,
             c = created, n = created + fresh, m = created' + fresh', n < m
      PROVE  /\ status'[k] \notin {"absent", "captured"} => i <= c
             /\ status'[k] = "captured" => c < i /\ i <= m
             /\ status'[k] = "absent" => m < i
  <2>1. /\ i <= n => status'[k] = status[k]
        /\ n < i /\ i <= m => status'[k] = "captured"
        /\ m < i => status'[k] = status[k]
    BY <1>2, <1>5
  <2>2. /\ status[k] \notin {"absent", "captured"} => i <= c
        /\ status[k] = "captured" => c < i /\ i <= n
        /\ status[k] = "absent" => n < i
    BY <1>5 DEF Numbered
  <2>3. c <= n
    BY <1>1, <1>5
  <2> QED
    BY <1>5, <2>1, <2>2, <2>3
<1>6. Numbered'
  BY <1>1, <1>2, <1>4, <1>5 DEF Numbered
<1> QED
  BY <1>1, <1>2, <1>3, <1>4, <1>6

\* Arithmetic that the provers want to be told.
LEMMA Sums ==
  \A m, n \in Nat : /\ m + n \in Nat
                    /\ m + (n + 1) = m + n + 1 /\ m + (n + 2) = m + n + 2
                    /\ m + n + 1 \in 1 .. m + n + 1 /\ m + n + 1 \in 1 .. m + n + 2
                    /\ m + n + 2 \in 1 .. m + n + 2
OBVIOUS

LEMMA Wider == \A m, n \in Int : m <= n => 1 .. m \subseteq 1 .. n
OBVIOUS

\* When a file is collected up to end, and each of its new lines with dialogue is in
\* a capture that was inserted, the worker's rows stay accounted for.
LEMMA WorkCollected ==
  ASSUME Inductive, NEW f \in Files, NEW end \in -1 .. MaxPos, SetWork(f, end),
         UNCHANGED <<serverEnd, created>>, created + fresh <= created' + fresh', fresh' \in Nat,
         \A id \in 1 .. created + fresh : batch'[id] = batch[id],
         \A p \in (1 .. MaxPos) \ Noise :
           p <= end => \/ p <= serverEnd[f]
                       \/ \E id \in 1 .. created' + fresh' : Covers(id, f, inode[f], p)'
                       \/ \E id \in 1 .. created + fresh : Covers(id, f, inode[f], p),
         UNCHANGED inode
  PROVE  WorkAccounted'
<1> USE DEF Inductive
<1>1. \A id \in 1 .. created + fresh : id \in 1 .. created' + fresh'
  <2>1. created + fresh \in Int /\ created' + fresh' \in Int
    BY Numbers DEF TypeOK
  <2> QED
    BY <2>1, Wider
<1>2. \A g \in Files, i \in Inodes, p \in (1 .. MaxPos) \ Noise, id \in 1 .. created + fresh :
        Covers(id, g, i, p) => Covers(id, g, i, p)'
  BY DEF Covers
<1>3. ASSUME NEW g \in Files, NEW i \in Inodes, NEW p \in (1 .. MaxPos) \ Noise,
             p <= work'[g][i]
      PROVE  \/ p <= serverEnd[g]
             \/ \E id \in 1 .. created' + fresh' : Covers(id, g, i, p)'
  <2>1. CASE g = f /\ i = inode[f]
    <3>1. p <= end
      BY <1>3, <2>1 DEF SetWork, TypeOK
    <3> QED
      BY <1>1, <1>2, <2>1, <3>1
  <2>2. CASE ~(g = f /\ i = inode[f])
    <3>1. p <= work[g][i]
      BY <1>3, <2>2 DEF SetWork, TypeOK
    <3>2. \/ p <= serverEnd[g]
          \/ \E id \in 1 .. created + fresh : Covers(id, g, i, p)
      BY <3>1 DEF WorkAccounted
    <3> QED
      BY <1>1, <1>2, <3>2
  <2> QED
    BY <2>1, <2>2
<1> QED
  BY <1>3 DEF WorkAccounted

\* A capture that is not there yet is none the drain cycle or the backend knows.
LEMMA OthersInserted ==
  ASSUME Inductive, TypeOK', UNCHANGED <<created, cursor, serverVars, drainVars, resync>>,
         \A id \in 1 .. created + fresh : batch'[id] = batch[id],
         \A id \in Ids : status'[id] \in {status[id], "captured"},
         \A id \in Ids : id <= created => status'[id] = status[id]
  PROVE  /\ Accounted' /\ UploadInvariant' /\ BackendInvariant'
         /\ ReceiptsStored' /\ RecoveredIsFinal'
<1> USE DEF Inductive
<1>1. \A id \in 1 .. created : id \in 1 .. created + fresh
  BY Numbers DEF TypeOK
<1>2. Accounted'
  BY <1>1 DEF Accounted, Covers
<1>3. reply = "regression" => at \in 1 .. created
  BY Numbers DEF TypeOK, UploadInvariant
<1>4. UploadInvariant'
  <2>1. drainPc \in {"sending", "verifying", "flagging"} => status'[at] = status[at]
    BY AtType DEF UploadInvariant
  <2>2. reply = "regression" => batch'[at] = batch[at]
    BY <1>1, <1>3
  <2> QED
    BY <2>1, <2>2 DEF UploadInvariant, End
<1>5. ASSUME NEW id \in Ids, status'[id] = "recovered"
      PROVE  status[id] = "recovered" /\ id \in 1 .. created /\ batch'[id] = batch[id]
  <2>1. status[id] = "recovered"
    BY <1>5
  <2>2. id <= created /\ id \in Int /\ 1 <= id
    BY <2>1, Numbers DEF Numbered, Ids
  <2>3. id \in 1 .. created
    BY <2>2, Numbers DEF TypeOK
  <2> QED
    BY <1>1, <2>1, <2>3
<1>6. BackendInvariant' /\ RecoveredIsFinal'
  BY <1>5 DEF BackendInvariant, RecoveredIsFinal, End
<1>7. ReceiptsStored'
  BY DEF ReceiptsStored
<1> QED
  BY <1>2, <1>4, <1>6, <1>7

LEMMA InductiveCollect == ASSUME NEW f \in Files PROVE Inductive /\ Collect(f) => Inductive'
<1> SUFFICES ASSUME Inductive, Collect(f) PROVE Inductive'
  OBVIOUS
<1> USE DEF Inductive
<1>a. TypeOK'
  BY TypeCollect
<1>b. pollPc' = "polling" /\ UNCHANGED <<fileVars, created, cursor, resync, drainVars, serverVars>>
  BY DEF Collect, CollectNothing, CollectNoise, CollectLines, CollectFails, Collecting,
         CollectFrame
<1>c. FreshWhilePolling'
  BY <1>b DEF FreshWhilePolling
<1>d. size[f] \in 0 .. MaxPos /\ Start(f) \in 0 .. MaxPos /\ size[f] \in -1 .. MaxPos
  BY StartType DEF TypeOK
<1>e. \A p \in (1 .. MaxPos) \ Noise :
        p <= size[f] => p <= Start(f) \/ p \in Kept(f)
  BY <1>d DEF Kept
<1>f. created + fresh \in Nat /\ fresh \in Nat /\ fresh' \in Nat
      /\ created' + fresh' \in Nat
  <2>1. created \in Nat /\ fresh \in Nat /\ created' \in Nat /\ fresh' \in Nat
    BY <1>a, Numbers DEF TypeOK
  <2> QED
    BY <2>1, Sums
<1>g. created \in Nat /\ fresh \in Nat
  BY Numbers DEF TypeOK
<1>1. CASE CollectNothing(f)
  BY <1>1, <1>a, <1>c, Untouched DEF CollectNothing, CollectFrame
<1>2. CASE CollectNoise(f)
  <2>1. UNCHANGED <<batch, status, fresh>> /\ SetWork(f, size[f]) /\ Kept(f) = {}
    BY <1>2 DEF CollectNoise
  <2>2. WorkAccounted'
    <3>1. \A p \in (1 .. MaxPos) \ Noise : p <= size[f] =>
            \/ p <= serverEnd[f]
            \/ \E id \in 1 .. created + fresh : Covers(id, f, inode[f], p)
      BY <1>e, <2>1, StartAccounted
    <3>2. created + fresh <= created' + fresh'
      BY <1>b, <1>f, <2>1
    <3> QED
      BY <1>b, <1>d, <1>f, <2>1, <3>1, <3>2, WorkCollected
  <2> QED
    BY <1>a, <1>b, <1>c, <2>1, <2>2, Untouched
<1>3. CASE CollectLines(f)
  <2>1. size[f] > Start(f) /\ SetWork(f, size[f])
    BY <1>3 DEF CollectLines
  <2>2. PICK a \in Captures, b \in Captures :
          /\ InsertOne(a) \/ InsertTwo(a, b)
          /\ a.lo < a.hi /\ b.lo < b.hi
          /\ \/ InsertOne(a) /\ a = Slice(f, Start(f), size[f])
             \/ \E c \in Cuts(f) : /\ InsertTwo(a, b) /\ a = Slice(f, Start(f), c)
                                    /\ b = Slice(f, c, size[f])
    <3>1. CASE InsertOne(Slice(f, Start(f), size[f]))
      <4>1. Slice(f, Start(f), size[f]) \in Captures
        BY <1>d, SliceType
      <4>2. Slice(f, Start(f), size[f]).lo < Slice(f, Start(f), size[f]).hi
        BY <1>d, <2>1 DEF Slice
      <4> QED
        BY <3>1, <4>1, <4>2
    <3>2. ASSUME NEW c \in Cuts(f), InsertTwo(Slice(f, Start(f), c), Slice(f, c, size[f]))
          PROVE  \E a \in Captures, b \in Captures :
                   /\ a.lo < a.hi /\ b.lo < b.hi
                   /\ InsertTwo(a, b) /\ a = Slice(f, Start(f), c) /\ b = Slice(f, c, size[f])
      <4>1. c \in 0 .. MaxPos /\ Start(f) < c /\ c < size[f]
        BY CutType
      <4>2. Slice(f, Start(f), c) \in Captures /\ Slice(f, c, size[f]) \in Captures
        BY <1>d, <4>1, SliceType
      <4>3. /\ Slice(f, Start(f), c).lo < Slice(f, Start(f), c).hi
            /\ Slice(f, c, size[f]).lo < Slice(f, c, size[f]).hi
        BY <4>1 DEF Slice
      <4> QED
        BY <3>2, <4>2, <4>3
    <3>3. CASE \E c \in Cuts(f) : InsertTwo(Slice(f, Start(f), c), Slice(f, c, size[f]))
      BY <3>2, <3>3
    <3> QED
      BY <1>3, <3>1, <3>3 DEF CollectLines
  <2>3. /\ Numbered' /\ RangesNotEmpty'
        /\ created + fresh <= created' + fresh'
        /\ \A id \in 1 .. created + fresh : batch'[id] = batch[id]
        /\ \A id \in Ids : status'[id] \in {status[id], "captured"}
        /\ \A id \in Ids : id <= created => status'[id] = status[id]
    BY <1>b, <2>2, Inserted
  <2>4. ASSUME NEW p \in (1 .. MaxPos) \ Noise, p <= size[f], Start(f) < p
        PROVE  \E id \in 1 .. created' + fresh' : Covers(id, f, inode[f], p)'
    <3>a. p \in Int /\ UNCHANGED inode
      BY <1>b, Numbers
    <3>b. created + fresh + 1 \in Int /\ created + fresh + 2 \in Int
          /\ 1 <= created + fresh + 1
          /\ created + fresh + 1 # created + fresh + 2
      BY <1>f
    <3>1. CASE InsertOne(a) /\ a = Slice(f, Start(f), size[f])
      <4>1. created + fresh + 1 \in 1 .. created' + fresh'
        <5>1. created' + fresh' = created + fresh + 1
          BY <1>b, <1>g, <3>1, Sums DEF InsertOne
        <5> QED
          BY <1>g, <5>1, Sums
      <4>2. created + fresh + 1 \in Ids
        BY <1>f, <3>1, Numbers DEF InsertOne, Ids
      <4>3. batch'[created + fresh + 1] = a
        BY <3>1, <4>2 DEF TypeOK, InsertOne
      <4> QED
        BY <2>4, <3>a, <3>1, <4>1, <4>3 DEF Covers, Slice
    <3>2. ASSUME NEW c \in Cuts(f), InsertTwo(a, b), a = Slice(f, Start(f), c),
                 b = Slice(f, c, size[f])
          PROVE  \E id \in 1 .. created' + fresh' : Covers(id, f, inode[f], p)'
      <4>a. c \in Int
        BY CutType, Numbers
      <4>1. /\ created + fresh + 1 \in 1 .. created' + fresh'
            /\ created + fresh + 2 \in 1 .. created' + fresh'
        <5>1. created' + fresh' = created + fresh + 2
          BY <1>b, <1>g, <3>2, Sums DEF InsertTwo
        <5> QED
          BY <1>g, <5>1, Sums
      <4>2. created + fresh + 1 \in Ids /\ created + fresh + 2 \in Ids
        BY <1>f, <3>2, Numbers DEF InsertTwo, Ids
      <4>3. batch'[created + fresh + 1] = a /\ batch'[created + fresh + 2] = b
        BY <3>2, <3>b, <4>2 DEF TypeOK, InsertTwo
      <4>4. CASE p <= c
        BY <2>4, <3>a, <3>2, <4>1, <4>3, <4>4 DEF Covers, Slice
      <4>5. CASE c < p
        BY <2>4, <3>a, <3>2, <4>1, <4>3, <4>5 DEF Covers, Slice
      <4> QED
        BY <3>a, <4>a, <4>4, <4>5
    <3> QED
      BY <2>2, <3>1, <3>2
  <2>5. WorkAccounted'
    <3>1. \A p \in (1 .. MaxPos) \ Noise : p <= size[f] =>
            \/ p <= serverEnd[f]
            \/ \E id \in 1 .. created' + fresh' : Covers(id, f, inode[f], p)'
            \/ \E id \in 1 .. created + fresh : Covers(id, f, inode[f], p)
      BY <1>d, <2>4, StartAccounted, Numbers
    <3> QED
      BY <1>b, <1>d, <1>f, <2>1, <2>3, <3>1, WorkCollected
  <2> QED
    BY <1>a, <1>b, <1>c, <2>3, <2>5, OthersInserted
<1>4. CASE CollectFails(f)
  <2> DEFINE end == IF work[f][inode[f]] # NoCursor THEN work[f][inode[f]] ELSE 0
  <2>1. SetWork(f, end)
    BY <1>4 DEF CollectFails
  <2>2. inode[f] \in Inodes /\ work[f][inode[f]] \in -1 .. MaxPos /\ end \in -1 .. MaxPos
    BY Numbers DEF TypeOK, Inodes
  <2>3. \A p \in (1 .. MaxPos) \ Noise : p <= end =>
          \/ p <= serverEnd[f]
          \/ \E id \in 1 .. created + fresh : Covers(id, f, inode[f], p)
    BY <2>2, Numbers DEF WorkAccounted
  <2> HIDE DEF end
  <2>4. CASE UNCHANGED <<batch, status, fresh>>
    <3>1. created + fresh <= created' + fresh'
      BY <1>b, <1>f, <2>4
    <3>2. WorkAccounted'
      BY <1>b, <1>f, <2>1, <2>2, <2>3, <2>4, <3>1, WorkCollected
    <3> QED
      BY <1>a, <1>b, <1>c, <2>4, <3>2, Untouched
  <2>5. ASSUME NEW c \in Cuts(f), InsertOne(Slice(f, Start(f), c)) PROVE Inductive'
    <3>1. c \in 0 .. MaxPos /\ Start(f) < c
      BY CutType
    <3>2. Slice(f, Start(f), c) \in Captures
      BY <1>d, <3>1, SliceType
    <3>3. Slice(f, Start(f), c).lo < Slice(f, Start(f), c).hi
      BY <3>1 DEF Slice
    <3>4. /\ Numbered' /\ RangesNotEmpty'
          /\ created + fresh <= created' + fresh'
          /\ \A id \in 1 .. created + fresh : batch'[id] = batch[id]
          /\ \A id \in Ids : status'[id] \in {status[id], "captured"}
          /\ \A id \in Ids : id <= created => status'[id] = status[id]
      BY <1>b, <2>5, <3>2, <3>3, Inserted
    <3>5. WorkAccounted'
      BY <1>b, <1>f, <2>1, <2>2, <2>3, <3>4, WorkCollected
    <3> QED
      BY <1>a, <1>b, <1>c, <3>4, <3>5, OthersInserted
  <2> QED
    BY <1>4, <2>4, <2>5 DEF CollectFails
<1> QED
  BY <1>1, <1>2, <1>3, <1>4 DEF Collect

\* Dropping the worker's captures leaves the numbering without gaps.
LEMMA Dropped ==
  ASSUME Inductive, UNCHANGED <<batch, created, stored, serverEnd>>,
         resync \subseteq resync', late' \subseteq late \union (1 .. created),
         status' = DropCaptured, fresh' = 0, work' = NoRows
  PROVE  /\ Numbered' /\ FreshWhilePolling' /\ RangesNotEmpty' /\ WorkAccounted'
         /\ BackendInvariant' /\ ReceiptsStored' /\ RecoveredIsFinal'
         /\ \A id \in Ids : status[id] # "captured" => status'[id] = status[id]
<1> USE DEF Inductive
<1>a. created \in Nat /\ fresh \in Nat /\ created + 0 = created
  BY Numbers DEF TypeOK
<1>b. created <= created + fresh /\ created + fresh \in Int
  BY <1>a
<1>1. \A id \in Ids : status'[id] = IF status[id] = "captured" THEN "absent" ELSE status[id]
  BY DEF DropCaptured
<1>2. Numbered'
  <2>1. ASSUME NEW k \in Ids, NEW i \in Int, i = k, NEW c \in Int, NEW n \in Int,
               c = created, n = created + fresh
        PROVE  /\ status'[k] \notin {"absent", "captured"} => i <= c
               /\ status'[k] # "captured"
               /\ status'[k] = "absent" => c < i
    <3>1. /\ status[k] \notin {"absent", "captured"} => i <= c
          /\ status[k] = "captured" => c < i /\ i <= n
          /\ status[k] = "absent" => n < i
      BY <2>1 DEF Numbered
    <3>2. c <= n
      BY <1>b, <2>1
    <3> QED
      BY <1>1, <3>1, <3>2
  <2>2. \A id \in Ids : id \in Int
    BY Numbers DEF Ids
  <2>3. created <= MaxCaptures
    BY Numbers DEF TypeOK
  <2> QED
    BY <1>a, <1>b, <2>1, <2>2, <2>3 DEF Numbered
<1>3. FreshWhilePolling'
  BY DEF FreshWhilePolling
<1>4. RangesNotEmpty'
  <2>1. 1 .. created \subseteq 1 .. created + fresh
    BY <1>a, <1>b, Wider
  <2> QED
    BY <1>a, <2>1 DEF RangesNotEmpty
<1>5. WorkAccounted'
  <2>1. \A g \in Files, i \in Inodes, p \in (1 .. MaxPos) \ Noise : ~(p <= NoRows[g][i])
    BY Numbers DEF NoRows, NoCursor
  <2> QED
    BY <2>1 DEF WorkAccounted
<1>6. BackendInvariant' /\ ReceiptsStored' /\ RecoveredIsFinal'
  BY <1>1 DEF BackendInvariant, ReceiptsStored, RecoveredIsFinal, End
<1> QED
  BY <1>1, <1>2, <1>3, <1>4, <1>5, <1>6

LEMMA InductiveCommit == Inductive /\ CommitCapture => Inductive'
<1> SUFFICES ASSUME Inductive, CommitCapture PROVE Inductive'
  OBVIOUS
<1> USE DEF Inductive
<1>a. TypeOK'
  BY TypeCapture DEF Capture
<1>b. created \in Nat /\ fresh \in Nat /\ created' = created + fresh /\ fresh' = 0
  BY Numbers DEF TypeOK, CommitCapture
<1>c. created <= created' /\ created' + fresh' = created + fresh /\ created' \in Int
  BY <1>b
<1>d. 1 .. created \subseteq 1 .. created'
  BY <1>b, <1>c, Wider
<1>e. \A id \in Ids : status'[id] = IF status[id] = "captured" THEN "pending" ELSE status[id]
  BY DEF CommitCapture
<1>f. UNCHANGED <<batch, resync, serverVars, drainVars>>
  BY DEF CommitCapture
<1>1. Numbered'
  <2>1. ASSUME NEW k \in Ids, NEW i \in Int, i = k, NEW c \in Int, NEW n \in Int,
               c = created, n = created + fresh
        PROVE  /\ status'[k] \notin {"absent", "captured"} => i <= n
               /\ status'[k] # "captured"
               /\ status'[k] = "absent" => n < i
    <3>1. /\ status[k] \notin {"absent", "captured"} => i <= c
          /\ status[k] = "captured" => c < i /\ i <= n
          /\ status[k] = "absent" => n < i
      BY <2>1 DEF Numbered
    <3>2. c <= n
      BY <1>b, <2>1
    <3> QED
      BY <1>e, <3>1, <3>2
  <2>2. \A id \in Ids : id \in Int
    BY Numbers DEF Ids
  <2>3. created' + fresh' <= MaxCaptures
    BY <1>c DEF Numbered
  <2> QED
    BY <1>b, <1>c, <2>1, <2>2, <2>3 DEF Numbered
<1>2. FreshWhilePolling'
  BY <1>b DEF FreshWhilePolling
<1>3. RangesNotEmpty'
  BY <1>c, <1>f DEF RangesNotEmpty
<1>4. Accounted'
  <2>1. ASSUME NEW f \in Files, NEW i \in Inodes, NEW p \in (1 .. MaxPos) \ Noise,
               p <= cursor'[f][i]
        PROVE  p <= serverEnd[f] \/ \E id \in 1 .. created' : Covers(id, f, i, p)
    <3>1. CASE work[f][i] # NoCursor
      BY <1>b, <2>1, <3>1 DEF CommitCapture, WorkAccounted
    <3>2. CASE work[f][i] = NoCursor
      BY <1>d, <2>1, <3>2 DEF CommitCapture, Accounted
    <3> QED
      BY <3>1, <3>2
  <2> QED
    BY <1>f, <2>1 DEF Accounted, Covers
<1>5. WorkAccounted'
  <2>1. \A g \in Files, i \in Inodes, p \in (1 .. MaxPos) \ Noise : ~(p <= NoRows[g][i])
    BY Numbers DEF NoRows, NoCursor
  <2> QED
    BY <2>1 DEF WorkAccounted, CommitCapture
<1>6. UploadInvariant'
  <2>1. at <= created'
    BY <1>b, <1>c, Numbers DEF TypeOK, UploadInvariant
  <2>2. drainPc \in {"sending", "verifying", "flagging"} => status'[at] = status[at]
    BY <1>e, AtType DEF UploadInvariant
  <2> QED
    BY <1>f, <2>1, <2>2 DEF UploadInvariant, End
<1>7. BackendInvariant' /\ ReceiptsStored' /\ RecoveredIsFinal'
  BY <1>d, <1>e, <1>f DEF BackendInvariant, ReceiptsStored, RecoveredIsFinal, End
<1> QED
  BY <1>a, <1>1, <1>2, <1>3, <1>4, <1>5, <1>6, <1>7

LEMMA InductiveCapture == Inductive /\ Capture => Inductive'
<1> SUFFICES ASSUME Inductive, Capture PROVE Inductive'
  OBVIOUS
<1> USE DEF Inductive
<1>a. TypeOK'
  BY TypeCapture
<1>1. CASE CaptureGate
  <2>1. FreshWhilePolling'
    BY <1>1 DEF CaptureGate, FreshWhilePolling
  <2> QED
    BY <1>a, <1>1, <2>1, Untouched DEF CaptureGate
<1>2. CASE CaptureStart
  <2>1. fresh = 0 /\ fresh' = 0 /\ created + 0 = created
    BY <1>2, Numbers DEF CaptureStart, FreshWhilePolling, TypeOK
  <2>2. FreshWhilePolling'
    BY <2>1 DEF FreshWhilePolling
  <2>3. WorkAccounted'
    BY <1>2, <2>1 DEF CaptureStart, Accounted, WorkAccounted, Covers
  <2> QED
    BY <1>a, <1>2, <2>1, <2>2, <2>3, Untouched DEF CaptureStart
<1>3. CASE WorkerFails
  <2>1. /\ Numbered' /\ FreshWhilePolling' /\ RangesNotEmpty' /\ WorkAccounted'
        /\ BackendInvariant' /\ ReceiptsStored' /\ RecoveredIsFinal'
        /\ \A id \in Ids : status[id] # "captured" => status'[id] = status[id]
    BY <1>3, Dropped DEF WorkerFails
  <2>2. UploadInvariant'
    BY <1>3, <2>1, AtType DEF WorkerFails, UploadInvariant, End
  <2> QED
    BY <1>a, <1>3, <2>1, <2>2, Untouched DEF WorkerFails
<1>4. CASE EvaluatePressure
  <2>1. FreshWhilePolling'
    BY <1>4 DEF EvaluatePressure, FreshWhilePolling
  <2> QED
    BY <1>a, <1>4, <2>1, Untouched DEF EvaluatePressure
<1>5. CASE WriteBufferFull
  <2>1. FreshWhilePolling'
    BY <1>5 DEF WriteBufferFull, FreshWhilePolling
  <2> QED
    BY <1>a, <1>5, <2>1, Untouched DEF WriteBufferFull
<1> QED
  BY <1>1, <1>2, <1>3, <1>4, <1>5, InductiveCollect, InductiveCommit DEF Capture

LEMMA InductiveReply == Inductive /\ Reply => Inductive'
<1> SUFFICES ASSUME Inductive, Reply PROVE Inductive'
  OBVIOUS
<1> USE DEF Inductive, ReplyFrame, Waiting
<1>a. TypeOK'
  BY TypeReply
<1>b. /\ drainPc = "sending" /\ reply = "none"
      /\ UNCHANGED <<fileVars, bufferVars, flagVars, daemon, pollVars, drainPc, at>>
  BY DEF Reply, ServerAnswers, ServerRefuses, UploadTimesOut, AnswerUnreadable
<1>c. at \in Ids /\ at \in 1 .. created /\ status[at] = "pending"
  BY <1>b, AtType, Numbers DEF UploadInvariant, TypeOK, Ids
<1>d. batch[at].lo \in Int /\ End(at) \in Int
  <2>1. batch[at].file \in Files /\ batch[at].lo \in 0 .. MaxPos
    BY <1>c DEF TypeOK, Captures
  <2> QED
    BY <2>1, Numbers DEF TypeOK, End
<1>1. CASE ServerProcesses(at) /\ late' \subseteq late \union {at} /\ UploadInvariant'
  BY <1>a, <1>b, <1>c, <1>1, BackendStep
<1>2. CASE ServerAnswers
  <2>1. at \in stored' <=> Accepts(at)
    BY <1>2, <1>b, <1>c, Processed DEF ServerAnswers
  <2>2. CASE Accepts(at)
    <3>1. UploadInvariant'
      BY <1>2, <1>b, <2>1, <2>2 DEF ServerAnswers, UploadInvariant
    <3> QED
      BY <1>1, <1>2, <3>1 DEF ServerAnswers
  <2>3. CASE ~Accepts(at)
    <3>1. UNCHANGED serverEnd /\ batch[at].lo < End(at) /\ at \notin stored'
      BY <1>2, <1>d, <2>1, <2>3 DEF ServerAnswers, ServerProcesses, Accepts
    <3>2. reported' <= End(at)
      BY <1>2, <1>d, <2>3 DEF ServerAnswers
    <3>3. UploadInvariant'
      BY <1>2, <1>b, <2>3, <3>1, <3>2 DEF ServerAnswers, UploadInvariant, End
    <3> QED
      BY <1>1, <1>2, <3>3 DEF ServerAnswers
  <2> QED
    BY <2>2, <2>3
<1>3. CASE ServerRefuses
  <2>1. reply' \notin {"none", "accepted", "regression"} /\ UNCHANGED <<reported, serverVars>>
    BY <1>3 DEF ServerRefuses
  <2>2. UploadInvariant'
    BY <1>b, <2>1 DEF UploadInvariant
  <2> QED
    BY <1>a, <1>b, <2>1, <2>2, Untouched
<1>4. CASE UploadTimesOut
  <2>1. reply' = "unavailable" /\ UNCHANGED reported /\ late' \subseteq late \union {at}
    BY <1>4 DEF UploadTimesOut
  <2>2. UploadInvariant'
    BY <1>b, <2>1 DEF UploadInvariant
  <2>3. CASE UNCHANGED <<stored, serverEnd>>
    <3>1. BackendInvariant'
      BY <1>b, <1>c, <2>1, <2>3 DEF BackendInvariant, End
    <3> QED
      BY <1>a, <1>b, <2>2, <2>3, <3>1, Untouched
  <2>4. CASE ServerProcesses(at)
    BY <1>1, <2>1, <2>2, <2>4
  <2> QED
    BY <1>4, <2>3, <2>4 DEF UploadTimesOut
<1>5. CASE AnswerUnreadable
  <2>1. UploadInvariant'
    BY <1>5, <1>b DEF AnswerUnreadable, UploadInvariant
  <2> QED
    BY <1>1, <1>5, <2>1 DEF AnswerUnreadable
<1> QED
  BY <1>2, <1>3, <1>4, <1>5 DEF Reply

\* The status of one committed capture changes to a settled one.
LEMMA StatusSettled ==
  ASSUME Inductive, NEW id \in 1 .. created,
         NEW s \in {"failed", "delivered", "recovered"},
         status' = [status EXCEPT ![id] = s],
         UNCHANGED <<batch, created, pollVars, serverVars>>, resync \subseteq resync',
         s = "delivered" => id \in stored,
         s = "recovered" => id \in resync' /\ id \notin stored /\ batch[id].lo < End(id)
  PROVE  /\ Numbered' /\ FreshWhilePolling' /\ RangesNotEmpty' /\ WorkAccounted'
         /\ BackendInvariant' /\ ReceiptsStored' /\ RecoveredIsFinal'
<1> USE DEF Inductive
<1>1. \A j \in Ids : status'[j] = IF j = id THEN s ELSE status[j]
  BY DEF TypeOK
<1>2. Numbered'
  <2>1. id <= created
    BY Numbers DEF TypeOK
  <2> QED
    BY <1>1, <2>1 DEF Numbered
<1>3. FreshWhilePolling' /\ RangesNotEmpty' /\ WorkAccounted'
  BY Untouched
<1>4. BackendInvariant'
  BY <1>1 DEF BackendInvariant, End
<1>5. ReceiptsStored' /\ RecoveredIsFinal'
  BY <1>1 DEF ReceiptsStored, RecoveredIsFinal
<1> QED
  BY <1>2, <1>3, <1>4, <1>5

\* A regression rewinds a cursor to where the backend's own record of the file ends.
LEMMA Rewound ==
  ASSUME Inductive, reply = "regression", cursor' = RewoundCursor,
         UNCHANGED <<batch, created, serverEnd>>
  PROVE  Accounted'
<1> USE DEF Inductive
<1>1. at \in Ids
  BY AtType DEF UploadInvariant
<1>2. batch[at].file \in Files /\ reported \in Int
  BY <1>1, Numbers DEF TypeOK, Captures
<1>3. reported <= serverEnd[batch[at].file] /\ serverEnd[batch[at].file] \in Int
  BY <1>2, Numbers DEF TypeOK, UploadInvariant, End
<1>4. ASSUME NEW f \in Files, NEW i \in Inodes, NEW p \in (1 .. MaxPos) \ Noise,
             p <= cursor'[f][i]
      PROVE  p <= serverEnd[f] \/ \E id \in 1 .. created : Covers(id, f, i, p)
  <2>1. CASE f = batch[at].file /\ i = batch[at].inode
    <3>1. cursor'[f][i] = reported
      BY <1>2, <2>1 DEF TypeOK, RewoundCursor
    <3> QED
      BY <1>2, <1>3, <1>4, <2>1, <3>1, Numbers
  <2>2. CASE ~(f = batch[at].file /\ i = batch[at].inode)
    <3>1. cursor'[f][i] = cursor[f][i]
      BY <2>2 DEF TypeOK, RewoundCursor
    <3> QED
      BY <1>4, <3>1 DEF Accounted
  <2> QED
    BY <2>1, <2>2
<1> QED
  BY <1>4 DEF Accounted, Covers

LEMMA InductiveHandle == Inductive /\ Handle => Inductive'
<1> SUFFICES ASSUME Inductive, Handle PROVE Inductive'
  OBVIOUS
<1> USE DEF Inductive, HandleFrame, Handling
<1>a. TypeOK'
  BY TypeHandle
<1>b. drainPc \in {"sending", "verifying", "flagging"}
  BY DEF Handle, HandleAccepted, HandleRegression, HandleInvalid, HandleRetriable,
         HandleUnauthorized, AuthUnconfirmed, AuthConfirmed, WriteAuthFailed
<1>c. at \in Ids /\ at \in 1 .. created
  BY <1>b, AtType, Numbers DEF UploadInvariant, TypeOK, Ids
<1>1. CASE HandleAccepted
  <2>1. /\ Numbered' /\ FreshWhilePolling' /\ RangesNotEmpty' /\ WorkAccounted'
        /\ BackendInvariant' /\ ReceiptsStored' /\ RecoveredIsFinal'
    BY <1>c, <1>1, StatusSettled DEF HandleAccepted, UploadInvariant
  <2>2. UploadInvariant'
    BY <1>1 DEF HandleAccepted, UploadInvariant
  <2> QED
    BY <1>a, <1>1, <2>1, <2>2, Untouched DEF HandleAccepted
<1>2. CASE HandleRegression
  <2>1. /\ Numbered' /\ FreshWhilePolling' /\ RangesNotEmpty' /\ WorkAccounted'
        /\ BackendInvariant' /\ ReceiptsStored' /\ RecoveredIsFinal'
    BY <1>c, <1>2, StatusSettled DEF HandleRegression, UploadInvariant
  <2>2. UploadInvariant'
    BY <1>2 DEF HandleRegression, UploadInvariant
  <2>3. Accounted'
    BY <1>2, Rewound DEF HandleRegression
  <2> QED
    BY <1>a, <2>1, <2>2, <2>3
<1>3. CASE HandleInvalid
  <2>1. /\ Numbered' /\ FreshWhilePolling' /\ RangesNotEmpty' /\ WorkAccounted'
        /\ BackendInvariant' /\ ReceiptsStored' /\ RecoveredIsFinal'
    BY <1>c, <1>3, StatusSettled DEF HandleInvalid
  <2>2. UploadInvariant'
    BY <1>3 DEF HandleInvalid, UploadInvariant
  <2> QED
    BY <1>a, <1>3, <2>1, <2>2, Untouched DEF HandleInvalid
<1>4. CASE HandleRetriable \/ AuthUnconfirmed
  <2>1. UploadInvariant'
    BY <1>4 DEF HandleRetriable, AuthUnconfirmed, Retry, UploadInvariant
  <2> QED
    BY <1>a, <1>4, <2>1, Untouched DEF HandleRetriable, AuthUnconfirmed, Retry
<1>5. CASE HandleUnauthorized
  <2>1. UploadInvariant'
    BY <1>5 DEF HandleUnauthorized, UploadInvariant
  <2> QED
    BY <1>a, <1>5, <2>1, Untouched DEF HandleUnauthorized
<1>6. CASE AuthConfirmed
  <2>1. /\ Numbered' /\ FreshWhilePolling' /\ RangesNotEmpty' /\ WorkAccounted'
        /\ BackendInvariant' /\ ReceiptsStored' /\ RecoveredIsFinal'
    BY <1>c, <1>6, StatusSettled DEF AuthConfirmed
  <2>2. status'[at] = "failed"
    BY <1>c, <1>6 DEF AuthConfirmed, TypeOK
  <2>3. UploadInvariant'
    BY <1>6, <2>2 DEF AuthConfirmed, UploadInvariant
  <2> QED
    BY <1>a, <1>6, <2>1, <2>3, Untouched DEF AuthConfirmed
<1>7. CASE WriteAuthFailed
  <2>1. UploadInvariant'
    BY <1>7 DEF WriteAuthFailed, UploadInvariant
  <2> QED
    BY <1>a, <1>7, <2>1, Untouched DEF WriteAuthFailed
<1> QED
  BY <1>1, <1>2, <1>3, <1>4, <1>5, <1>6, <1>7 DEF Handle

LEMMA InductiveDrain == Inductive /\ Drain => Inductive'
<1> SUFFICES ASSUME Inductive, Drain PROVE Inductive'
  OBVIOUS
<1> USE DEF Inductive
<1>a. TypeOK'
  BY TypeDrain
<1>b. created \in Nat /\ 0 <= created
  BY Numbers DEF TypeOK
<1>1. CASE DrainStart
  <2>1. UploadInvariant'
    BY <1>1, <1>b DEF DrainStart, UploadInvariant
  <2> QED
    BY <1>a, <1>1, <2>1, Untouched DEF DrainStart
<1>2. CASE DrainWalkEnds
  <2>1. UploadInvariant'
    BY <1>2, <1>b DEF DrainWalkEnds, UploadInvariant
  <2> QED
    BY <1>a, <1>2, <2>1, Untouched DEF DrainWalkEnds
<1>3. CASE DrainWrapup
  <2>1. UploadInvariant'
    BY <1>3 DEF DrainWrapup, UploadInvariant
  <2>2. CASE UNCHANGED status
    BY <1>a, <1>3, <2>1, <2>2, Untouched DEF DrainWrapup
  <2>3. ASSUME NEW old \in SUBSET {id \in Ids : status[id] \in {"failed", "delivered"}},
               status' = StatusWithout(old)
        PROVE  Inductive'
    <3>1. /\ Numbered' /\ FreshWhilePolling' /\ RangesNotEmpty' /\ WorkAccounted'
          /\ BackendInvariant' /\ ReceiptsStored' /\ RecoveredIsFinal'
      BY <1>3, <2>3, StatusPruned DEF DrainWrapup
    <3> QED
      BY <1>a, <1>3, <2>1, <3>1, Untouched DEF DrainWrapup
  <2> QED
    BY <1>3, <2>2, <2>3 DEF DrainWrapup
<1>4. CASE ClearBufferFull
  <2>1. UploadInvariant'
    BY <1>4 DEF ClearBufferFull, UploadInvariant
  <2> QED
    BY <1>a, <1>4, <2>1, Untouched DEF ClearBufferFull
<1>5. ASSUME NEW id \in Ids, DrainPick(id) PROVE Inductive'
  <2>1. status[id] = "pending" /\ 0 < id
    BY <1>5, Numbers DEF DrainPick, PendingAfter, Pending, Ids
  <2>2. id <= created
    BY <2>1 DEF Numbered
  <2>3. UploadInvariant'
    BY <1>5, <2>1, <2>2 DEF DrainPick, UploadInvariant
  <2> QED
    BY <1>a, <1>5, <2>3, Untouched DEF DrainPick
<1> QED
  BY <1>1, <1>2, <1>3, <1>4, <1>5, InductiveReply, InductiveHandle DEF Drain

LEMMA InductiveCrash == Inductive /\ (Crash \/ CrashInRecovery) => Inductive'
<1> SUFFICES ASSUME Inductive, Crash \/ CrashInRecovery PROVE Inductive'
  OBVIOUS
<1> USE DEF Inductive
<1>a. TypeOK'
  BY TypeCrash
<1>b. created \in Nat /\ 0 <= created
  BY Numbers DEF TypeOK
<1>c. Forget /\ status' = DropCaptured
  BY DEF Crash, CrashInRecovery
<1>1. UploadInvariant'
  BY <1>b, <1>c DEF Forget, UploadInvariant
<1>2. late' \subseteq late \union (1 .. created) /\ resync \subseteq resync'
  <2>1. Waiting => at \in 1 .. created
    BY AtType, <1>b, Numbers DEF Waiting, UploadInvariant, Ids
  <2> QED
    BY <2>1 DEF Crash, CrashInRecovery
<1>3. /\ Numbered' /\ FreshWhilePolling' /\ RangesNotEmpty' /\ WorkAccounted'
      /\ BackendInvariant' /\ ReceiptsStored' /\ RecoveredIsFinal'
  BY <1>c, <1>2, Dropped DEF Forget
<1>4. Accounted'
  <2>1. CASE Crash
    BY <1>c, <2>1, Untouched DEF Crash, Forget
  <2>2. CASE CrashInRecovery
    BY <1>c, <2>2, Rewound DEF CrashInRecovery, Handling, Forget
  <2> QED
    BY <2>1, <2>2
<1> QED
  BY <1>a, <1>1, <1>3, <1>4

LEMMA InductiveStep == Inductive /\ [Next]_vars => Inductive'
<1>1. Inductive /\ UNCHANGED vars => Inductive'
  <2>1. Inductive /\ UNCHANGED vars => TypeOK'
    BY TypeStep DEF Inductive
  <2> QED
    BY <2>1, Untouched DEF Inductive
<1> QED
  BY <1>1, InductiveEnvironment, InductiveBoot, InductiveCapture, InductiveDrain,
     InductiveCrash DEF Next

-----------------------------------------------------------------------------
(* The theorems. *)

\* The strengthening of the safety properties holds in every reachable state.
THEOREM InductiveInvariant == Spec => []Inductive
<1>1. Init => Inductive
  BY InductiveInit
<1>2. Inductive /\ [Next]_vars => Inductive'
  BY InductiveStep
<1> QED
  BY <1>1, <1>2, PTL DEF Spec

\* Every variable of the pipeline keeps to its type.
THEOREM TypeCorrect == Spec => []TypeOK
<1>1. Inductive => TypeOK
  BY DEF Inductive
<1> QED
  BY <1>1, InductiveInvariant, PTL

\* No cursor of the buffer ever runs ahead of what was put in a committed capture,
\* or is beyond what the backend holds of the file.
THEOREM CursorsAccounted == Spec => []Accounted
<1>1. Inductive => Accounted
  BY DEF Inductive
<1> QED
  BY <1>1, InductiveInvariant, PTL

\* A receipt in the buffer means that the backend stores the capture.
THEOREM ReceiptsHonest == Spec => []ReceiptsStored
<1>1. Inductive => ReceiptsStored
  BY DEF Inductive
<1> QED
  BY <1>1, InductiveInvariant, PTL

\* A capture that was given up after a watermark regression is in the audit and is
\* never stored by the backend.
THEOREM RecoveriesFinal == Spec => []RecoveredIsFinal
<1>1. Inductive => RecoveredIsFinal
  BY DEF Inductive
<1> QED
  BY <1>1, InductiveInvariant, PTL

-----------------------------------------------------------------------------
(* The upload pipeline implements the batch lifecycle: its initial states    *)
(* are initial states of the lifecycle, and every step is a step of it or    *)
(* leaves the stage of every capture as it was.                              *)

USE DEF fileVars, bufferVars, flagVars, pollVars, drainVars, serverVars, vars

LEMMA IdType == \A id \in Ids : id \in Int /\ 0 < id
BY Numbers DEF Ids

\* A step that keeps the stage of every capture is a stutter of the lifecycle.
LEMMA StageSame ==
  ASSUME \A id \in Ids : Stage'[id] = Stage[id]
  PROVE  UNCHANGED Stage
BY DEF Stage

\* A step that changes the stage of one capture.
LEMMA StageMoved ==
  ASSUME NEW id \in Ids, NEW from, NEW to, Stage[id] = from, Stage'[id] = to,
         \A j \in Ids \ {id} : Stage'[j] = Stage[j]
  PROVE  Lifecycle!Move(id, from, to)
<1>1. Stage' = [j \in Ids |-> Stage'[j]] /\ Stage = [j \in Ids |-> Stage[j]]
  BY DEF Stage
<1>2. Stage' = [Stage EXCEPT ![id] = to]
  BY <1>1
<1> QED
  BY <1>2 DEF Lifecycle!Move

\* A step that moves some captures together.
LEMMA StageMovedAll ==
  ASSUME NEW S \in SUBSET Ids, NEW from, NEW to,
         \A id \in S : Stage[id] \in from /\ Stage'[id] = to,
         \A j \in Ids \ S : Stage'[j] = Stage[j]
  PROVE  Lifecycle!MoveAll(S, from, to)
<1>1. Stage' = [j \in Ids |-> Stage'[j]]
  BY DEF Stage
<1> QED
  BY <1>1 DEF Lifecycle!MoveAll

LEMMA StageInit == Init => Lifecycle!Init
BY DEF Init, Stage, Lifecycle!Init

\* Steps that touch neither the rows nor the place of the drain cycle.
LEMMA OtherSteps ==
  UNCHANGED <<status, at, drainPc>> => UNCHANGED Stage
<1> SUFFICES ASSUME UNCHANGED <<status, at, drainPc>> PROVE \A id \in Ids : Stage'[id] = Stage[id]
  BY StageSame
<1> QED
  BY DEF Stage

\* Captures that are settled leave the buffer.
LEMMA PruneStep ==
  ASSUME NEW S \in SUBSET {id \in Ids : status[id] \in {"failed", "delivered"}},
         \A id \in Ids : status'[id] = IF id \in S THEN "pruned" ELSE status[id],
         UNCHANGED at,
         \/ UNCHANGED drainPc
         \/ drainPc \notin {"sending", "verifying"} /\ drainPc' \notin {"sending", "verifying"}
  PROVE  [Lifecycle!Next]_Stage
<1>1. ASSUME NEW id \in S
      PROVE  Stage[id] \in {"delivered", "failed"} /\ Stage'[id] = "pruned"
  BY <1>1 DEF Stage
<1>2. ASSUME NEW j \in Ids \ S PROVE Stage'[j] = Stage[j]
  <2>1. status'[j] = status[j]
    BY <1>2
  <2> QED
    BY <1>2, <2>1 DEF Stage
<1>3. Lifecycle!Prune(S)
  BY <1>1, <1>2, StageMovedAll DEF Lifecycle!Prune
<1> QED
  BY <1>3 DEF Lifecycle!Next

LEMMA CaptureSteps == Inductive /\ Capture => [Lifecycle!Next]_Stage
<1> SUFFICES ASSUME Inductive, Capture PROVE [Lifecycle!Next]_Stage
  OBVIOUS
<1> USE DEF Inductive
<1>1. CASE CaptureGate \/ CaptureStart \/ EvaluatePressure \/ WriteBufferFull
  BY <1>1, OtherSteps DEF CaptureGate, CaptureStart, EvaluatePressure, WriteBufferFull
<1>2. CASE CommitCapture
  <2> DEFINE S == {id \in Ids : status[id] = "captured"}
  <2>1. \A id \in S : at < id
    <3>1. \A id \in S : created < id
      BY DEF Numbered
    <3>2. at <= created /\ at \in Int /\ created \in Int
      BY Numbers DEF UploadInvariant, TypeOK
    <3> QED
      BY <3>1, <3>2, IdType
  <2>2. ASSUME NEW id \in S PROVE Stage[id] \in {"none"} /\ Stage'[id] = "pending"
    <3>1. status'[id] = "pending" /\ at < id /\ at' = at /\ at \in Int /\ id \in Int
      BY <1>2, <2>1, IdType, Numbers DEF CommitCapture, TypeOK
    <3> QED
      BY <3>1 DEF Stage
  <2>3. ASSUME NEW j \in Ids \ S PROVE Stage'[j] = Stage[j]
    <3>1. status'[j] = status[j] /\ UNCHANGED <<at, drainPc>>
      BY <1>2 DEF CommitCapture
    <3> QED
      BY <3>1 DEF Stage
  <2>4. Lifecycle!Commit(S)
    BY <2>2, <2>3, StageMovedAll DEF Lifecycle!Commit
  <2> QED
    BY <2>4 DEF Lifecycle!Next
<1>3. ASSUME UNCHANGED <<at, drainPc>>,
             \A id \in Ids : \/ status'[id] = status[id]
                             \/ /\ status[id] \in {"absent", "captured"}
                                /\ status'[id] \in {"absent", "captured"}
      PROVE  UNCHANGED Stage
  <2>1. ASSUME NEW id \in Ids PROVE Stage'[id] = Stage[id]
    <3>1. CASE status'[id] = status[id]
      BY <1>3, <3>1 DEF Stage
    <3>2. CASE status[id] \in {"absent", "captured"} /\ status'[id] \in {"absent", "captured"}
      BY <1>3, <3>2 DEF Stage
    <3> QED
      BY <1>3, <3>1, <3>2
  <2> QED
    BY <2>1, StageSame
<1>4. CASE WorkerFails
  BY <1>3, <1>4 DEF WorkerFails, DropCaptured
<1>5. ASSUME NEW f \in Files, Collect(f) PROVE UNCHANGED Stage
  <2>1. UNCHANGED <<at, drainPc>>
    BY <1>5 DEF Collect, CollectNothing, CollectNoise, CollectLines, CollectFails, CollectFrame
  <2>2. created + fresh \in Int
    BY Numbers DEF TypeOK
  <2>3. \A id \in Ids : created + fresh < id => status[id] = "absent"
    <3>1. ASSUME NEW id \in Ids, NEW i \in Int, i = id, NEW c \in Int, NEW n \in Int,
                 c = created, n = created + fresh, c <= n, n < i
          PROVE  status[id] = "absent"
      BY <3>1 DEF Numbered
    <3>2. created \in Int /\ created <= created + fresh
      BY Numbers DEF TypeOK
    <3> QED
      BY <2>2, <3>1, <3>2, IdType
  <2>4. /\ status[created + fresh + 1] = "absent" \/ created + fresh + 1 \notin Ids
        /\ status[created + fresh + 2] = "absent" \/ created + fresh + 2 \notin Ids
    BY <2>2, <2>3
  <2>5. CASE UNCHANGED status
    BY <2>1, <2>5, OtherSteps
  <2>6. ASSUME NEW a, InsertOne(a) PROVE UNCHANGED Stage
    BY <1>3, <2>1, <2>4, <2>6 DEF InsertOne, TypeOK
  <2>7. ASSUME NEW a, NEW b, InsertTwo(a, b) PROVE UNCHANGED Stage
    BY <1>3, <2>1, <2>4, <2>7 DEF InsertTwo, TypeOK
  <2> QED
    BY <1>5, <2>5, <2>6, <2>7
       DEF Collect, CollectNothing, CollectNoise, CollectLines, CollectFails
<1> QED
  BY <1>1, <1>2, <1>4, <1>5 DEF Capture

LEMMA OtherDrainSteps ==
  Inductive /\ (DrainStart \/ DrainWalkEnds \/ DrainWrapup \/ ClearBufferFull \/ Reply)
    => [Lifecycle!Next]_Stage
<1> SUFFICES ASSUME Inductive,
                    DrainStart \/ DrainWalkEnds \/ DrainWrapup \/ ClearBufferFull \/ Reply
             PROVE  [Lifecycle!Next]_Stage
  OBVIOUS
<1> USE DEF Inductive
<1>1. ASSUME drainPc \notin {"sending", "verifying"}, drainPc' \notin {"sending", "verifying"},
             UNCHANGED <<status, at>>
      PROVE  UNCHANGED Stage
  <2>1. ASSUME NEW id \in Ids PROVE Stage'[id] = Stage[id]
    BY <1>1 DEF Stage
  <2> QED
    BY <2>1, StageSame
<1>2. CASE DrainStart
  <2>1. at = 0 /\ at' = 0
    BY <1>2 DEF DrainStart, UploadInvariant
  <2> QED
    BY <1>1, <1>2, <2>1 DEF DrainStart
<1>3. CASE DrainWalkEnds
  <2> DEFINE S == {id \in Ids : Stage[id] = "retriable_pending"}
  <2>1. ASSUME NEW id \in Ids
        PROVE  /\ id \in Int /\ at \in Int /\ id > 0
               /\ status'[id] = status[id] /\ at' = 0
               /\ drainPc = "walk" /\ drainPc' = "wrapup"
    BY <1>3, IdType, Numbers DEF DrainWalkEnds, TypeOK
  <2>2. ASSUME NEW id \in S PROVE Stage[id] \in {"retriable_pending"} /\ Stage'[id] = "pending"
    <3>1. status[id] = "pending"
      BY <2>1, <2>2 DEF Stage, TypeOK, Statuses
    <3> QED
      BY <2>1, <2>2, <3>1 DEF Stage
  <2>3. ASSUME NEW id \in Ids \ S PROVE Stage'[id] = Stage[id]
    BY <2>1, <2>3 DEF Stage
  <2>4. Lifecycle!ReturnToQueue(S)
    BY <2>2, <2>3, StageMovedAll DEF Lifecycle!ReturnToQueue
  <2> QED
    BY <2>4 DEF Lifecycle!Next
<1>4. CASE DrainWrapup
  <2>1. CASE UNCHANGED status
    BY <1>1, <1>4, <2>1 DEF DrainWrapup
  <2>2. ASSUME NEW old \in SUBSET {id \in Ids : status[id] \in {"failed", "delivered"}},
               status' = StatusWithout(old)
        PROVE  [Lifecycle!Next]_Stage
    <3>1. /\ \A id \in Ids : status'[id] = IF id \in old THEN "pruned" ELSE status[id]
          /\ drainPc \notin {"sending", "verifying"} /\ drainPc' \notin {"sending", "verifying"}
          /\ UNCHANGED at
      BY <1>4, <2>2 DEF DrainWrapup, StatusWithout
    <3> QED
      BY <2>2, <3>1, PruneStep
  <2> QED
    BY <1>4, <2>1, <2>2 DEF DrainWrapup
<1>5. CASE ClearBufferFull
  BY <1>1, <1>5 DEF ClearBufferFull
<1>6. CASE Reply
  BY <1>6, OtherSteps DEF Reply, ServerAnswers, ServerRefuses, UploadTimesOut,
                          AnswerUnreadable, ReplyFrame
<1> QED
  BY <1>2, <1>3, <1>4, <1>5, <1>6

LEMMA PickStep ==
  ASSUME Inductive, NEW id \in Ids, DrainPick(id)
  PROVE  [Lifecycle!Next]_Stage
<1> USE DEF Inductive
<1>1. /\ status[id] = "pending" /\ id > at /\ at' = id /\ drainPc = "walk"
      /\ drainPc' = "sending" /\ status' = status
      /\ \A j \in Ids : status[j] = "pending" /\ j > at => id <= j
  BY DEF DrainPick, PendingAfter, Pending
<1>2. id \in Int /\ at \in Int
  BY IdType, Numbers DEF TypeOK
<1>3. Stage[id] = "pending" /\ Stage'[id] = "uploading"
  BY <1>1, <1>2 DEF Stage
<1>4. ASSUME NEW j \in Ids \ {id} PROVE Stage'[j] = Stage[j]
  <2>1. j \in Int /\ j # id
    BY IdType
  <2>2. CASE status[j] # "pending"
    BY <1>1, <2>1, <2>2 DEF Stage
  <2>3. CASE status[j] = "pending" /\ j > at
    <3>1. j > id
      BY <1>1, <1>2, <2>1, <2>3
    <3> QED
      BY <1>1, <1>2, <2>1, <2>3, <3>1 DEF Stage
  <2>4. CASE status[j] = "pending" /\ j <= at
    <3>1. j <= id
      BY <1>1, <1>2, <2>1, <2>4
    <3> QED
      BY <1>1, <1>2, <2>1, <2>4, <3>1 DEF Stage
  <2> QED
    BY <1>2, <2>1, <2>2, <2>3, <2>4
<1>5. Lifecycle!InFlight = {}
  BY <1>1, IdType, Numbers DEF Lifecycle!InFlight, Stage, TypeOK, Statuses
<1>6. Lifecycle!PickUp(id)
  BY <1>3, <1>4, <1>5, StageMoved DEF Lifecycle!PickUp
<1> QED
  BY <1>6 DEF Lifecycle!Next

\* What is done with an answer changes the stage of the capture it is about.
LEMMA HandleSteps == Inductive /\ Handle => [Lifecycle!Next]_Stage
<1> SUFFICES ASSUME Inductive, Handle PROVE [Lifecycle!Next]_Stage
  OBVIOUS
<1> USE DEF Inductive, Handling, HandleFrame
<1>a. drainPc \in {"sending", "verifying", "flagging"}
  BY DEF Handle, HandleAccepted, HandleRegression, HandleInvalid, HandleRetriable,
         HandleUnauthorized, AuthUnconfirmed, AuthConfirmed, WriteAuthFailed
<1>b. at \in Ids /\ at \in Int
  BY <1>a, AtType, IdType
<1>c. /\ drainPc = "sending" => Stage[at] = "uploading"
      /\ drainPc = "verifying" => Stage[at] = "verifying_auth"
  BY <1>b DEF UploadInvariant, Stage
<1>d. ASSUME UNCHANGED at, \A j \in Ids \ {at} : status'[j] = status[j],
             NEW to, Stage'[at] = to
      PROVE  Lifecycle!Move(at, Stage[at], to)
  <2>1. ASSUME NEW j \in Ids \ {at} PROVE Stage'[j] = Stage[j]
    BY <1>d, <2>1 DEF Stage
  <2> QED
    BY <1>b, <1>d, <2>1, StageMoved
<1>e. \A s : status' = [status EXCEPT ![at] = s] =>
             /\ status'[at] = s
             /\ \A j \in Ids \ {at} : status'[j] = status[j]
  BY <1>b DEF TypeOK
<1>f. \/ Lifecycle!Accepted(at) \/ Lifecycle!Regressed(at) \/ Lifecycle!Rejected(at)
      \/ Lifecycle!AuthError(at) \/ Lifecycle!Unavailable(at)
      \/ Lifecycle!KeyInvalid(at) \/ Lifecycle!KeyNotInvalid(at)
      => Lifecycle!Next
  BY <1>b DEF Lifecycle!Next
<1>1. CASE HandleAccepted
  <2>1. UNCHANGED at /\ status' = [status EXCEPT ![at] = "delivered"]
    BY <1>1 DEF HandleAccepted
  <2>2. Stage'[at] = "delivered"
    BY <1>b, <1>e, <2>1 DEF Stage
  <2>3. Lifecycle!Accepted(at)
    BY <1>1, <1>c, <1>d, <1>e, <2>1, <2>2 DEF HandleAccepted, Lifecycle!Accepted
  <2> QED
    BY <1>f, <2>3
<1>2. CASE HandleRegression
  <2>1. UNCHANGED at /\ status' = [status EXCEPT ![at] = "recovered"]
    BY <1>2 DEF HandleRegression
  <2>2. Stage'[at] = "recovered"
    BY <1>b, <1>e, <2>1 DEF Stage
  <2>3. Lifecycle!Regressed(at)
    BY <1>2, <1>c, <1>d, <1>e, <2>1, <2>2 DEF HandleRegression, Lifecycle!Regressed
  <2> QED
    BY <1>f, <2>3
<1>3. CASE HandleInvalid
  <2>1. UNCHANGED at /\ status' = [status EXCEPT ![at] = "failed"]
    BY <1>3 DEF HandleInvalid
  <2>2. Stage'[at] = "failed"
    BY <1>b, <1>e, <2>1 DEF Stage
  <2>3. Lifecycle!Rejected(at)
    BY <1>3, <1>c, <1>d, <1>e, <2>1, <2>2 DEF HandleInvalid, Lifecycle!Rejected
  <2> QED
    BY <1>f, <2>3
<1>4. CASE HandleRetriable \/ AuthUnconfirmed
  <2>1. UNCHANGED <<at, status>> /\ drainPc' = "walk" /\ status[at] = "pending"
    BY <1>4 DEF HandleRetriable, AuthUnconfirmed, Retry, UploadInvariant
  <2>2. Stage'[at] = "retriable_pending"
    BY <1>b, <2>1 DEF Stage
  <2>3. Lifecycle!Move(at, Stage[at], "retriable_pending")
    BY <1>d, <2>1, <2>2
  <2>4. Lifecycle!Unavailable(at) \/ Lifecycle!KeyNotInvalid(at)
    BY <1>4, <1>c, <2>3 DEF HandleRetriable, AuthUnconfirmed, Lifecycle!Unavailable,
                            Lifecycle!KeyNotInvalid
  <2> QED
    BY <1>f, <2>4
<1>5. CASE HandleUnauthorized
  <2>1. UNCHANGED <<at, status>> /\ drainPc' = "verifying" /\ status[at] = "pending"
    BY <1>5 DEF HandleUnauthorized, UploadInvariant
  <2>2. Stage'[at] = "verifying_auth"
    BY <1>b, <2>1 DEF Stage
  <2>3. Lifecycle!AuthError(at)
    BY <1>5, <1>c, <1>d, <2>1, <2>2 DEF HandleUnauthorized, Lifecycle!AuthError
  <2> QED
    BY <1>f, <2>3
<1>6. CASE AuthConfirmed
  <2>1. UNCHANGED at /\ status' = [status EXCEPT ![at] = "failed"]
    BY <1>6 DEF AuthConfirmed
  <2>2. Stage'[at] = "failed"
    BY <1>b, <1>e, <2>1 DEF Stage
  <2>3. Lifecycle!KeyInvalid(at)
    BY <1>6, <1>c, <1>d, <1>e, <2>1, <2>2 DEF AuthConfirmed, Lifecycle!KeyInvalid
  <2> QED
    BY <1>f, <2>3
<1>7. CASE WriteAuthFailed
  <2>1. /\ drainPc = "flagging" /\ drainPc' = "walk" /\ UNCHANGED <<status, at>>
    BY <1>7 DEF WriteAuthFailed
  <2>2. ASSUME NEW j \in Ids PROVE Stage'[j] = Stage[j]
    BY <2>1 DEF Stage
  <2> QED
    BY <2>2, StageSame
<1> QED
  BY <1>1, <1>2, <1>3, <1>4, <1>5, <1>6, <1>7 DEF Handle

\* A crash puts every unfinished upload back in the queue.
LEMMA CrashSteps == Inductive /\ (Crash \/ CrashInRecovery) => [Lifecycle!Next]_Stage
<1> SUFFICES ASSUME Inductive, Crash \/ CrashInRecovery PROVE [Lifecycle!Next]_Stage
  OBVIOUS
<1> USE DEF Inductive
<1> DEFINE S == {id \in Ids : Stage[id] \in {"uploading", "verifying_auth", "retriable_pending"}}
<1>1. at' = 0 /\ drainPc' = "idle" /\ status' = DropCaptured
  BY DEF Crash, CrashInRecovery, Forget
<1>2. ASSUME NEW id \in Ids
      PROVE  /\ id \in Int /\ id > 0 /\ at \in Int
             /\ status'[id] = IF status[id] = "captured" THEN "absent" ELSE status[id]
  BY <1>1, IdType, Numbers DEF TypeOK, DropCaptured
<1>3. ASSUME NEW id \in S
      PROVE  /\ Stage[id] \in {"uploading", "verifying_auth", "retriable_pending"}
             /\ Stage'[id] = "pending"
  <2>1. status[id] = "pending"
    BY <1>2, <1>3 DEF Stage, TypeOK, Statuses
  <2> QED
    BY <1>1, <1>2, <1>3, <2>1 DEF Stage
<1>4. ASSUME NEW id \in Ids \ S PROVE Stage'[id] = Stage[id]
  <2>1. CASE status[id] = "pending"
    BY <1>1, <1>2, <1>4, <2>1 DEF Stage
  <2>2. CASE status[id] # "pending"
    BY <1>1, <1>2, <2>2 DEF Stage
  <2> QED
    BY <2>1, <2>2
<1>5. Lifecycle!Exit(S)
  BY <1>3, <1>4, StageMovedAll DEF Lifecycle!Exit
<1> QED
  BY <1>5 DEF Lifecycle!Next

\* The pipeline implements the lifecycle: whatever the two cycles, the backend, late
\* requests and crashes do, each capture goes through the stages of its machine, and
\* one at a time is uploaded.
THEOREM ImplementsLifecycle == Spec => LifecycleSpec
<1>1. Init => Lifecycle!Init
  BY StageInit
<1>2. Inductive /\ [Next]_vars => [Lifecycle!Next]_Stage
  <2> SUFFICES ASSUME Inductive, [Next]_vars PROVE [Lifecycle!Next]_Stage
    OBVIOUS
  <2>1. CASE Environment
    <3>1. CASE SetupClearsFailed /\ status' # status
      <4> DEFINE S == {id \in Ids : status[id] = "failed"}
      <4>1. \A id \in Ids : status'[id] = IF id \in S THEN "pruned" ELSE status[id]
        BY <3>1 DEF SetupClearsFailed, StatusWithout
      <4> QED
        BY <3>1, <4>1, PruneStep DEF SetupClearsFailed
    <3>2. CASE ~(SetupClearsFailed /\ status' # status)
      BY <2>1, <3>2, OtherSteps
         DEF Environment, Append, Replace, LateRequestArrives, AuthRecovered,
             SetupClearsAuthFailed, SetupClearsBufferFull, SetupClearsFailed
    <3> QED
      BY <3>1, <3>2
  <2>2. CASE Boot
    BY <2>2, OtherSteps DEF Boot
  <2>3. CASE Capture
    BY <2>3, CaptureSteps
  <2>4. CASE Drain
    BY <2>4, OtherDrainSteps, HandleSteps, PickStep DEF Drain
  <2>5. CASE Crash \/ CrashInRecovery
    BY <2>5, CrashSteps
  <2>6. CASE UNCHANGED vars
    BY <2>6, OtherSteps
  <2> QED
    BY <2>1, <2>2, <2>3, <2>4, <2>5, <2>6 DEF Next
<1> QED
  BY <1>1, <1>2, InductiveInvariant, PTL DEF Spec, LifecycleSpec, Lifecycle!Spec
=============================================================================
