---------------------------- MODULE DaemonProofs ----------------------------
(***************************************************************************)
(* Proofs about the running daemon: its loops, the cycles that they start, *)
(* the watcher of the sentinel files and the machines beside the code.     *)
(* They hold for every set of loops, sources and files and every limit.    *)
(***************************************************************************)
EXTENDS MCDaemon, TLAPS

-----------------------------------------------------------------------------
(* The loops.  AtMostOneCycle and LoopsStayAlive follow from Inductive.    *)

USE DEF keyVars, cycleVars, recoveryVars, setupVars, vars

LEMMA Limits ==
  /\ MaxRetries \in Nat /\ 0 < MaxRetries /\ MaxCrashes \in Nat /\ 0 < MaxCrashes
  /\ MaxMishaps \in Nat
BY LoopsAssumption

Steps == CycleSteps \union RecoverySteps

LEMMA StepNames ==
  /\ \A s \in {"gate", "waiting", "sleeping", "restarting", "returned", "check", "exists",
               "text", "rename", "chmod", "idle", "backoff", "verify", "clear"} : s \in Steps
BY DEF Steps, CycleSteps, RecoverySteps

LEMMA Names ==
  /\ R \in Supervised /\ R \notin Loops /\ Loops \subseteq Supervised
  /\ Supervised = Loops \union {R}
BY LoopsAssumption DEF R, Supervised

LEMMA MishapType == ASSUME TypeOK, NEW k, Mishap(k) PROVE mishaps' \in 0 .. MaxMishaps
BY Limits DEF TypeOK, Mishap

LEMMA FirstStepType == FirstStep \in [Supervised -> Steps] /\ \A l \in Supervised : FirstStep[l] # "returned"
BY StepNames DEF FirstStep

LEMMA InductiveInit == Init => Inductive
<1> SUFFICES ASSUME Init PROVE Inductive
  OBVIOUS
<1>1. TypeOK
  <2>1. /\ trial \in 0 .. MaxRetries /\ mishaps \in 0 .. MaxMishaps
        /\ running \in [Loops -> Nat] /\ orphans \in [Loops -> Nat]
        /\ crashes \in [Supervised -> 0 .. MaxCrashes]
    BY Limits DEF Init
  <2> QED
    BY <2>1, FirstStepType, LoopsAssumption DEF Init, TypeOK, Steps
<1>2. InFlightExact
  BY DEF Init, InFlightExact
<1>3. LoopsAlive
  BY FirstStepType DEF Init, LoopsAlive
<1> QED
  BY <1>1, <1>2, <1>3 DEF Inductive

\* The memory of a process that starts, or is gone, satisfies the invariant.
LEMMA FreshInductive ==
  ASSUME Inductive, Fresh, daemon' \in {"up", "down"}, daemonKey' \in Keys, configKey' \in Keys,
         valid' \subseteq Keys, authFailed' \in BOOLEAN,
         setupPc' \in {"none", "written", "cleared"}, reconfigured' \in BOOLEAN,
         mishaps' \in 0 .. MaxMishaps
  PROVE  Inductive'
<1>1. TypeOK'
  <2>1. trial' \in 0 .. MaxRetries
    BY Limits DEF Fresh
  <2>2. crashes' \in [Supervised -> 0 .. MaxCrashes]
    BY Limits DEF Fresh
  <2>3. running' \in [Loops -> Nat] /\ orphans' \in [Loops -> Nat]
    BY DEF Fresh
  <2> QED
    BY <2>1, <2>2, <2>3, FirstStepType DEF Fresh, TypeOK, Steps
<1>2. InFlightExact'
  BY DEF Fresh, InFlightExact
<1>3. LoopsAlive'
  BY FirstStepType DEF Fresh, LoopsAlive
<1> QED
  BY <1>1, <1>2, <1>3 DEF Inductive

LEMMA GoneInductive ==
  ASSUME Inductive, Gone, mishaps' \in 0 .. MaxMishaps PROVE Inductive'
BY FreshInductive DEF Inductive, TypeOK, Gone

\* A loop moves to another step, and returns only after the abort.
LEMMA Moved ==
  ASSUME Inductive, NEW l \in Supervised, NEW s \in Steps, GoTo(l, s),
         s = "returned" => aborted, UNCHANGED aborted
  PROVE  pc' \in [Supervised -> Steps] /\ LoopsAlive'
<1>1. pc' \in [Supervised -> Steps]
  BY DEF Inductive, TypeOK, GoTo, Steps
<1>2. LoopsAlive'
  BY DEF Inductive, TypeOK, LoopsAlive, GoTo
<1> QED
  BY <1>1, <1>2

LEMMA ThrowsInductive ==
  ASSUME Inductive, NEW l \in Supervised, Throws(l), mishaps' \in 0 .. MaxMishaps
  PROVE  Inductive'
<1> USE DEF Inductive
<1>1. CASE aborted
  <2>1. pc' \in [Supervised -> Steps] /\ LoopsAlive'
    BY <1>1, Moved, StepNames DEF Throws
  <2> QED
    BY <1>1, <2>1 DEF Throws, TypeOK, InFlightExact, Steps
<1>2. ASSUME ~aborted, NEW row \in {1, crashes[l] + 1}, row < MaxCrashes,
             crashes' = [crashes EXCEPT ![l] = row], GoTo(l, "restarting"),
             UNCHANGED <<daemon, aborted, keyVars, authFailed, cycleVars,
                         recoveryVars, setupVars>>
      PROVE  Inductive'
  <2>1. pc' \in [Supervised -> Steps] /\ LoopsAlive'
    BY <1>2, Moved, StepNames
  <2>2. row \in 0 .. MaxCrashes
    BY <1>2, Limits DEF TypeOK
  <2>3. crashes' \in [Supervised -> 0 .. MaxCrashes]
    BY <1>2, <2>2 DEF TypeOK
  <2> QED
    BY <1>2, <2>1, <2>3 DEF TypeOK, InFlightExact, Steps
<1>3. CASE Gone
  BY <1>3, GoneInductive
<1>4. \A row \in {1, crashes[l] + 1} : row >= MaxCrashes \/ row < MaxCrashes
  BY Limits DEF TypeOK
<1> QED
  BY <1>1, <1>2, <1>3, <1>4 DEF Throws

LEMMA ProcessStep == Inductive /\ Process => Inductive'
<1> SUFFICES ASSUME Inductive, Process PROVE Inductive'
  OBVIOUS
<1> USE DEF Inductive
<1>1. CASE Boot
  BY <1>1, FreshInductive DEF Boot, TypeOK
<1>2. CASE Killed
  BY <1>2, GoneInductive, MishapType DEF Killed
<1>3. CASE Terminate
  <2>1. mishaps' \in 0 .. MaxMishaps
    BY <1>3, MishapType DEF Terminate
  <2> QED
    BY <1>3, <2>1 DEF Terminate, TypeOK, InFlightExact, LoopsAlive
<1>4. CASE Exit
  BY <1>4, GoneInductive DEF Exit, TypeOK
<1> QED
  BY <1>1, <1>2, <1>3, <1>4 DEF Process

LEMMA RestartStep ==
  ASSUME Inductive, NEW l \in Supervised, Restart(l) PROVE Inductive'
<1> USE DEF Inductive
<1>1. pc' \in [Supervised -> Steps] /\ LoopsAlive'
  <2>1. FirstStep[l] \in Steps /\ FirstStep[l] # "returned"
    BY FirstStepType
  <2> QED
    BY <2>1, Moved, StepNames DEF Restart
<1>2. CASE l \in Loops
  <2>1. running' \in [Loops -> Nat] /\ inFlight' \in [Loops -> BOOLEAN]
    <3>1. /\ running' = [running EXCEPT ![l] = 0]
          /\ inFlight' = [inFlight EXCEPT ![l] = FALSE]
      BY <1>2 DEF Restart
    <3>2. running' \in [Loops -> Nat]
      BY <3>1 DEF TypeOK
    <3>3. inFlight' \in [Loops -> BOOLEAN]
      BY <3>1, Zenon DEF TypeOK
    <3> QED
      BY <3>2, <3>3
  <2>2. orphans[l] + running[l] \in Nat
    BY <1>2 DEF TypeOK
  <2>3. orphans' \in [Loops -> Nat]
    BY <1>2, <2>2 DEF Restart, TypeOK
  <2>4. InFlightExact'
    BY <1>2 DEF Restart, TypeOK, InFlightExact
  <2> QED
    BY <1>1, <1>2, <2>1, <2>3, <2>4 DEF Restart, TypeOK, Steps
<1>3. CASE l \notin Loops
  <2>1. trial' \in 0 .. MaxRetries
    BY <1>3, Limits DEF Restart
  <2> QED
    BY <1>1, <1>3, <2>1 DEF Restart, TypeOK, InFlightExact, Steps
<1> QED
  BY <1>2, <1>3

LEMMA LoopStepInductive ==
  ASSUME Inductive, NEW l \in Loops,
         LoopStep(l) \/ CycleSettles(l) \/ OrphanSettles(l)
  PROVE  Inductive'
<1> USE DEF Inductive, LoopFrame
<1>a. l \in Supervised
  BY Names
<1>1. CASE Skip(l) \/ Wake(l) \/ Return(l) \/ CycleTimesOut(l)
  <2>1. pc' \in [Supervised -> Steps] /\ LoopsAlive'
    <3>1. CASE Skip(l)
      BY <1>a, <3>1, Moved, StepNames DEF Skip
    <3>2. CASE Wake(l)
      BY <1>a, <3>2, Moved, StepNames DEF Wake
    <3>3. CASE Return(l)
      BY <1>a, <3>3, Moved, StepNames DEF Return
    <3>4. CASE CycleTimesOut(l)
      BY <1>a, <3>4, Moved, StepNames DEF CycleTimesOut
    <3> QED
      BY <1>1, <3>1, <3>2, <3>3, <3>4
  <2> QED
    BY <1>1, <2>1 DEF Skip, Wake, Return, CycleTimesOut, TypeOK, InFlightExact, Steps
<1>2. CASE StartCycle(l)
  <2>1. pc' \in [Supervised -> Steps] /\ LoopsAlive'
    BY <1>a, <1>2, Moved, StepNames DEF StartCycle
  <2>2. running[l] = 0
    BY <1>2 DEF StartCycle, InFlightExact
  <2>3. /\ inFlight' \in [Loops -> BOOLEAN] /\ running' \in [Loops -> Nat]
        /\ InFlightExact'
    BY <1>2, <2>2 DEF StartCycle, TypeOK, InFlightExact
  <2> QED
    BY <1>2, <2>1, <2>3 DEF StartCycle, TypeOK, Steps
<1>3. CASE GateThrows(l)
  BY <1>a, <1>3, ThrowsInductive, MishapType DEF GateThrows
<1>4. CASE CycleSettles(l)
  <2>1. pc' \in [Supervised -> Steps] /\ LoopsAlive'
    <3>1. CASE UNCHANGED pc
      BY <1>4, <3>1 DEF CycleSettles, TypeOK, LoopsAlive, Steps
    <3>2. CASE GoTo(l, IF aborted THEN "returned" ELSE "sleeping")
      BY <1>4, <1>a, <3>2, Moved, StepNames DEF CycleSettles
    <3> QED
      BY <1>4, <3>1, <3>2 DEF CycleSettles
  <2>2. running[l] = 1
    BY <1>4 DEF CycleSettles, InFlightExact
  <2>3. /\ inFlight' \in [Loops -> BOOLEAN] /\ running' \in [Loops -> Nat]
        /\ InFlightExact'
    BY <1>4, <2>2 DEF CycleSettles, TypeOK, InFlightExact
  <2> QED
    BY <1>4, <2>1, <2>3 DEF CycleSettles, TypeOK, Steps
<1>5. CASE OrphanSettles(l)
  <2>1. orphans[l] - 1 \in Nat
    BY <1>5 DEF OrphanSettles, TypeOK
  <2>2. orphans' \in [Loops -> Nat]
    BY <1>5, <2>1 DEF OrphanSettles, TypeOK
  <2> QED
    BY <1>5, <2>2 DEF OrphanSettles, TypeOK, InFlightExact, LoopsAlive
<1> QED
  BY <1>1, <1>2, <1>3, <1>4, <1>5 DEF LoopStep

LEMMA UploadStep ==
  Inductive /\ (SendUpload \/ UploadAnswered \/ WriteAuthFailed) => Inductive'
BY DEF Inductive, LoopFrame, SendUpload, UploadAnswered, WriteAuthFailed, TypeOK, InFlightExact,
       LoopsAlive

LEMMA RecoveryStep == Inductive /\ Recovery => Inductive'
<1> SUFFICES ASSUME Inductive, Recovery PROVE Inductive'
  OBVIOUS
<1> USE DEF Inductive
<1>1. CASE RecordThrows
  BY <1>1, Names, ThrowsInductive DEF RecordThrows, TypeOK
<1>2. CASE ~RecordThrows
  <2>1. RecoveryFrame
    BY <1>2 DEF Recovery, RecoveryReturns, RecoveryIdle, RecoveryTrial, RecoveryExhausted,
           RecordLooks, RecordReads, RecordWrites, RecordDone, RecoveryWakes, VerifySucceeds,
           VerifyFails, ClearAuthFailed
  <2>2. PICK s \in Steps : GoTo(R, s) /\ (s = "returned" => aborted)
    <3>1. after \in Steps /\ after # "returned"
      BY StepNames DEF TypeOK
    <3>2. (IF authFailed THEN "text" ELSE after) \in Steps
          /\ (IF authFailed THEN "text" ELSE after) # "returned"
      BY <3>1, StepNames
    <3>3. (IF pc[R] = "check" THEN "idle" ELSE "check") \in Steps
          /\ (IF pc[R] = "check" THEN "idle" ELSE "check") # "returned"
      BY StepNames
    <3> QED
      BY <1>2, <3>1, <3>2, <3>3, StepNames
         DEF Recovery, RecoveryReturns, RecoveryIdle, RecoveryTrial, RecoveryExhausted,
             RecordLooks, RecordReads, RecordWrites, RecordDone, RecoveryWakes, VerifySucceeds,
             VerifyFails, ClearAuthFailed
  <2>3. pc' \in [Supervised -> Steps] /\ LoopsAlive'
    BY <2>1, <2>2, Names, Moved DEF RecoveryFrame
  <2>4. trial' \in 0 .. MaxRetries
    <3>1. trial' = trial \/ trial' = 0 \/ (trial < MaxRetries /\ trial' = trial + 1)
      BY <1>2
         DEF Recovery, RecoveryReturns, RecoveryIdle, RecoveryTrial, RecoveryExhausted,
             RecordLooks, RecordReads, RecordWrites, RecordDone, RecoveryWakes,
             VerifySucceeds, VerifyFails, ClearAuthFailed
    <3> QED
      BY <3>1, Limits DEF TypeOK
  <2>6. exhausted' \in BOOLEAN
    <3>1. exhausted' = exhausted \/ exhausted' = FALSE \/ exhausted' = TRUE
          \/ exhausted' = (trial >= MaxRetries)
      BY <1>2
         DEF Recovery, RecoveryReturns, RecoveryIdle, RecoveryTrial, RecoveryExhausted,
             RecordLooks, RecordReads, RecordWrites, RecordDone, RecoveryWakes,
             VerifySucceeds, VerifyFails, ClearAuthFailed
    <3>2. (trial >= MaxRetries) \in BOOLEAN
      BY Limits DEF TypeOK
    <3> QED
      BY <3>1, <3>2, Zenon DEF TypeOK
  <2>7. after' \in {"idle", "backoff", "check"}
    <3>1. after' = after \/ after' = "idle" \/ after' = "backoff" \/ after' = "check"
      BY <1>2
         DEF Recovery, RecoveryReturns, RecoveryIdle, RecoveryTrial, RecoveryExhausted,
             RecordLooks, RecordReads, RecordWrites, RecordDone, RecoveryWakes,
             VerifySucceeds, VerifyFails, ClearAuthFailed
    <3> QED
      BY <3>1 DEF TypeOK
  <2>8. authFailed' \in BOOLEAN
    BY <1>2
       DEF Recovery, RecoveryReturns, RecoveryIdle, RecoveryTrial, RecoveryExhausted,
           RecordLooks, RecordReads, RecordWrites, RecordDone, RecoveryWakes,
           VerifySucceeds, VerifyFails, ClearAuthFailed, TypeOK
  <2>5. mishaps' \in 0 .. MaxMishaps
    BY <1>2, MishapType
       DEF Recovery, RecoveryReturns, RecoveryIdle, RecoveryTrial, RecoveryExhausted,
           RecordLooks, RecordReads, RecordWrites, RecordDone, RecoveryWakes, VerifySucceeds,
           VerifyFails, ClearAuthFailed, TypeOK
  <2> QED
    BY <2>1, <2>3, <2>4, <2>5, <2>6, <2>7, <2>8 DEF RecoveryFrame, TypeOK, InFlightExact, Steps
<1> QED
  BY <1>1, <1>2

LEMMA OutsideStep == Inductive /\ Outside => Inductive'
<1> SUFFICES ASSUME Inductive, Outside PROVE Inductive'
  OBVIOUS
<1> USE DEF Inductive, OutsideFrame
<1>1. ASSUME NEW k \in Keys, Revoke(k) \/ Restore(k) \/ SetupWrites(k) PROVE Inductive'
  <2>1. mishaps' \in 0 .. MaxMishaps
    BY <1>1, MishapType DEF Revoke, Restore, SetupWrites
  <2>2. /\ configKey' \in Keys /\ valid' \subseteq Keys
        /\ setupPc' \in {"none", "written", "cleared"} /\ reconfigured' \in BOOLEAN
    <3>1. CASE Revoke(k)
      BY <3>1 DEF Revoke, TypeOK
    <3>2. CASE Restore(k)
      BY <3>2 DEF Restore, TypeOK
    <3>3. CASE SetupWrites(k)
      BY <3>3 DEF SetupWrites, TypeOK
    <3> QED
      BY <1>1, <3>1, <3>2, <3>3
  <2>3. UNCHANGED <<daemon, aborted, daemonKey, pc, cycleVars, crashes, recoveryVars, authFailed>>
    BY <1>1 DEF Revoke, Restore, SetupWrites
  <2> QED
    BY <2>1, <2>2, <2>3 DEF TypeOK, InFlightExact, LoopsAlive
<1>2. CASE SetupClears
  BY <1>2 DEF SetupClears, TypeOK, InFlightExact, LoopsAlive
<1>3. CASE SetupStarts
  <2>1. CASE daemon = "down"
    BY <1>3, <2>1, FreshInductive DEF SetupStarts, TypeOK
  <2>2. CASE daemon # "down"
    BY <1>3, <2>2 DEF SetupStarts, TypeOK, InFlightExact, LoopsAlive
  <2> QED
    BY <2>1, <2>2
<1> QED
  BY <1>1, <1>2, <1>3 DEF Outside

\* Every step keeps the strengthening of the safety properties.
LEMMA InductiveStep == Inductive /\ [Next]_vars => Inductive'
<1>1. Inductive /\ UNCHANGED vars => Inductive'
  BY DEF Inductive, TypeOK, InFlightExact, LoopsAlive
<1> QED
  BY <1>1, ProcessStep, RestartStep, LoopStepInductive, UploadStep, RecoveryStep, OutsideStep
     DEF Next

\* The strengthening of the safety properties holds in every reachable state.
THEOREM InductiveInvariant == Spec => []Inductive
  BY InductiveStep, InductiveInit, PTL DEF Spec

\* However many loops there are and however often they time out, no call of a loop
\* function has two cycles at once.
THEOREM AtMostOneCycle == Spec => []OneCycle
<1>1. Inductive => OneCycle
  BY DEF Inductive, InFlightExact, OneCycle
<1> QED
  BY <1>1, InductiveInvariant, PTL

\* No loop ends before the daemon is told to stop.
THEOREM LoopsStayAlive == Spec => []LoopsAlive
<1>1. Inductive => LoopsAlive
  BY DEF Inductive
<1> QED
  BY <1>1, InductiveInvariant, PTL

-----------------------------------------------------------------------------
(* Capture cycles that are rejected, timed out and overtaken.  A poll      *)
(* starts from a cursor below which every line is in a capture, and a      *)
(* commit closes the gap up to the new cursor, whatever happened to the    *)
(* cycle in between; while no cycle was rejected, all polls are of the one *)
(* cycle there is, one for each source.                                    *)

USE DispatchAssumption

\* The loop waits for no cycle unless there is one, and only a polling cycle has polls.
CycleExact ==
  /\ cycleInFlight <=> cycle # "idle"
  /\ cycle # "polling" => Own = {}

\* What lies below a cursor, and below the cursor a poll has started from, is captured.
ReadIsCaptured ==
  /\ \A s \in Sources : \A n \in 1 .. MaxWritten : n <= cursor[s] => times[s][n] > 0
  /\ \A p \in polls : \A n \in 1 .. MaxWritten : n <= p.from => times[p.src][n] > 0

\* As long as no cycle was rejected, a source has one poll at most, which started from its
\* cursor, and what lies above the cursor is in no capture.
OnceSoFar ==
  ~rejected =>
    /\ \A p \in polls : p.age = 0 /\ p.from = cursor[p.src] /\ p.from <= p.least
    /\ \A p, q \in polls : p.src = q.src => p = q
    /\ \A s \in Sources : cursor[s] <= written[s]
    /\ \A s \in Sources : \A n \in 1 .. MaxWritten :
         times[s][n] = IF n <= cursor[s] THEN 1 ELSE 0

\* A buffer above the soft limit is marked full before the next cycle begins, unless
\* `unchecked` says why not; and the drain removes the mark after a low measurement only.
PressureKnown ==
  /\ ~unchecked /\ cycle \in {"idle", "gate"} =>
       polls = {} /\ (bufferFull \/ waiting <= SoftPause)
  /\ drainPc = "low" => measured < SoftResume

DispatchInv ==
  /\ DispatchTypeOK /\ CycleExact /\ ReadIsCaptured /\ OnceSoFar /\ PressureKnown

-----------------------------------------------------------------------------
(* Polls and commits.                                                      *)

LEMMA PollFields ==
  ASSUME DispatchTypeOK, NEW p \in polls
  PROVE  /\ p \in PollRecords /\ p.src \in Sources /\ p.from \in 0 .. MaxWritten
         /\ p.least \in 0 .. MaxWritten /\ p.age \in Nat
  BY DEF DispatchTypeOK, PollRecords

\* The polls of the cycle and of the rejected ones; ageing makes orphans of all.
LEMMA PollKinds ==
  ASSUME DispatchTypeOK
  PROVE  /\ Own \subseteq polls /\ Orphans \subseteq polls /\ polls = Own \union Orphans
         /\ \A p \in Orphans : p.age # 0
  BY DEF Own, Orphans

LEMMA AgedFacts ==
  ASSUME DispatchTypeOK, NEW ps, ps \subseteq polls
  PROVE  /\ Aged(ps) \subseteq PollRecords
         /\ \A q \in Aged(ps) : /\ q.age # 0
                                /\ \E p \in ps : q.src = p.src /\ q.from = p.from
<1>1. ASSUME NEW q \in Aged(ps)
      PROVE  /\ q \in PollRecords /\ q.age # 0
             /\ \E p \in ps : q.src = p.src /\ q.from = p.from
  <2>1. PICK p \in ps : q = [p EXCEPT !.age = p.age + 1]
    BY <1>1 DEF Aged
  <2>2. p \in PollRecords /\ p.age \in Nat
    BY PollFields
  <2>3. q \in PollRecords /\ q.age = p.age + 1 /\ q.src = p.src /\ q.from = p.from
    BY <2>1, <2>2 DEF PollRecords
  <2> QED
    BY <2>2, <2>3
<1> QED
  BY <1>1

\* The captures of a poll are added to those there are.
LEMMA InsertFacts ==
  ASSUME DispatchTypeOK, ReadIsCaptured, NEW p \in polls,
         NEW to \in p.least .. written[p.src], Inserts(p, to)
  PROVE  /\ to \in 0 .. MaxWritten /\ to >= p.least /\ to <= written[p.src]
         /\ times' \in [Sources -> [1 .. MaxWritten -> 0 .. 2]] /\ waiting' \in Nat
         /\ \A s \in Sources : \A n \in 1 .. MaxWritten : times'[s][n] >= times[s][n]
         /\ \A n \in 1 .. MaxWritten : n <= to => times'[p.src][n] > 0
         /\ \A n \in 1 .. MaxWritten :
              times'[p.src][n] = IF n > p.from /\ n <= to /\ times[p.src][n] < 2
                                 THEN times[p.src][n] + 1 ELSE times[p.src][n]
         /\ \A s \in Sources \ {p.src} : times'[s] = times[s]
<1>1. /\ p.src \in Sources /\ p.from \in 0 .. MaxWritten /\ p.least \in 0 .. MaxWritten
      /\ written[p.src] \in 0 .. MaxWritten /\ MaxWritten \in Nat
  BY PollFields DEF DispatchTypeOK
<1>2. to \in 0 .. MaxWritten /\ to >= p.least /\ to <= written[p.src]
  BY <1>1
<1> DEFINE row == [n \in 1 .. MaxWritten |->
                    IF n > p.from /\ n <= to /\ times[p.src][n] < 2
                    THEN times[p.src][n] + 1 ELSE times[p.src][n]]
<1>3. \A s \in Sources : \A n \in 1 .. MaxWritten : times[s][n] \in 0 .. 2
  BY DEF DispatchTypeOK
<1>4. row \in [1 .. MaxWritten -> 0 .. 2]
  BY <1>1, <1>3
<1>5. times' = [times EXCEPT ![p.src] = row]
  BY DEF Inserts
<1>6. \A n \in 1 .. MaxWritten :
        row[n] = IF n > p.from /\ n <= to /\ times[p.src][n] < 2
                 THEN times[p.src][n] + 1 ELSE times[p.src][n]
  OBVIOUS
<1> HIDE DEF row
<1>7. /\ times' \in [Sources -> [1 .. MaxWritten -> 0 .. 2]] /\ times'[p.src] = row
      /\ \A s \in Sources \ {p.src} : times'[s] = times[s]
  BY <1>1, <1>4, <1>5 DEF DispatchTypeOK
<1>8. \A n \in 1 .. MaxWritten : n <= to => row[n] > 0
  <2>1. ASSUME NEW n \in 1 .. MaxWritten, n <= to PROVE row[n] > 0
    <3>1. CASE n <= p.from
      BY <1>1, <1>3, <1>6, <2>1, <3>1 DEF ReadIsCaptured
    <3>2. CASE n > p.from
      BY <1>1, <1>3, <1>6, <2>1, <3>2
    <3> QED
      BY <1>1, <3>1, <3>2
  <2> QED
    BY <2>1
<1>9. \A s \in Sources : \A n \in 1 .. MaxWritten : times'[s][n] >= times[s][n]
  BY <1>1, <1>3, <1>6, <1>7
<1>10. waiting' \in Nat
  BY <1>1, <1>2 DEF Inserts, DispatchTypeOK
<1> QED
  BY <1>2, <1>6, <1>7, <1>8, <1>9, <1>10

\* A commit fills the gap between the start of the poll and the new cursor.
LEMMA CommitFacts ==
  ASSUME DispatchTypeOK, ReadIsCaptured, NEW p \in polls,
         NEW to \in p.least .. written[p.src], Commits(p, to)
  PROVE  /\ Inserts(p, to) /\ to \in 0 .. MaxWritten
         /\ cursor' \in [Sources -> 0 .. MaxWritten] /\ written' = written
         /\ \A s \in Sources \ {p.src} : cursor'[s] = cursor[s]
         /\ cursor'[p.src] = IF p.src \in WorkerSources \/ to > p.from THEN to ELSE cursor[p.src]
<1>1. p.src \in Sources /\ Inserts(p, to)
  BY PollFields DEF Commits
<1>2. to \in 0 .. MaxWritten
  BY <1>1, InsertFacts
<1> QED
  BY <1>1, <1>2 DEF Commits, DispatchTypeOK

\* The steps that leave the polls, the cursors and the captures alone.
QuietStep ==
  \/ \E s \in Sources : WriteLine(s)
  \/ TimeOut \/ GateBlocks \/ CloseCycle \/ FindPressure \/ MarkFull \/ PressureFails
  \/ Drain \/ ShouldResume \/ Resume \/ SetupRemoves

LEMMA QuietFrame ==
  QuietStep => UNCHANGED <<fixedVars, cursor, times, polls, rejected>>
  BY DEF QuietStep, WriteLine, TimeOut, GateBlocks, CloseCycle, FindPressure, MarkFull,
         PressureFails, Drain, ShouldResume, Resume, SetupRemoves, fileVars

\* The ends of a poll: one that has read its file may have committed, and one that throws
\* may have committed a file before.
LEMMA StepKinds ==
  DispatchNext =>
    \/ QuietStep \/ BeginCycle \/ GateClear \/ Dies
    \/ \E p \in polls : ReadCursor(p) \/ PollEnds(p) \/ PollFails(p) \/ PollRejects(p)
  BY DEF DispatchNext, QuietStep

-----------------------------------------------------------------------------
(* Types.                                                                  *)

LEMMA QuietType == ASSUME DispatchTypeOK, QuietStep PROVE DispatchTypeOK'
<1> USE DEF DispatchTypeOK, fixedVars, fileVars, loopVars, drainVars, Settled
<1>1. ASSUME NEW s \in Sources, WriteLine(s) PROVE DispatchTypeOK'
  <2>1. written' \in [Sources -> 0 .. MaxWritten]
    BY <1>1 DEF WriteLine
  <2> QED
    BY <1>1, <2>1 DEF WriteLine
<1>2. CASE TimeOut \/ GateBlocks \/ FindPressure
  BY <1>2 DEF TimeOut, GateBlocks, FindPressure
<1>3. CASE CloseCycle \/ MarkFull
  <2>1. /\ bufferFull' \in BOOLEAN /\ unchecked' \in BOOLEAN
        /\ loopPc' = "ready" /\ cycleInFlight' = FALSE /\ cycle' = "idle"
    BY <1>3 DEF CloseCycle, MarkFull
  <2>2. UNCHANGED <<fixedVars, fileVars, drainVars, polls, rejected, thrown>>
    BY <1>3 DEF CloseCycle, MarkFull
  <2> QED
    BY <2>1, <2>2
<1>4. CASE PressureFails
  <2>1. thrown' \in 0 .. MaxThrown
    BY <1>4 DEF PressureFails, Happens
  <2>2. bufferFull' \in BOOLEAN
    BY <1>4, Zenon DEF PressureFails, DispatchTypeOK
  <2>3. unchecked' = TRUE /\ loopPc' = "ready" /\ cycleInFlight' = FALSE /\ cycle' = "idle"
    BY <1>4 DEF PressureFails
  <2>4. UNCHANGED <<fixedVars, fileVars, drainVars, polls, rejected>>
    BY <1>4 DEF PressureFails
  <2> QED
    BY <2>1, <2>2, <2>3, <2>4
<1>5. CASE Drain
  BY <1>5 DEF Drain
<1>6. CASE ShouldResume
  <2>1. drainPc' = "low" /\ measured' \in 0 .. SoftResume
    BY <1>6 DEF ShouldResume
  <2> QED
    BY <1>6, <2>1 DEF ShouldResume
<1>7. CASE Resume
  <2>1. unchecked' \in BOOLEAN /\ bufferFull' = FALSE /\ drainPc' = "uploading"
    BY <1>7, Zenon DEF Resume
  <2> QED
    BY <1>7, <2>1 DEF Resume
<1>8. CASE SetupRemoves
  <2>1. thrown' \in 0 .. MaxThrown
    BY <1>8 DEF SetupRemoves, Happens
  <2> QED
    BY <1>8, <2>1 DEF SetupRemoves
<1> QED
  BY <1>1, <1>2, <1>3, <1>4, <1>5, <1>6, <1>7, <1>8 DEF QuietStep

\* What the daemon's death leaves behind.
LEMMA DeathFacts ==
  ASSUME DispatchTypeOK, ReadIsCaptured, Dies
  PROVE  /\ polls' = {} /\ UNCHANGED <<fixedVars, written, cursor, bufferFull, measured>>
         /\ cycle' = "idle" /\ cycleInFlight' = FALSE /\ loopPc' = "ready"
         /\ drainPc' = "uploading" /\ unchecked' = TRUE /\ thrown' \in 0 .. MaxThrown
         /\ times' \in [Sources -> [1 .. MaxWritten -> 0 .. 2]] /\ waiting' \in Nat
         /\ \A s \in Sources : \A n \in 1 .. MaxWritten : times'[s][n] >= times[s][n]
         /\ rejected' \in BOOLEAN /\ (~rejected' => ~rejected /\ UNCHANGED fileVars)
<1>1. thrown' \in 0 .. MaxThrown
  BY DEF Dies, Happens, DispatchTypeOK
<1>2. CASE UNCHANGED <<fileVars, rejected>>
  <2>1. /\ times' \in [Sources -> [1 .. MaxWritten -> 0 .. 2]] /\ waiting' \in Nat
        /\ times' = times
    BY <1>2 DEF DispatchTypeOK, fileVars
  <2>2. \A s \in Sources : \A n \in 1 .. MaxWritten : times'[s][n] >= times[s][n]
    <3>1. \A s \in Sources : \A n \in 1 .. MaxWritten : times[s][n] \in 0 .. 2
      BY DEF DispatchTypeOK
    <3> QED
      BY <2>1, <3>1
  <2>3. rejected' \in BOOLEAN /\ (~rejected' => ~rejected /\ UNCHANGED fileVars)
    BY <1>2, Zenon DEF DispatchTypeOK
  <2> QED
    BY <1>1, <1>2, <2>1, <2>2, <2>3 DEF Dies, Settled, fileVars
<1>3. CASE /\ \E p \in polls : /\ p.src \in DirectSources
                              /\ \E to \in p.least .. written[p.src] : Inserts(p, to)
           /\ rejected' = TRUE /\ UNCHANGED <<written, cursor>>
  <2>1. /\ times' \in [Sources -> [1 .. MaxWritten -> 0 .. 2]] /\ waiting' \in Nat
        /\ \A s \in Sources : \A n \in 1 .. MaxWritten : times'[s][n] >= times[s][n]
    BY <1>3, InsertFacts
  <2> QED
    BY <1>1, <1>3, <2>1 DEF Dies, Settled
<1> QED
  BY <1>2, <1>3 DEF Dies

LEMMA DeathType == ASSUME DispatchTypeOK, ReadIsCaptured, Dies PROVE DispatchTypeOK'
  BY DeathFacts DEF DispatchTypeOK, fixedVars

LEMMA BeginType == ASSUME DispatchTypeOK, BeginCycle PROVE DispatchTypeOK'
<1>1. polls' \subseteq PollRecords
  <2>1. Aged(Own) \subseteq PollRecords /\ Orphans \subseteq PollRecords
    BY PollKinds, AgedFacts DEF DispatchTypeOK
  <2> QED
    BY <2>1 DEF BeginCycle
<1> QED
  BY <1>1 DEF BeginCycle, DispatchTypeOK, fixedVars, fileVars, drainVars

\* The polls that begin.
LEMMA GateClearFacts ==
  ASSUME DispatchTypeOK, GateClear
  PROVE  /\ polls' \subseteq PollRecords
         /\ \A q \in polls' \ polls :
              q.age = 0 /\ q.from = cursor[q.src] /\ q.least = written[q.src]
         /\ \A q, r \in polls' \ polls : q.src = r.src => q = r
<1> DEFINE begun(s) == [src |-> s, from |-> cursor[s], least |-> written[s], age |-> 0]
<1>1. polls' = polls \union {begun(s) : s \in Sources}
  BY DEF GateClear
<1>2. \A s \in Sources : /\ begun(s) \in PollRecords /\ begun(s).src = s /\ begun(s).age = 0
                         /\ begun(s).from = cursor[s] /\ begun(s).least = written[s]
  BY DEF DispatchTypeOK, PollRecords
<1> HIDE DEF begun
<1> QED
  BY <1>1, <1>2 DEF DispatchTypeOK

LEMMA GateClearType == ASSUME DispatchTypeOK, GateClear PROVE DispatchTypeOK'
<1>1. polls' \subseteq PollRecords
  BY GateClearFacts
<1> QED
  BY <1>1 DEF GateClear, DispatchTypeOK, fixedVars, fileVars, loopVars, drainVars

LEMMA ReadCursorFacts ==
  ASSUME DispatchTypeOK, NEW p \in polls, ReadCursor(p)
  PROVE  \E q \in PollRecords :
           /\ polls' = (polls \ {p}) \union {q}
           /\ q.src = p.src /\ q.from = cursor[p.src] /\ q.age = p.age
<1>1. p \in PollRecords /\ cursor[p.src] \in 0 .. MaxWritten
  BY PollFields DEF DispatchTypeOK
<1>2. polls' = (polls \ {p}) \union {[p EXCEPT !.from = cursor[p.src]]}
  BY DEF ReadCursor
<1>3. /\ [p EXCEPT !.from = cursor[p.src]] \in PollRecords
      /\ [p EXCEPT !.from = cursor[p.src]].src = p.src
      /\ [p EXCEPT !.from = cursor[p.src]].from = cursor[p.src]
      /\ [p EXCEPT !.from = cursor[p.src]].age = p.age
  BY <1>1 DEF PollRecords
<1> QED
  BY <1>2, <1>3

LEMMA PollStepType ==
  ASSUME DispatchTypeOK, ReadIsCaptured, NEW p \in polls,
         ReadCursor(p) \/ PollEnds(p) \/ PollFails(p) \/ PollRejects(p)
  PROVE  DispatchTypeOK'
<1> USE DEF DispatchTypeOK, fixedVars, fileVars, loopVars, drainVars
<1>1. CASE ReadCursor(p)
  <2>1. polls' \subseteq PollRecords
    BY <1>1, ReadCursorFacts
  <2> QED
    BY <1>1, <2>1 DEF ReadCursor
<1>2. CASE PollEnds(p)
  <2>1. PICK to \in p.least .. written[p.src] : Commits(p, to)
    BY <1>2 DEF PollEnds
  <2>2. /\ times' \in [Sources -> [1 .. MaxWritten -> 0 .. 2]]
        /\ cursor' \in [Sources -> 0 .. MaxWritten] /\ waiting' \in Nat /\ written' = written
    BY <2>1, CommitFacts, InsertFacts
  <2> QED
    BY <1>2, <2>2 DEF PollEnds, Ends
<1>3. ASSUME PollThrows(p) PROVE thrown' \in 0 .. MaxThrown
  BY <1>3 DEF PollThrows, Happens
<1>4. CASE PollFails(p)
  BY <1>3, <1>4 DEF PollFails, Ends
<1>5. CASE PollRejects(p)
  <2>1. /\ times' \in [Sources -> [1 .. MaxWritten -> 0 .. 2]]
        /\ cursor' \in [Sources -> 0 .. MaxWritten] /\ waiting' \in Nat /\ written' = written
    <3>1. CASE UNCHANGED fileVars
      BY <3>1
    <3>2. CASE \E to \in p.least .. written[p.src] : Commits(p, to)
      BY <3>2, CommitFacts, InsertFacts
    <3> QED
      BY <1>5, <3>1, <3>2 DEF PollRejects
  <2>2. thrown' \in 0 .. MaxThrown
    BY <1>3, <1>5 DEF PollRejects
  <2>3. polls' \subseteq PollRecords
    <3>1. Own \ {p} \subseteq polls /\ Orphans \subseteq polls
      BY PollKinds
    <3>2. Others(p) \subseteq PollRecords
      BY <3>1, AgedFacts DEF Others
    <3> QED
      BY <1>5, <3>2 DEF PollRejects
  <2>4. /\ cycle' \in {"idle", "gate", "polling", "closing", "marking"} /\ loopPc' \in {"ready", "awaiting"}
        /\ cycleInFlight' \in BOOLEAN /\ rejected' \in BOOLEAN /\ unchecked' \in BOOLEAN
    BY <1>5 DEF PollRejects, Settled
  <2>5. UNCHANGED <<fixedVars, bufferFull, drainVars>>
    BY <1>5 DEF PollRejects
  <2> QED
    BY <2>1, <2>2, <2>3, <2>4, <2>5
<1> QED
  BY <1>1, <1>2, <1>4, <1>5

-----------------------------------------------------------------------------
(* The one cycle.                                                          *)

LEMMA OwnSame == ASSUME polls' = polls PROVE Own' = Own
  BY DEF Own

LEMMA CycleStep == ASSUME DispatchTypeOK, CycleExact, ReadIsCaptured, DispatchNext PROVE CycleExact'
<1> USE DEF CycleExact
<1>1. CASE QuietStep
  <2>1. Own' = Own
    BY <1>1, QuietFrame, OwnSame
  <2>2. CASE \E s \in Sources : WriteLine(s)
    BY <2>1, <2>2 DEF WriteLine, loopVars
  <2>3. CASE TimeOut \/ FindPressure \/ Drain \/ ShouldResume \/ Resume \/ SetupRemoves
    BY <2>1, <2>3 DEF TimeOut, FindPressure, Drain, ShouldResume, Resume, SetupRemoves, loopVars
  <2>4. CASE GateBlocks \/ CloseCycle \/ MarkFull \/ PressureFails
    BY <2>1, <2>4 DEF GateBlocks, CloseCycle, MarkFull, PressureFails, Settled
  <2> QED
    BY <1>1, <2>2, <2>3, <2>4 DEF QuietStep
<1>2. CASE BeginCycle
  <2>1. polls' = Orphans \union Aged(Own) /\ cycle' = "gate" /\ cycleInFlight' = TRUE
    BY <1>2 DEF BeginCycle
  <2>2. \A q \in polls' : q.age # 0
    BY <2>1, PollKinds, AgedFacts
  <2> QED
    BY <2>1, <2>2 DEF Own
<1>3. CASE GateClear
  BY <1>3 DEF GateClear, loopVars
<1>4. ASSUME NEW p \in polls, ReadCursor(p) PROVE CycleExact'
  <2>1. PICK q \in PollRecords : polls' = (polls \ {p}) \union {q} /\ q.age = p.age
    BY <1>4, ReadCursorFacts
  <2>2. Own = {} => Own' = {}
    BY <2>1 DEF Own
  <2> QED
    BY <1>4, <2>2 DEF ReadCursor, loopVars
<1>5. ASSUME NEW p \in polls, Ends(p), UNCHANGED loopVars PROVE CycleExact'
  <2>1. polls' = polls \ {p} /\ Own' = Own \ {p}
    BY <1>5 DEF Ends, Own
  <2>2. CASE p.age = 0 /\ Own = {p}
    <3>1. cycle = "polling" /\ cycle' = "closing"
      BY <1>5, <2>2 DEF Ends
    <3> QED
      BY <1>5, <2>1, <2>2, <3>1 DEF loopVars
  <2>3. CASE ~(p.age = 0 /\ Own = {p})
    <3>1. cycle' = cycle
      BY <1>5, <2>3 DEF Ends
    <3> QED
      BY <1>5, <2>1, <3>1 DEF loopVars
  <2> QED
    BY <2>2, <2>3
<1>6. ASSUME NEW p \in polls, PollRejects(p) PROVE CycleExact'
  <2>1. CASE p.age = 0
    <3>1. polls' = Others(p) /\ cycle' = "idle" /\ cycleInFlight' = FALSE
      BY <1>6, <2>1 DEF PollRejects, Settled
    <3>2. \A q \in polls' : q.age # 0
      BY <3>1, PollKinds, AgedFacts DEF Others
    <3> QED
      BY <3>1, <3>2 DEF Own
  <2>2. CASE p.age # 0
    <3>1. polls' = polls \ {p} /\ UNCHANGED <<cycle, loopVars>>
      BY <1>6, <2>2 DEF PollRejects
    <3>2. Own' \subseteq Own
      BY <3>1 DEF Own
    <3> QED
      BY <3>1, <3>2 DEF loopVars
  <2> QED
    BY <2>1, <2>2
<1>7. CASE Dies
  BY <1>7, DeathFacts DEF Own
<1> QED
  BY <1>1, <1>2, <1>3, <1>4, <1>5, <1>6, <1>7, StepKinds DEF PollEnds, PollFails

-----------------------------------------------------------------------------
(* What was read is captured.                                              *)

LEMMA ReadStep == ASSUME DispatchTypeOK, ReadIsCaptured, DispatchNext PROVE ReadIsCaptured'
<1>1. CASE QuietStep
  BY <1>1, QuietFrame DEF ReadIsCaptured
<1>2. CASE BeginCycle
  <2>1. UNCHANGED <<cursor, times>> /\ polls' = Orphans \union Aged(Own)
    BY <1>2 DEF BeginCycle, fileVars
  <2>2. \A q \in polls' : \E p \in polls : q.src = p.src /\ q.from = p.from
    BY <2>1, PollKinds, AgedFacts
  <2> QED
    BY <2>1, <2>2 DEF ReadIsCaptured
<1>3. CASE GateClear
  <2>1. UNCHANGED <<cursor, times>>
    BY <1>3 DEF GateClear, fileVars
  <2>2. \A q \in polls' \ polls : q.src \in Sources /\ q.from = cursor[q.src]
    BY <1>3, GateClearFacts DEF PollRecords
  <2> QED
    BY <2>1, <2>2 DEF ReadIsCaptured
<1>4. ASSUME NEW p \in polls, ReadCursor(p) PROVE ReadIsCaptured'
  <2>1. UNCHANGED <<cursor, times>> /\ p.src \in Sources
    BY <1>4, PollFields DEF ReadCursor, fileVars
  <2>2. PICK q : /\ polls' = (polls \ {p}) \union {q}
                 /\ q.src = p.src /\ q.from = cursor[p.src]
    BY <1>4, ReadCursorFacts
  <2> QED
    BY <2>1, <2>2 DEF ReadIsCaptured
<1>5. ASSUME NEW p \in polls, NEW to \in p.least .. written[p.src], Commits(p, to),
             \A q \in polls' : \E r \in polls : q.src = r.src /\ q.from = r.from
      PROVE  ReadIsCaptured'
  <2>1. \A s \in Sources : \A n \in 1 .. MaxWritten :
          times[s][n] \in 0 .. 2 /\ times'[s][n] \in 0 .. 2 /\ times'[s][n] >= times[s][n]
    BY <1>5, CommitFacts, InsertFacts DEF DispatchTypeOK
  <2>2. \A s \in Sources : \A n \in 1 .. MaxWritten : times[s][n] > 0 => times'[s][n] > 0
    BY <2>1
  <2>3. \A q \in polls' : q.src \in Sources
    BY <1>5, PollFields
  <2>4. ASSUME NEW s \in Sources, NEW n \in 1 .. MaxWritten, n <= cursor'[s]
        PROVE  times'[s][n] > 0
    <3>1. CASE s = p.src /\ cursor'[s] = to
      BY <1>5, <2>4, <3>1, CommitFacts, InsertFacts
    <3>2. CASE cursor'[s] = cursor[s]
      BY <2>2, <2>4, <3>2 DEF ReadIsCaptured
    <3> QED
      BY <1>5, <3>1, <3>2, CommitFacts
  <2>5. ASSUME NEW q \in polls', NEW n \in 1 .. MaxWritten, n <= q.from
        PROVE  times'[q.src][n] > 0
    <3>1. times[q.src][n] > 0
      BY <1>5, <2>5 DEF ReadIsCaptured
    <3> QED
      BY <2>2, <2>3, <3>1
  <2> QED
    BY <2>4, <2>5 DEF ReadIsCaptured
<1>6. ASSUME UNCHANGED fileVars,
             \A q \in polls' : \E r \in polls : q.src = r.src /\ q.from = r.from
      PROVE  ReadIsCaptured'
  BY <1>6 DEF ReadIsCaptured, fileVars
<1>7. ASSUME NEW p \in polls, PollEnds(p) \/ PollFails(p) \/ PollRejects(p)
      PROVE  \A q \in polls' : \E r \in polls : q.src = r.src /\ q.from = r.from
  <2>1. CASE polls' = polls \ {p}
    BY <2>1
  <2>2. CASE polls' = Orphans \union Aged(Own \ {p})
    BY <2>2, PollKinds, AgedFacts
  <2> QED
    BY <1>7, <2>1, <2>2 DEF PollEnds, PollFails, PollRejects, Ends, Others
<1>8. CASE Dies
  <2>1. /\ times' \in [Sources -> [1 .. MaxWritten -> 0 .. 2]]
        /\ \A s \in Sources : \A n \in 1 .. MaxWritten : times'[s][n] >= times[s][n]
    BY <1>8, DeathFacts
  <2>2. ASSUME NEW s \in Sources, NEW n \in 1 .. MaxWritten, times[s][n] > 0
        PROVE  times'[s][n] > 0
    <3>1. times[s][n] \in 0 .. 2
      BY DEF DispatchTypeOK
    <3>2. times'[s][n] \in 0 .. 2 /\ times'[s][n] >= times[s][n]
      BY <2>1
    <3> QED
      BY <2>2, <3>1, <3>2
  <2>3. cursor' = cursor /\ polls' = {}
    BY <1>8, DeathFacts
  <2> QED
    BY <2>2, <2>3 DEF ReadIsCaptured
<1> QED
  BY <1>1, <1>2, <1>3, <1>4, <1>5, <1>6, <1>7, <1>8, StepKinds
     DEF PollEnds, PollFails, PollRejects

-----------------------------------------------------------------------------
(* Once, as long as no cycle is rejected.                                  *)

LEMMA OnceStep ==
  ASSUME DispatchTypeOK, CycleExact, ReadIsCaptured, OnceSoFar, DispatchNext
  PROVE  OnceSoFar'
<1> SUFFICES ASSUME ~rejected' PROVE OnceSoFar'
  BY DEF OnceSoFar
<1>1. CASE QuietStep
  <2>1. UNCHANGED <<cursor, times, polls, rejected>>
    BY <1>1, QuietFrame
  <2>2. \A s \in Sources : written[s] \in Nat /\ written'[s] \in Nat /\ written'[s] >= written[s]
    <3>1. CASE \E s \in Sources : WriteLine(s)
      BY <3>1 DEF WriteLine, DispatchTypeOK
    <3>2. CASE written' = written
      BY <3>2 DEF DispatchTypeOK
    <3> QED
      BY <1>1, <3>1, <3>2 DEF QuietStep, TimeOut, GateBlocks, CloseCycle, FindPressure, MarkFull,
           PressureFails, Drain, ShouldResume, Resume, SetupRemoves, fileVars
  <2>3. \A s \in Sources : cursor[s] \in Nat
    BY DEF DispatchTypeOK
  <2> QED
    BY <2>1, <2>2, <2>3 DEF OnceSoFar
<1>2. ASSUME ~rejected, Own = {} PROVE polls = {}
  BY <1>2 DEF OnceSoFar, Own
<1>3. ASSUME ~rejected, UNCHANGED fileVars, polls' \subseteq polls PROVE OnceSoFar'
  BY <1>3 DEF OnceSoFar, fileVars
<1>4. CASE BeginCycle
  <2>1. ~rejected /\ Own = {}
    BY <1>4 DEF BeginCycle, MayStart, CycleExact
  <2>2. polls = {} /\ Orphans = {} /\ Aged(Own) = {}
    BY <1>2, <2>1 DEF Orphans, Aged
  <2> QED
    BY <1>3, <1>4, <2>1, <2>2 DEF BeginCycle
<1>5. CASE GateClear
  <2>1. ~rejected /\ UNCHANGED fileVars /\ Own = {}
    BY <1>5 DEF GateClear, CycleExact
  <2>2. polls = {}
    BY <1>2, <2>1
  <2>3. /\ \A q \in polls' : /\ q \in PollRecords /\ q.age = 0
                             /\ q.from = cursor[q.src] /\ q.least = written[q.src]
        /\ \A q, r \in polls' : q.src = r.src => q = r
    BY <1>5, <2>2, GateClearFacts
  <2> QED
    BY <2>1, <2>3 DEF OnceSoFar, fileVars, PollRecords
<1>6. ASSUME NEW p \in polls, ReadCursor(p) PROVE FALSE
  BY <1>6 DEF ReadCursor, OnceSoFar
<1>7. ASSUME NEW p \in polls, PollFails(p) PROVE OnceSoFar'
  BY <1>3, <1>7 DEF PollFails, Ends
<1>8. ASSUME NEW p \in polls, PollRejects(p) PROVE FALSE
  BY <1>8 DEF PollRejects, OnceSoFar
<1>9. ASSUME NEW p \in polls, PollEnds(p) PROVE OnceSoFar'
  <2>1. ~rejected /\ polls' = polls \ {p} /\ p.src \in Sources
    BY <1>9, PollFields DEF PollEnds, Ends
  <2>2. /\ p.from = cursor[p.src] /\ p.from <= p.least
        /\ \A q \in polls' : q.src # p.src
    BY <2>1 DEF OnceSoFar
  <2>3. PICK to \in p.least .. written[p.src] : Commits(p, to)
    BY <1>9 DEF PollEnds
  <2>4. p.from \in Nat /\ p.least \in Nat /\ written[p.src] \in Nat /\ to \in Nat
    BY <2>3, PollFields DEF DispatchTypeOK
  <2>5. times[p.src] \in [1 .. MaxWritten -> 0 .. 2]
    BY <2>1 DEF DispatchTypeOK
  <2>6. /\ written' = written /\ cursor'[p.src] = to
        /\ \A s \in Sources \ {p.src} : times'[s] = times[s] /\ cursor'[s] = cursor[s]
    BY <2>1, <2>2, <2>3, <2>4 DEF Commits, Inserts, DispatchTypeOK
  <2>7. \A n \in 1 .. MaxWritten :
          times'[p.src][n] = IF n > p.from /\ n <= to /\ times[p.src][n] < 2
                             THEN times[p.src][n] + 1 ELSE times[p.src][n]
    BY <2>1, <2>3, <2>5 DEF Commits, Inserts, DispatchTypeOK
  <2>8. \A n \in 1 .. MaxWritten : times'[p.src][n] = IF n <= to THEN 1 ELSE 0
    <3>1. \A n \in 1 .. MaxWritten : times[p.src][n] = IF n <= p.from THEN 1 ELSE 0
      BY <2>1, <2>2 DEF OnceSoFar
    <3> QED
      BY <2>2, <2>4, <2>7, <3>1
  <2>9. /\ \A q \in polls' : q.age = 0 /\ q.from = cursor'[q.src] /\ q.from <= q.least
        /\ \A q, r \in polls' : q.src = r.src => q = r
    <3>1. \A q \in polls' : q.src \in Sources \ {p.src}
      BY <2>1, <2>2, PollFields
    <3> QED
      BY <2>1, <2>6, <3>1 DEF OnceSoFar
  <2>10. \A s \in Sources : cursor'[s] <= written'[s]
    BY <2>1, <2>4, <2>6 DEF OnceSoFar
  <2>11. \A s \in Sources : \A n \in 1 .. MaxWritten :
           times'[s][n] = IF n <= cursor'[s] THEN 1 ELSE 0
    BY <2>1, <2>6, <2>8 DEF OnceSoFar
  <2> QED
    BY <2>9, <2>10, <2>11 DEF OnceSoFar
<1>10. CASE Dies
  BY <1>3, <1>10, DeathFacts
<1> QED
  BY <1>1, <1>4, <1>5, <1>6, <1>7, <1>8, <1>9, <1>10, StepKinds

-----------------------------------------------------------------------------
(* The pressure.                                                           *)

LEMMA MeasuredStep ==
  ASSUME DispatchTypeOK, ReadIsCaptured, PressureKnown, DispatchNext
  PROVE  drainPc' = "low" => measured' < SoftResume
<1>1. CASE ShouldResume
  BY <1>1 DEF ShouldResume
<1>2. CASE Resume
  BY <1>2 DEF Resume
<1>3. CASE Dies
  BY <1>3, DeathFacts
<1>4. CASE UNCHANGED drainVars
  BY <1>4 DEF drainVars, PressureKnown
<1> QED
  BY <1>1, <1>2, <1>3, <1>4 DEF DispatchNext, WriteLine, BeginCycle, TimeOut, GateBlocks,
       GateClear, CloseCycle, FindPressure, MarkFull, PressureFails, ReadCursor, PollEnds,
       PollFails, PollRejects, Drain, SetupRemoves

LEMMA PressureStep ==
  ASSUME DispatchTypeOK, CycleExact, ReadIsCaptured, PressureKnown, DispatchNext
  PROVE  PressureKnown'
<1> SUFFICES ASSUME ~unchecked', cycle' \in {"idle", "gate"}
             PROVE  polls' = {} /\ (bufferFull' \/ waiting' <= SoftPause)
  BY MeasuredStep DEF PressureKnown
<1> DEFINE known == polls = {} /\ (bufferFull \/ waiting <= SoftPause)
<1>1. ~unchecked /\ cycle \in {"idle", "gate"} => known
  BY DEF PressureKnown
<1>2. ASSUME UNCHANGED <<unchecked, cycle, polls, bufferFull, waiting>>
      PROVE  polls' = {} /\ (bufferFull' \/ waiting' <= SoftPause)
  BY <1>1, <1>2
<1>3. CASE (\E s \in Sources : WriteLine(s)) \/ TimeOut \/ ShouldResume
  BY <1>2, <1>3 DEF WriteLine, TimeOut, ShouldResume, fileVars
<1>4. CASE GateBlocks
  BY <1>1, <1>4 DEF GateBlocks
<1>5. CASE CloseCycle \/ MarkFull
  <2>1. Orphans = {} /\ Own = {}
    BY <1>5 DEF CloseCycle, MarkFull, CycleExact
  <2>2. polls = {} /\ polls' = polls /\ waiting' = waiting
    BY <1>5, <2>1, PollKinds DEF CloseCycle, MarkFull, fileVars
  <2>3. bufferFull' = TRUE \/ ~(waiting > SoftPause)
    BY <1>5 DEF CloseCycle, MarkFull, ShouldPause
  <2>4. waiting > SoftPause \/ waiting <= SoftPause
    BY DEF DispatchTypeOK
  <2> QED
    BY <2>2, <2>3, <2>4
<1>6. ~PressureFails /\ ~FindPressure /\ ~SetupRemoves /\ ~Dies /\ ~GateClear
  BY DEF PressureFails, FindPressure, SetupRemoves, Dies, GateClear
<1>7. CASE Drain
  <2>1. UNCHANGED <<unchecked, cycle, polls, bufferFull>> /\ waiting' = waiting - 1
    BY <1>7 DEF Drain
  <2>2. waiting \in Nat
    BY DEF DispatchTypeOK
  <2> QED
    BY <1>1, <2>1, <2>2
<1>8. CASE Resume
  <2>1. UNCHANGED <<cycle, polls, waiting>> /\ drainPc = "low"
    BY <1>8 DEF Resume, fileVars
  <2>2. ~unchecked /\ ~(bufferFull /\ Overtaken)
    BY <1>8, Zenon DEF Resume
  <2>3. measured < SoftResume /\ waiting \in Nat /\ measured \in Nat
    BY <2>1 DEF PressureKnown, DispatchTypeOK
  <2>4. CASE bufferFull
    <3>1. waiting <= SoftPause
      BY <2>2, <2>3, <2>4 DEF Overtaken
    <3> QED
      BY <1>1, <2>1, <2>2, <3>1
  <2>5. CASE ~bufferFull
    BY <1>1, <2>1, <2>2, <2>5
  <2> QED
    BY <2>4, <2>5
<1>9. CASE BeginCycle
  <2>1. cycle = "idle" /\ UNCHANGED <<unchecked, bufferFull, waiting>>
    BY <1>9 DEF BeginCycle, MayStart, CycleExact, fileVars
  <2>2. known /\ polls' = Orphans \union Aged(Own)
    BY <1>1, <1>9, <2>1 DEF BeginCycle
  <2>3. Orphans = {} /\ Own = {} /\ Aged(Own) = {}
    BY <2>2 DEF Orphans, Own, Aged
  <2> QED
    BY <2>1, <2>2, <2>3
<1>10. ASSUME NEW p \in polls, ReadCursor(p) \/ PollEnds(p) \/ PollFails(p) \/ PollRejects(p)
       PROVE  FALSE
  <2>1. unchecked' = unchecked /\ cycle' = cycle
    BY <1>10 DEF ReadCursor, PollEnds, PollFails, PollRejects, Ends
  <2> QED
    BY <1>1, <2>1
<1> QED
  BY <1>3, <1>4, <1>5, <1>6, <1>7, <1>8, <1>9, <1>10, StepKinds DEF QuietStep

-----------------------------------------------------------------------------
LEMMA DispatchInitially == DispatchInit => DispatchInv
<1> SUFFICES ASSUME DispatchInit PROVE DispatchInv
  OBVIOUS
<1> USE DEF DispatchInit
<1>1. DispatchTypeOK
  <2>1. /\ written \in [Sources -> 0 .. MaxWritten] /\ cursor \in [Sources -> 0 .. MaxWritten]
        /\ times \in [Sources -> [1 .. MaxWritten -> 0 .. 2]]
        /\ polls \subseteq PollRecords /\ waiting \in Nat /\ thrown \in 0 .. MaxThrown
    OBVIOUS
  <2>2. /\ cycle \in {"idle", "gate", "polling", "closing", "marking"} /\ loopPc \in {"ready", "awaiting"}
        /\ compiled \in BOOLEAN /\ broken \subseteq Sources
    OBVIOUS
  <2>3. /\ cycleInFlight \in BOOLEAN /\ bufferFull \in BOOLEAN /\ rejected \in BOOLEAN
        /\ unchecked \in BOOLEAN /\ drainPc \in {"uploading", "low"}
    OBVIOUS
  <2>4. measured \in 0 .. SoftResume
    OBVIOUS
  <2> QED
    BY <2>1, <2>2, <2>3, <2>4 DEF DispatchTypeOK
<1>2. CycleExact /\ ReadIsCaptured
  BY DEF CycleExact, Own, ReadIsCaptured
<1>3. OnceSoFar
  BY DEF OnceSoFar
<1>4. PressureKnown
  BY DEF PressureKnown
<1> QED
  BY <1>1, <1>2, <1>3, <1>4 DEF DispatchInv

LEMMA DispatchStep == DispatchInv /\ [DispatchNext]_dispatchVars => DispatchInv'
<1> SUFFICES ASSUME DispatchInv, [DispatchNext]_dispatchVars PROVE DispatchInv'
  OBVIOUS
<1>1. CASE DispatchNext
  <2>1. DispatchTypeOK'
    BY <1>1, BeginType, GateClearType, PollStepType, QuietType, DeathType, StepKinds
       DEF DispatchInv
  <2> QED
    BY <1>1, <2>1, CycleStep, ReadStep, OnceStep, PressureStep DEF DispatchInv
<1>2. CASE UNCHANGED dispatchVars
  BY <1>2 DEF dispatchVars, DispatchInv, DispatchTypeOK, CycleExact, Own, ReadIsCaptured,
              OnceSoFar, PressureKnown
<1> QED
  BY <1>1, <1>2

\* The cursors, the captures, the polls of the cycles and the pressure sentinel keep together,
\* whatever is rejected, dies, times out or commits late, between any two steps of the drain
\* (runCaptureCycle, captureLoop, applyResumeSentinel).
THEOREM DispatchInvariant == DispatchSpec => []DispatchInv
  BY DispatchInitially, DispatchStep, PTL DEF DispatchSpec

\* The types of the capture cycle's variables: no line is counted past two captures and
\* no cursor passes the lines there can be.
THEOREM DispatchTypes == DispatchSpec => []DispatchTypeOK
<1>1. DispatchInv => DispatchTypeOK
  BY DEF DispatchInv
<1> QED
  BY <1>1, DispatchInvariant, PTL

\* Nothing below a source's cursor is left out of the captures, even when a cycle is rejected
\* and its polls commit in the next one; and until a cycle is rejected nothing is captured
\* twice, also when cycles outlast the loop's timeout.
THEOREM LinesCapturedOnce == DispatchSpec => []CapturedOnce
<1>1. DispatchInv => CapturedOnce
  <2> SUFFICES ASSUME DispatchInv PROVE CapturedOnce
    OBVIOUS
  <2>1. \A s \in Sources : \A n \in 1 .. MaxWritten : n <= cursor[s] => times[s][n] > 0
    BY DEF DispatchInv, ReadIsCaptured
  <2>2. ASSUME ~rejected, NEW s \in Sources, NEW n \in 1 .. MaxWritten
        PROVE  times[s][n] <= 1
    <3>1. times[s][n] = IF n <= cursor[s] THEN 1 ELSE 0
      BY <2>2 DEF DispatchInv, OnceSoFar
    <3> QED
      BY <3>1
  <2> QED
    BY <2>1, <2>2 DEF CapturedOnce
<1> QED
  BY <1>1, DispatchInvariant, PTL

\* Polling begins over the soft limit only after a check of the pressure that failed or was
\* left out, or after the sentinel was removed by a setup or by a measurement that captures
\* had overtaken (runCaptureCycle's gate, applyPressureSentinel and applyResumeSentinel).
THEOREM PressureIsHeld == DispatchSpec => PressureHolds
<1>1. ASSUME DispatchInv, [DispatchNext]_dispatchVars
      PROVE  [cycle = "gate" /\ cycle' = "polling" => waiting <= SoftPause \/ unchecked]_dispatchVars
  <2> SUFFICES ASSUME DispatchNext, cycle = "gate", cycle' = "polling", ~unchecked
               PROVE  waiting <= SoftPause
    BY <1>1
  <2>1. DispatchTypeOK /\ (bufferFull \/ waiting <= SoftPause) /\ polls = {}
    BY <1>1 DEF DispatchInv, PressureKnown
  <2>2. CASE GateClear
    BY <2>1, <2>2 DEF GateClear
  <2>3. ~QuietStep
    BY DEF QuietStep, WriteLine, TimeOut, GateBlocks, CloseCycle, FindPressure, MarkFull,
           PressureFails, Drain, ShouldResume, Resume, SetupRemoves, Settled
  <2>4. ~BeginCycle /\ ~Dies
    BY DEF BeginCycle, Dies, Settled
  <2> QED
    BY <2>1, <2>2, <2>3, <2>4, StepKinds
<1> QED
  BY <1>1, DispatchInvariant, PTL DEF DispatchSpec, PressureHolds

-----------------------------------------------------------------------------
(* The watcher of the sentinel files.  A reading that finds a file gone    *)
(* reports nothing, so what the registry says of a file that is not there  *)
(* has to be known also while the file is being read.                      *)

USE DEF noticeVars, watcherVars

\* No change of this file is still to be looked at.
Noticed(k) == k \notin toRead \union notices \union pending \union missed

RegistryKnows ==
  watching # "stopped" =>
    \A k \in Sentinels :
      Noticed(k) => /\ file[k] = "absent" => registry[k] \notin Payloads
                    /\ readers[k] = 0 /\ file[k] \in Payloads => registry[k] \in Payloads

WatcherInv == WatcherTypeOK /\ RegistryKnows

LEMMA WatcherStart == WatcherInit => WatcherInv
<1> SUFFICES ASSUME WatcherInit PROVE WatcherInv
  OBVIOUS
<1>1. Initially \in [Sentinels -> Regions]
  BY DEF Initially, Regions
<1>2. changed \in 0 .. MaxChanged
  BY WatcherAssumption DEF WatcherInit
<1>3. WatcherTypeOK
  BY <1>1, <1>2 DEF WatcherInit, WatcherTypeOK, Contents
<1>4. RegistryKnows
  BY DEF WatcherInit, RegistryKnows, Noticed
<1> QED
  BY <1>3, <1>4 DEF WatcherInv

\* What a region becomes, and what it does not.
LEMMA TakesRegion ==
  ASSUME WatcherTypeOK, NEW k \in Sentinels, NEW c \in Payloads \union {"absent"}, Takes(k, c)
  PROVE  /\ registry' \in [Sentinels -> Regions]
         /\ \A j \in Sentinels : j # k => registry'[j] = registry[j]
         /\ watching # "stopped" => (registry'[k] \in Payloads <=> c \in Payloads)
<1>1. c \in Regions /\ "absent" \in Regions /\ "absent" \notin Payloads
  BY WatcherAssumption DEF Regions
<1> QED
  BY <1>1 DEF Takes, WatcherTypeOK

\* A look at a file reports that it is gone, or begins to read it.
LEMMA LookKnows ==
  ASSUME WatcherInv, NEW k \in Sentinels, Look(k), UNCHANGED <<file, watching, missed>>,
         toRead' \in {toRead, toRead \ {k}}, pending' \in {pending, pending \ {k}},
         UNCHANGED notices
  PROVE  /\ registry' \in [Sentinels -> Regions] /\ readers' \in [Sentinels -> Nat]
         /\ RegistryKnows'
<1> USE DEF WatcherInv
<1>1. CASE file[k] = "absent"
  <2>1. Takes(k, "absent") /\ readers' = readers /\ "absent" \notin Payloads
    BY <1>1, WatcherAssumption DEF Look
  <2>2. /\ registry' \in [Sentinels -> Regions]
        /\ \A j \in Sentinels : j # k => registry'[j] = registry[j]
        /\ watching # "stopped" => registry'[k] \notin Payloads
    BY <2>1, TakesRegion
  <2> QED
    BY <1>1, <2>1, <2>2 DEF RegistryKnows, Noticed, WatcherTypeOK
<1>2. CASE file[k] # "absent"
  <2>1. registry' = registry /\ readers' = [readers EXCEPT ![k] = @ + 1]
    BY <1>2 DEF Look
  <2>2. readers' \in [Sentinels -> Nat] /\ readers'[k] # 0
        /\ \A j \in Sentinels : j # k => readers'[j] = readers[j]
    BY <2>1 DEF WatcherTypeOK
  <2> QED
    BY <1>2, <2>1, <2>2 DEF RegistryKnows, Noticed, WatcherTypeOK
<1> QED
  BY <1>1, <1>2

LEMMA WatcherStep == WatcherInv /\ [WatcherNext]_watcherVars => WatcherInv'
<1> SUFFICES ASSUME WatcherInv, [WatcherNext]_watcherVars PROVE WatcherInv'
  OBVIOUS
<1> USE DEF WatcherInv
<1>1. ASSUME NEW k \in Sentinels, Change(k) PROVE WatcherInv'
  <2>1. changed' \in 0 .. MaxChanged
    BY <1>1, WatcherAssumption DEF Change, WatcherTypeOK
  <2>2. file' \in [Sentinels -> Contents] /\ \A j \in Sentinels : j # k => file'[j] = file[j]
    BY <1>1 DEF Change, WatcherTypeOK
  <2>3. notices' \subseteq Sentinels /\ missed' \subseteq Sentinels
    BY <1>1 DEF Change, WatcherTypeOK
  <2>4. WatcherTypeOK'
    BY <1>1, <2>1, <2>2, <2>3 DEF Change, WatcherTypeOK
  <2>5. watching # "stopped" => ~Noticed(k)'
    BY <1>1 DEF Change, Noticed, WatcherTypeOK
  <2>6. \A j \in Sentinels : j # k /\ Noticed(j)' => Noticed(j)
    BY <1>1 DEF Change, Noticed
  <2>7. RegistryKnows'
    BY <1>1, <2>2, <2>5, <2>6 DEF Change, RegistryKnows
  <2> QED
    BY <2>4, <2>7
<1>2. ASSUME NEW k \in Sentinels, FirstLook(k) PROVE WatcherInv'
  BY <1>2, LookKnows DEF FirstLook, WatcherTypeOK
<1>3. ASSUME NEW k \in Sentinels, ReadPayload(k) PROVE WatcherInv'
  <2>1. readers' \in [Sentinels -> Nat] /\ \A j \in Sentinels : j # k => readers'[j] = readers[j]
    BY <1>3 DEF ReadPayload, WatcherTypeOK
  <2>2. /\ registry' \in [Sentinels -> Regions]
        /\ \A j \in Sentinels : j # k => registry'[j] = registry[j]
        /\ watching # "stopped" /\ file[k] \in Payloads => registry'[k] \in Payloads
        /\ file[k] \notin Payloads => registry' = registry
    BY <1>3, TakesRegion DEF ReadPayload, WatcherTypeOK
  <2>3. WatcherTypeOK'
    BY <1>3, <2>1, <2>2 DEF ReadPayload, WatcherTypeOK
  <2>4. "absent" \notin Payloads
    BY WatcherAssumption
  <2>5. RegistryKnows'
    BY <1>3, <2>1, <2>2, <2>4 DEF ReadPayload, RegistryKnows, Noticed
  <2> QED
    BY <2>3, <2>5
<1>4. ASSUME NEW k \in Sentinels, Notice(k) PROVE WatcherInv'
  BY <1>4 DEF Notice, WatcherTypeOK, RegistryKnows, Noticed
<1>5. ASSUME NEW k \in Sentinels, TimerFires(k) PROVE WatcherInv'
  BY <1>5, LookKnows DEF TimerFires, WatcherTypeOK
<1>6. CASE BeginWatch
  BY <1>6 DEF BeginWatch, WatcherTypeOK, RegistryKnows, Noticed
<1>7. CASE WatchDies
  BY <1>7 DEF WatchDies, WatcherTypeOK, RegistryKnows, Noticed
<1>8. CASE FlushSnapshots
  BY <1>8 DEF FlushSnapshots, WatcherTypeOK, RegistryKnows, Noticed
<1>9. CASE StopActors
  BY <1>9 DEF StopActors, WatcherTypeOK, RegistryKnows
<1>10. CASE UNCHANGED watcherVars
  BY <1>10 DEF WatcherTypeOK, RegistryKnows, Noticed
<1> QED
  BY <1>1, <1>2, <1>3, <1>4, <1>5, <1>6, <1>7, <1>8, <1>9, <1>10 DEF WatcherNext

\* The watcher's variables keep to their types, and the registry knows of a file what
\* was told of it, whatever changes while it is read.
THEOREM WatcherInvariant == WatcherSpec => []WatcherInv
<1> QED
  BY WatcherStart, WatcherStep, PTL DEF WatcherSpec

\* For any number of files, payloads and changes, once nothing is under way the registry
\* shows for each file whether it is there.
THEOREM RegistryFollowsFiles == WatcherSpec => []RegistryMirrors
<1>1. WatcherInv => RegistryMirrors
  <2> SUFFICES ASSUME WatcherInv, watching \in {"yes", "died"}, NEW k \in Sentinels,
                      Quiet(k), k \notin missed, file[k] # "broken"
               PROVE  registry[k] \in Payloads <=> file[k] \in Payloads
    BY DEF RegistryMirrors
  <2>1. Noticed(k) /\ readers[k] = 0
    BY DEF Noticed, Quiet
  <2>2. file[k] = "absent" \/ file[k] \in Payloads
    BY DEF WatcherInv, WatcherTypeOK, Contents
  <2>3. "absent" \notin Payloads
    BY WatcherAssumption
  <2> QED
    BY <2>1, <2>2, <2>3 DEF WatcherInv, RegistryKnows
<1> QED
  BY <1>1, WatcherInvariant, PTL

-----------------------------------------------------------------------------
(* The machines beside the code.  MachinesFollow follows from ShadowInv,   *)
(* which says for each place of the code which states go with it.          *)

\* The links of a chain of n of them.
LEMMA ChainIs ==
  ASSUME NEW s, NEW n \in Nat, Len(s) = 2 * n + 1
  PROVE  Chain(s) = {<<s[2 * k - 1], s[2 * k], s[2 * k + 1]>> : k \in 1 .. n}
PROOF
  <1>1. Len(s) \div 2 = n
    OBVIOUS
  <1>2. \A k \in 1 .. n : (2 * k - 1) + 1 = 2 * k /\ (2 * k - 1) + 2 = 2 * k + 1
    OBVIOUS
  <1> QED BY <1>1, <1>2 DEF Chain

\* The chains of one to eight links that the machines and their code are made of.
LEMMA Chain1 ==
  ASSUME NEW a, NEW b, NEW c
  PROVE  Chain(<<a, b, c>>) = {<<a, b, c>>}
PROOF
  <1> DEFINE z == <<a, b, c>>
             w == 1
  <1>1. Len(z) = 2 * w + 1 /\ w \in Nat
    OBVIOUS
  <1>2. Chain(z) = {<<z[2 * y - 1], z[2 * y], z[2 * y + 1]>> : y \in 1 .. w}
    <2> HIDE DEF z, w
    <2> QED BY <1>1, ChainIs
  <1>3. 1 .. w = {1}
    OBVIOUS
  <1> QED BY <1>2, <1>3

LEMMA Chain2 ==
  ASSUME NEW a, NEW b, NEW c, NEW d, NEW e
  PROVE  Chain(<<a, b, c, d, e>>) = {<<a, b, c>>, <<c, d, e>>}
PROOF
  <1> DEFINE z == <<a, b, c, d, e>>
             w == 2
  <1>1. Len(z) = 2 * w + 1 /\ w \in Nat
    OBVIOUS
  <1>2. Chain(z) = {<<z[2 * y - 1], z[2 * y], z[2 * y + 1]>> : y \in 1 .. w}
    <2> HIDE DEF z, w
    <2> QED BY <1>1, ChainIs
  <1>3. 1 .. w = {1, 2}
    OBVIOUS
  <1> QED BY <1>2, <1>3

LEMMA Chain3 ==
  ASSUME NEW a, NEW b, NEW c, NEW d, NEW e, NEW f, NEW g
  PROVE  Chain(<<a, b, c, d, e, f, g>>) = {<<a, b, c>>, <<c, d, e>>, <<e, f, g>>}
PROOF
  <1> DEFINE z == <<a, b, c, d, e, f, g>>
             w == 3
  <1>1. Len(z) = 2 * w + 1 /\ w \in Nat
    OBVIOUS
  <1>2. Chain(z) = {<<z[2 * y - 1], z[2 * y], z[2 * y + 1]>> : y \in 1 .. w}
    <2> HIDE DEF z, w
    <2> QED BY <1>1, ChainIs
  <1>3. 1 .. w = {1, 2, 3}
    OBVIOUS
  <1> QED BY <1>2, <1>3

LEMMA Chain4 ==
  ASSUME NEW a, NEW b, NEW c, NEW d, NEW e, NEW f, NEW g, NEW h, NEW i
  PROVE  Chain(<<a, b, c, d, e, f, g, h, i>>) = {<<a, b, c>>, <<c, d, e>>, <<e, f, g>>, <<g, h, i>>}
PROOF
  <1> DEFINE z == <<a, b, c, d, e, f, g, h, i>>
             w == 4
  <1>1. Len(z) = 2 * w + 1 /\ w \in Nat
    OBVIOUS
  <1>2. Chain(z) = {<<z[2 * y - 1], z[2 * y], z[2 * y + 1]>> : y \in 1 .. w}
    <2> HIDE DEF z, w
    <2> QED BY <1>1, ChainIs
  <1>3. 1 .. w = {1, 2, 3, 4}
    OBVIOUS
  <1> QED BY <1>2, <1>3

LEMMA Chain5 ==
  ASSUME NEW a, NEW b, NEW c, NEW d, NEW e, NEW f, NEW g, NEW h, NEW i, NEW j, NEW k
  PROVE  Chain(<<a, b, c, d, e, f, g, h, i, j, k>>) = {<<a, b, c>>, <<c, d, e>>, <<e, f, g>>, <<g, h, i>>, <<i, j, k>>}
PROOF
  <1> DEFINE z == <<a, b, c, d, e, f, g, h, i, j, k>>
             w == 5
  <1>1. Len(z) = 2 * w + 1 /\ w \in Nat
    OBVIOUS
  <1>2. Chain(z) = {<<z[2 * y - 1], z[2 * y], z[2 * y + 1]>> : y \in 1 .. w}
    <2> HIDE DEF z, w
    <2> QED BY <1>1, ChainIs
  <1>3. 1 .. w = {1, 2, 3, 4, 5}
    OBVIOUS
  <1> QED BY <1>2, <1>3

LEMMA Chain6 ==
  ASSUME NEW a, NEW b, NEW c, NEW d, NEW e, NEW f, NEW g, NEW h, NEW i, NEW j, NEW k, NEW l, NEW m
  PROVE  Chain(<<a, b, c, d, e, f, g, h, i, j, k, l, m>>) = {<<a, b, c>>, <<c, d, e>>, <<e, f, g>>, <<g, h, i>>, <<i, j, k>>, <<k, l, m>>}
PROOF
  <1> DEFINE z == <<a, b, c, d, e, f, g, h, i, j, k, l, m>>
             w == 6
  <1>1. Len(z) = 2 * w + 1 /\ w \in Nat
    OBVIOUS
  <1>2. Chain(z) = {<<z[2 * y - 1], z[2 * y], z[2 * y + 1]>> : y \in 1 .. w}
    <2> HIDE DEF z, w
    <2> QED BY <1>1, ChainIs
  <1>3. 1 .. w = {1, 2, 3, 4, 5, 6}
    OBVIOUS
  <1> QED BY <1>2, <1>3

LEMMA Chain7 ==
  ASSUME NEW a, NEW b, NEW c, NEW d, NEW e, NEW f, NEW g, NEW h, NEW i, NEW j, NEW k, NEW l, NEW m, NEW n, NEW o
  PROVE  Chain(<<a, b, c, d, e, f, g, h, i, j, k, l, m, n, o>>) = {<<a, b, c>>, <<c, d, e>>, <<e, f, g>>, <<g, h, i>>, <<i, j, k>>, <<k, l, m>>, <<m, n, o>>}
PROOF
  <1> DEFINE z == <<a, b, c, d, e, f, g, h, i, j, k, l, m, n, o>>
             w == 7
  <1>1. Len(z) = 2 * w + 1 /\ w \in Nat
    OBVIOUS
  <1>2. Chain(z) = {<<z[2 * y - 1], z[2 * y], z[2 * y + 1]>> : y \in 1 .. w}
    <2> HIDE DEF z, w
    <2> QED BY <1>1, ChainIs
  <1>3. 1 .. w = {1, 2, 3, 4, 5, 6, 7}
    OBVIOUS
  <1> QED BY <1>2, <1>3

LEMMA Chain8 ==
  ASSUME NEW a, NEW b, NEW c, NEW d, NEW e, NEW f, NEW g, NEW h, NEW i, NEW j, NEW k, NEW l, NEW m, NEW n, NEW o, NEW p, NEW q
  PROVE  Chain(<<a, b, c, d, e, f, g, h, i, j, k, l, m, n, o, p, q>>) = {<<a, b, c>>, <<c, d, e>>, <<e, f, g>>, <<g, h, i>>, <<i, j, k>>, <<k, l, m>>, <<m, n, o>>, <<o, p, q>>}
PROOF
  <1> DEFINE z == <<a, b, c, d, e, f, g, h, i, j, k, l, m, n, o, p, q>>
             w == 8
  <1>1. Len(z) = 2 * w + 1 /\ w \in Nat
    OBVIOUS
  <1>2. Chain(z) = {<<z[2 * y - 1], z[2 * y], z[2 * y + 1]>> : y \in 1 .. w}
    <2> HIDE DEF z, w
    <2> QED BY <1>1, ChainIs
  <1>3. 1 .. w = {1, 2, 3, 4, 5, 6, 7, 8}
    OBVIOUS
  <1> QED BY <1>2, <1>3

-----------------------------------------------------------------------------
\* The code may go on at place p with its machine in state s; nothing follows a throw.
Along(beside, rest, p, s) ==
    p = "rejected" \/ (<<p, s>> \in beside /\ (p = "returned" => s \in rest))

\* What the machine does with the event of a code step that it is sent in state s.
FollowsAt(machine, beside, rest, step, s) ==
    IF step[2] = "none" THEN Along(beside, rest, step[3], s)
    ELSE /\ \A t \in machine : t[1] = s /\ t[2] = step[2] => Along(beside, rest, step[3], t[3])
         /\ \/ \E t \in machine : t[1] = s /\ t[2] = step[2]
            \/ <<s, step[2]>> \in KnownDrops /\ <<step[3], s>> \in beside

\* From every state the machine may be in beside a place of the code, it follows every
\* step of the code from there, or ignores an event that it is known to ignore.
Follows(machine, code, beside, rest) ==
    \A step \in code :
       step[1] # "rejected" /\ \A s : <<step[1], s>> \in beside => FollowsAt(machine, beside, rest, step, s)

\* For each machine, the states it may be in beside each place of its code; the lemma
\* writes out its transitions and the steps of the code.
CaptureBeside ==
    {<<"commit", "committing">>, <<"gate", "evaluating_gate">>,
     <<"persist", "persisting_metrics">>, <<"poll", "running_cycle">>,
     <<"pressure", "checking_pressure">>, <<"returned", "waiting">>,
     <<"skip", "skipped">>, <<"start", "waiting">>}

LEMMA CaptureFollows == Follows(CaptureMachine, CaptureCode, CaptureBeside, {"waiting"})
PROOF
  <1> DEFINE machine == {<<"checking_pressure", "PRESSURE_EVALUATED", "persisting_metrics">>,
                         <<"committing", "COMMITTED", "checking_pressure">>,
                         <<"evaluating_gate", "GATE_BLOCKED", "skipped">>,
                         <<"evaluating_gate", "GATE_CLEAR", "running_cycle">>,
                         <<"persisting_metrics", "METRICS_PERSISTED", "waiting">>,
                         <<"running_cycle", "POLL_COMPLETE", "committing">>,
                         <<"skipped", "METRICS_PERSISTED", "waiting">>,
                         <<"waiting", "TICK", "evaluating_gate">>}
             code == {<<"commit", "COMMITTED", "pressure">>,
                      <<"gate", "GATE_BLOCKED", "skip">>,
                      <<"gate", "GATE_CLEAR", "poll">>, <<"gate", "none", "rejected">>,
                      <<"persist", "METRICS_PERSISTED", "returned">>,
                      <<"poll", "POLL_COMPLETE", "commit">>,
                      <<"poll", "none", "rejected">>,
                      <<"pressure", "PRESSURE_EVALUATED", "persist">>,
                      <<"skip", "METRICS_PERSISTED", "returned">>,
                      <<"start", "TICK", "gate">>}
  <1>1. \A t : t \in CaptureMachine <=> t \in machine
    <2>1. Chain(<<"waiting", "TICK", "evaluating_gate", "GATE_CLEAR", "running_cycle",
                  "POLL_COMPLETE", "committing", "COMMITTED", "checking_pressure",
                  "PRESSURE_EVALUATED", "persisting_metrics", "METRICS_PERSISTED", "waiting">>)
         = {<<"waiting", "TICK", "evaluating_gate">>,
            <<"evaluating_gate", "GATE_CLEAR", "running_cycle">>,
            <<"running_cycle", "POLL_COMPLETE", "committing">>,
            <<"committing", "COMMITTED", "checking_pressure">>,
            <<"checking_pressure", "PRESSURE_EVALUATED", "persisting_metrics">>,
            <<"persisting_metrics", "METRICS_PERSISTED", "waiting">>}
      BY Chain6
    <2>2. Chain(<<"evaluating_gate", "GATE_BLOCKED", "skipped", "METRICS_PERSISTED",
                  "waiting">>)
         = {<<"evaluating_gate", "GATE_BLOCKED", "skipped">>,
            <<"skipped", "METRICS_PERSISTED", "waiting">>}
      BY Chain2
    <2> QED BY <2>1, <2>2 DEF CaptureMachine
  <1>2. \A t : t \in CaptureCode <=> t \in code
    <2>1. Chain(<<"start", "TICK", "gate", "GATE_CLEAR", "poll", "POLL_COMPLETE", "commit",
                  "COMMITTED", "pressure", "PRESSURE_EVALUATED", "persist", "METRICS_PERSISTED",
                  "returned">>)
         = {<<"start", "TICK", "gate">>, <<"gate", "GATE_CLEAR", "poll">>,
            <<"poll", "POLL_COMPLETE", "commit">>, <<"commit", "COMMITTED", "pressure">>,
            <<"pressure", "PRESSURE_EVALUATED", "persist">>,
            <<"persist", "METRICS_PERSISTED", "returned">>}
      BY Chain6
    <2>2. Chain(<<"gate", "GATE_BLOCKED", "skip", "METRICS_PERSISTED", "returned">>)
         = {<<"gate", "GATE_BLOCKED", "skip">>, <<"skip", "METRICS_PERSISTED", "returned">>}
      BY Chain2
    <2> QED BY <2>1, <2>2 DEF CaptureCode, Throwing
  <1>3. Follows(machine, code, CaptureBeside, {"waiting"})
    BY SMTT(60) DEF Follows, FollowsAt, Along, KnownDrops, CaptureBeside
  <1>4. CaptureMachine = machine /\ CaptureCode = code
    <2> HIDE DEF machine, code
    <2> QED BY <1>1, <1>2
  <1> HIDE DEF machine, code
  <1> QED BY <1>3, <1>4

DrainBeside ==
    {<<"drain", "draining">>, <<"gate", "evaluating_gate">>,
     <<"persist", "persisting_metrics">>, <<"prune", "pruning">>,
     <<"resume", "checking_resume">>, <<"returned", "waiting">>, <<"skip", "skipped">>,
     <<"start", "waiting">>}

LEMMA DrainFollows == Follows(DrainMachine, DrainCode, DrainBeside, {"waiting"})
PROOF
  <1> DEFINE machine == {<<"checking_resume", "RESUME_EVALUATED", "persisting_metrics">>,
                         <<"draining", "DRAIN_COMPLETE", "pruning">>,
                         <<"evaluating_gate", "GATE_BLOCKED", "skipped">>,
                         <<"evaluating_gate", "GATE_CLEAR", "draining">>,
                         <<"persisting_metrics", "METRICS_PERSISTED", "waiting">>,
                         <<"pruning", "PRUNE_COMPLETE", "checking_resume">>,
                         <<"skipped", "METRICS_PERSISTED", "waiting">>,
                         <<"waiting", "TICK", "evaluating_gate">>}
             code == {<<"drain", "DRAIN_COMPLETE", "prune">>,
                      <<"drain", "none", "rejected">>,
                      <<"gate", "GATE_BLOCKED", "skip">>,
                      <<"gate", "GATE_CLEAR", "drain">>, <<"gate", "none", "rejected">>,
                      <<"persist", "METRICS_PERSISTED", "returned">>,
                      <<"prune", "PRUNE_COMPLETE", "resume">>,
                      <<"resume", "RESUME_EVALUATED", "persist">>,
                      <<"resume", "none", "rejected">>,
                      <<"skip", "METRICS_PERSISTED", "returned">>,
                      <<"start", "TICK", "gate">>}
  <1>1. \A t : t \in DrainMachine <=> t \in machine
    <2>1. Chain(<<"waiting", "TICK", "evaluating_gate", "GATE_CLEAR", "draining",
                  "DRAIN_COMPLETE", "pruning", "PRUNE_COMPLETE", "checking_resume",
                  "RESUME_EVALUATED", "persisting_metrics", "METRICS_PERSISTED", "waiting">>)
         = {<<"waiting", "TICK", "evaluating_gate">>,
            <<"evaluating_gate", "GATE_CLEAR", "draining">>,
            <<"draining", "DRAIN_COMPLETE", "pruning">>,
            <<"pruning", "PRUNE_COMPLETE", "checking_resume">>,
            <<"checking_resume", "RESUME_EVALUATED", "persisting_metrics">>,
            <<"persisting_metrics", "METRICS_PERSISTED", "waiting">>}
      BY Chain6
    <2>2. Chain(<<"evaluating_gate", "GATE_BLOCKED", "skipped", "METRICS_PERSISTED",
                  "waiting">>)
         = {<<"evaluating_gate", "GATE_BLOCKED", "skipped">>,
            <<"skipped", "METRICS_PERSISTED", "waiting">>}
      BY Chain2
    <2> QED BY <2>1, <2>2 DEF DrainMachine
  <1>2. \A t : t \in DrainCode <=> t \in code
    <2>1. Chain(<<"start", "TICK", "gate", "GATE_CLEAR", "drain", "DRAIN_COMPLETE", "prune",
                  "PRUNE_COMPLETE", "resume", "RESUME_EVALUATED", "persist",
                  "METRICS_PERSISTED", "returned">>)
         = {<<"start", "TICK", "gate">>, <<"gate", "GATE_CLEAR", "drain">>,
            <<"drain", "DRAIN_COMPLETE", "prune">>, <<"prune", "PRUNE_COMPLETE", "resume">>,
            <<"resume", "RESUME_EVALUATED", "persist">>,
            <<"persist", "METRICS_PERSISTED", "returned">>}
      BY Chain6
    <2>2. Chain(<<"gate", "GATE_BLOCKED", "skip", "METRICS_PERSISTED", "returned">>)
         = {<<"gate", "GATE_BLOCKED", "skip">>, <<"skip", "METRICS_PERSISTED", "returned">>}
      BY Chain2
    <2> QED BY <2>1, <2>2 DEF DrainCode, Throwing
  <1>3. Follows(machine, code, DrainBeside, {"waiting"})
    BY SMTT(60) DEF Follows, FollowsAt, Along, KnownDrops, DrainBeside
  <1>4. DrainMachine = machine /\ DrainCode = code
    <2> HIDE DEF machine, code
    <2> QED BY <1>1, <1>2
  <1> HIDE DEF machine, code
  <1> QED BY <1>3, <1>4

HeartbeatBeside ==
    {<<"check", "version_check_branch">>, <<"checked", "persisting_metrics">>,
     <<"checked", "version_check_branch">>, <<"freshness", "checking_freshness">>,
     <<"gate", "evaluating_gate">>, <<"returned", "version_check_branch">>,
     <<"returned", "waiting">>, <<"start", "waiting">>, <<"throttle", "throttle_check">>}

LEMMA HeartbeatFollows == Follows(HeartbeatMachine, HeartbeatCode, HeartbeatBeside, {"waiting"})
PROOF
  <1> DEFINE machine == {<<"checking_freshness", "FRESHNESS_CHECKED", "throttle_check">>,
                         <<"evaluating_gate", "GATE_BLOCKED", "skipped">>,
                         <<"evaluating_gate", "GATE_CLEAR", "checking_freshness">>,
                         <<"persisting_metrics", "METRICS_PERSISTED", "waiting">>,
                         <<"skipped", "METRICS_PERSISTED", "waiting">>,
                         <<"throttle_check", "THROTTLE_ALLOWS", "version_check_branch">>,
                         <<"throttle_check", "THROTTLE_BLOCKS", "persisting_metrics">>,
                         <<"version_check_branch", "VERSION_CHECK_COMPLETE", "persisting_metrics">>,
                         <<"waiting", "TICK", "evaluating_gate">>}
             code == {<<"check", "THROTTLE_BLOCKS", "checked">>,
                      <<"check", "VERSION_CHECK_COMPLETE", "checked">>,
                      <<"checked", "METRICS_PERSISTED", "returned">>,
                      <<"freshness", "FRESHNESS_CHECKED", "throttle">>,
                      <<"freshness", "none", "rejected">>,
                      <<"gate", "GATE_CLEAR", "freshness">>, <<"start", "TICK", "gate">>,
                      <<"throttle", "THROTTLE_ALLOWS", "check">>,
                      <<"throttle", "THROTTLE_BLOCKS", "checked">>}
  <1>1. \A t : t \in HeartbeatMachine <=> t \in machine
    <2>1. Chain(<<"waiting", "TICK", "evaluating_gate", "GATE_CLEAR", "checking_freshness",
                  "FRESHNESS_CHECKED", "throttle_check", "THROTTLE_ALLOWS",
                  "version_check_branch", "VERSION_CHECK_COMPLETE", "persisting_metrics",
                  "METRICS_PERSISTED", "waiting">>)
         = {<<"waiting", "TICK", "evaluating_gate">>,
            <<"evaluating_gate", "GATE_CLEAR", "checking_freshness">>,
            <<"checking_freshness", "FRESHNESS_CHECKED", "throttle_check">>,
            <<"throttle_check", "THROTTLE_ALLOWS", "version_check_branch">>,
            <<"version_check_branch", "VERSION_CHECK_COMPLETE", "persisting_metrics">>,
            <<"persisting_metrics", "METRICS_PERSISTED", "waiting">>}
      BY Chain6
    <2>2. Chain(<<"evaluating_gate", "GATE_BLOCKED", "skipped", "METRICS_PERSISTED",
                  "waiting">>)
         = {<<"evaluating_gate", "GATE_BLOCKED", "skipped">>,
            <<"skipped", "METRICS_PERSISTED", "waiting">>}
      BY Chain2
    <2>3. Chain(<<"throttle_check", "THROTTLE_BLOCKS", "persisting_metrics">>)
         = {<<"throttle_check", "THROTTLE_BLOCKS", "persisting_metrics">>}
      BY Chain1
    <2> QED BY <2>1, <2>2, <2>3 DEF HeartbeatMachine
  <1>2. \A t : t \in HeartbeatCode <=> t \in code
    BY Chain6 DEF HeartbeatCode, Throwing
  <1>3. Follows(machine, code, HeartbeatBeside, {"waiting"})
    BY SMTT(60) DEF Follows, FollowsAt, Along, KnownDrops, HeartbeatBeside
  <1>4. HeartbeatMachine = machine /\ HeartbeatCode = code
    <2> HIDE DEF machine, code
    <2> QED BY <1>1, <1>2
  <1> HIDE DEF machine, code
  <1> QED BY <1>3, <1>4

PollBeside ==
    {<<"files", "processing">>, <<"poll", "discovering">>, <<"returned", "done">>,
     <<"returned", "errored">>, <<"start", "idle">>, <<"told", "emitting_results">>,
     <<"told", "errored">>}

LEMMA PollFollows == Follows(PollMachine, PollCode, PollBeside, {"done"})
PROOF
  <1> DEFINE machine == {<<"discovering", "DISCOVERY_ERROR", "errored">>,
                         <<"discovering", "FILES_FOUND", "processing">>,
                         <<"discovering", "NO_FILES", "emitting_results">>,
                         <<"done", "BEGIN_POLL", "discovering">>,
                         <<"emitting_results", "EMIT_COMPLETE", "done">>,
                         <<"errored", "BEGIN_POLL", "discovering">>,
                         <<"idle", "BEGIN_POLL", "discovering">>,
                         <<"processing", "ALL_FILES_PROCESSED", "emitting_results">>,
                         <<"processing", "FILE_FAILED", "processing">>,
                         <<"processing", "FILE_PROCESSED", "processing">>}
             code == {<<"files", "ALL_FILES_PROCESSED", "told">>,
                      <<"files", "FILE_PROCESSED", "files">>,
                      <<"poll", "DISCOVERY_ERROR", "told">>,
                      <<"poll", "FILES_FOUND", "files">>, <<"poll", "NO_FILES", "told">>,
                      <<"poll", "none", "rejected">>, <<"start", "BEGIN_POLL", "poll">>,
                      <<"told", "EMIT_COMPLETE", "returned">>}
  <1>1. \A t : t \in PollMachine <=> t \in machine
    <2>1. Chain(<<"discovering", "FILES_FOUND", "processing", "ALL_FILES_PROCESSED",
                  "emitting_results", "EMIT_COMPLETE", "done">>)
         = {<<"discovering", "FILES_FOUND", "processing">>,
            <<"processing", "ALL_FILES_PROCESSED", "emitting_results">>,
            <<"emitting_results", "EMIT_COMPLETE", "done">>}
      BY Chain3
    <2>2. Chain(<<"processing", "FILE_PROCESSED", "processing", "FILE_FAILED", "processing">>)
         = {<<"processing", "FILE_PROCESSED", "processing">>,
            <<"processing", "FILE_FAILED", "processing">>}
      BY Chain2
    <2>3. Chain(<<"discovering", "NO_FILES", "emitting_results">>)
         = {<<"discovering", "NO_FILES", "emitting_results">>}
      BY Chain1
    <2>4. Chain(<<"discovering", "DISCOVERY_ERROR", "errored">>)
         = {<<"discovering", "DISCOVERY_ERROR", "errored">>}
      BY Chain1
    <2> QED BY <2>1, <2>2, <2>3, <2>4 DEF PollMachine
  <1>2. \A t : t \in PollCode <=> t \in code
    BY Chain5 DEF PollCode, Throwing
  <1>3. Follows(machine, code, PollBeside, {"done"})
    BY SMTT(60) DEF Follows, FollowsAt, Along, KnownDrops, PollBeside
  <1>4. PollMachine = machine /\ PollCode = code
    <2> HIDE DEF machine, code
    <2> QED BY <1>1, <1>2
  <1> HIDE DEF machine, code
  <1> QED BY <1>3, <1>4

WorkerBeside ==
    {<<"posted", "errored">>, <<"posted", "posting_result">>,
     <<"returned", "terminated">>, <<"run", "running">>, <<"start", "spawned">>}

LEMMA WorkerFollows == Follows(WorkerMachine, WorkerCode, WorkerBeside, {"terminated"})
PROOF
  <1> DEFINE machine == {<<"errored", "TERMINATE", "terminated">>,
                         <<"posting_result", "TERMINATE", "terminated">>,
                         <<"running", "ERROR", "errored">>,
                         <<"running", "RESULT_POSTED", "posting_result">>,
                         <<"spawned", "BEGIN_RUN", "running">>}
             code == {<<"posted", "TERMINATE", "returned">>,
                      <<"run", "ERROR", "posted">>, <<"run", "RESULT_POSTED", "posted">>,
                      <<"run", "none", "rejected">>, <<"start", "BEGIN_RUN", "run">>}
  <1>1. \A t : t \in WorkerMachine <=> t \in machine
    <2>1. Chain(<<"spawned", "BEGIN_RUN", "running", "RESULT_POSTED", "posting_result",
                  "TERMINATE", "terminated">>)
         = {<<"spawned", "BEGIN_RUN", "running">>,
            <<"running", "RESULT_POSTED", "posting_result">>,
            <<"posting_result", "TERMINATE", "terminated">>}
      BY Chain3
    <2>2. Chain(<<"running", "ERROR", "errored", "TERMINATE", "terminated">>)
         = {<<"running", "ERROR", "errored">>, <<"errored", "TERMINATE", "terminated">>}
      BY Chain2
    <2> QED BY <2>1, <2>2 DEF WorkerMachine
  <1>2. \A t : t \in WorkerCode <=> t \in code
    <2>1. Chain(<<"start", "BEGIN_RUN", "run", "RESULT_POSTED", "posted", "TERMINATE",
                  "returned">>)
         = {<<"start", "BEGIN_RUN", "run">>, <<"run", "RESULT_POSTED", "posted">>,
            <<"posted", "TERMINATE", "returned">>}
      BY Chain3
    <2>2. Chain(<<"run", "ERROR", "posted">>)
         = {<<"run", "ERROR", "posted">>}
      BY Chain1
    <2> QED BY <2>1, <2>2 DEF WorkerCode, Throwing
  <1>3. Follows(machine, code, WorkerBeside, {"terminated"})
    BY SMTT(60) DEF Follows, FollowsAt, Along, KnownDrops, WorkerBeside
  <1>4. WorkerMachine = machine /\ WorkerCode = code
    <2> HIDE DEF machine, code
    <2> QED BY <1>1, <1>2
  <1> HIDE DEF machine, code
  <1> QED BY <1>3, <1>4

CursorBeside ==
    {<<"returned", "healthy">>, <<"returned", "unseeded">>, <<"start", "unseeded">>}

LEMMA CursorFollows == Follows(CursorMachine, CursorCode, CursorBeside, {"healthy"})
PROOF
  <1> DEFINE machine == {<<"healthy", "POLL_ERROR", "healthy">>,
                         <<"healthy", "POLL_SUCCESS", "healthy">>,
                         <<"healthy", "VACUUM_DETECTED", "vacuumed">>,
                         <<"healthy", "WATERMARK_REGRESSED", "regressed">>,
                         <<"regressed", "REGRESSION_APPLIED", "healthy">>,
                         <<"unseeded", "POLL_SUCCESS", "healthy">>,
                         <<"unseeded", "SYNCED", "healthy">>,
                         <<"vacuumed", "NEW_GENERATION_CREATED", "healthy">>}
             code == {<<"start", "POLL_ERROR", "returned">>,
                      <<"start", "POLL_SUCCESS", "returned">>}
  <1>1. \A t : t \in CursorMachine <=> t \in machine
    <2>1. Chain(<<"unseeded", "SYNCED", "healthy", "POLL_SUCCESS", "healthy", "POLL_ERROR",
                  "healthy">>)
         = {<<"unseeded", "SYNCED", "healthy">>, <<"healthy", "POLL_SUCCESS", "healthy">>,
            <<"healthy", "POLL_ERROR", "healthy">>}
      BY Chain3
    <2>2. Chain(<<"unseeded", "POLL_SUCCESS", "healthy">>)
         = {<<"unseeded", "POLL_SUCCESS", "healthy">>}
      BY Chain1
    <2>3. Chain(<<"healthy", "VACUUM_DETECTED", "vacuumed", "NEW_GENERATION_CREATED",
                  "healthy">>)
         = {<<"healthy", "VACUUM_DETECTED", "vacuumed">>,
            <<"vacuumed", "NEW_GENERATION_CREATED", "healthy">>}
      BY Chain2
    <2>4. Chain(<<"healthy", "WATERMARK_REGRESSED", "regressed", "REGRESSION_APPLIED",
                  "healthy">>)
         = {<<"healthy", "WATERMARK_REGRESSED", "regressed">>,
            <<"regressed", "REGRESSION_APPLIED", "healthy">>}
      BY Chain2
    <2> QED BY <2>1, <2>2, <2>3, <2>4 DEF CursorMachine
  <1>2. \A t : t \in CursorCode <=> t \in code
    BY DEF CursorCode
  <1>3. Follows(machine, code, CursorBeside, {"healthy"})
    BY SMTT(60) DEF Follows, FollowsAt, Along, KnownDrops, CursorBeside
  <1>4. CursorMachine = machine /\ CursorCode = code
    <2> HIDE DEF machine, code
    <2> QED BY <1>1, <1>2
  <1> HIDE DEF machine, code
  <1> QED BY <1>3, <1>4

PacerBeside ==
    {<<"429", "applying_429_backoff">>, <<"5xx", "applying_5xx_backoff">>,
     <<"debit", "debiting">>, <<"retry_after", "applying_retry_after">>,
     <<"returned", "ready">>, <<"start", "ready">>, <<"tokens", "applying_token_bucket">>}

LEMMA PacerFollows == Follows(PacerMachine, PacerCode, PacerBeside, {"ready"})
PROOF
  <1> DEFINE machine == {<<"applying_429_backoff", "ENTER_5XX_BACKOFF", "applying_5xx_backoff">>,
                         <<"applying_429_backoff", "NOTIFY_429", "applying_429_backoff">>,
                         <<"applying_429_backoff", "NOTIFY_5XX", "applying_429_backoff">>,
                         <<"applying_429_backoff", "NOTIFY_RETRY_AFTER", "applying_429_backoff">>,
                         <<"applying_5xx_backoff", "ENTER_TOKEN_BUCKET", "applying_token_bucket">>,
                         <<"applying_5xx_backoff", "NOTIFY_429", "applying_5xx_backoff">>,
                         <<"applying_5xx_backoff", "NOTIFY_5XX", "applying_5xx_backoff">>,
                         <<"applying_5xx_backoff", "NOTIFY_RETRY_AFTER", "applying_5xx_backoff">>,
                         <<"applying_retry_after", "ENTER_429_BACKOFF", "applying_429_backoff">>,
                         <<"applying_retry_after", "NOTIFY_429", "applying_retry_after">>,
                         <<"applying_retry_after", "NOTIFY_5XX", "applying_retry_after">>,
                         <<"applying_retry_after", "NOTIFY_RETRY_AFTER", "applying_retry_after">>,
                         <<"applying_token_bucket", "ENTER_DEBITING", "debiting">>,
                         <<"applying_token_bucket", "NOTIFY_429", "applying_token_bucket">>,
                         <<"applying_token_bucket", "NOTIFY_5XX", "applying_token_bucket">>,
                         <<"applying_token_bucket", "NOTIFY_RETRY_AFTER", "applying_token_bucket">>,
                         <<"debiting", "ACQUIRE_COMPLETE", "ready">>,
                         <<"debiting", "NOTIFY_429", "debiting">>,
                         <<"debiting", "NOTIFY_5XX", "debiting">>,
                         <<"debiting", "NOTIFY_RETRY_AFTER", "debiting">>,
                         <<"ready", "ACQUIRE_STARTED", "applying_retry_after">>,
                         <<"ready", "NOTIFY_429", "ready">>,
                         <<"ready", "NOTIFY_5XX", "ready">>,
                         <<"ready", "NOTIFY_RETRY_AFTER", "ready">>}
             code == {<<"429", "ENTER_5XX_BACKOFF", "5xx">>,
                      <<"429", "NOTIFY_429", "429">>, <<"429", "NOTIFY_5XX", "429">>,
                      <<"429", "NOTIFY_RETRY_AFTER", "429">>,
                      <<"5xx", "ENTER_TOKEN_BUCKET", "tokens">>,
                      <<"5xx", "NOTIFY_429", "5xx">>, <<"5xx", "NOTIFY_5XX", "5xx">>,
                      <<"5xx", "NOTIFY_RETRY_AFTER", "5xx">>,
                      <<"debit", "ACQUIRE_COMPLETE", "returned">>,
                      <<"debit", "NOTIFY_429", "debit">>,
                      <<"debit", "NOTIFY_5XX", "debit">>,
                      <<"debit", "NOTIFY_RETRY_AFTER", "debit">>,
                      <<"retry_after", "ENTER_429_BACKOFF", "429">>,
                      <<"retry_after", "NOTIFY_429", "retry_after">>,
                      <<"retry_after", "NOTIFY_5XX", "retry_after">>,
                      <<"retry_after", "NOTIFY_RETRY_AFTER", "retry_after">>,
                      <<"returned", "none", "start">>,
                      <<"start", "ACQUIRE_STARTED", "retry_after">>,
                      <<"start", "NOTIFY_429", "start">>,
                      <<"start", "NOTIFY_5XX", "start">>,
                      <<"start", "NOTIFY_RETRY_AFTER", "start">>,
                      <<"tokens", "ENTER_DEBITING", "debit">>,
                      <<"tokens", "NOTIFY_429", "tokens">>,
                      <<"tokens", "NOTIFY_5XX", "tokens">>,
                      <<"tokens", "NOTIFY_RETRY_AFTER", "tokens">>}
  <1>1. \A t : t \in PacerMachine <=> t \in machine
    <2> DEFINE main == {<<"ready", "ACQUIRE_STARTED", "applying_retry_after">>,
                       <<"applying_retry_after", "ENTER_429_BACKOFF", "applying_429_backoff">>,
                       <<"applying_429_backoff", "ENTER_5XX_BACKOFF", "applying_5xx_backoff">>,
                       <<"applying_5xx_backoff", "ENTER_TOKEN_BUCKET", "applying_token_bucket">>,
                       <<"applying_token_bucket", "ENTER_DEBITING", "debiting">>,
                       <<"debiting", "ACQUIRE_COMPLETE", "ready">>}
    <2>1. Chain(<<"ready", "ACQUIRE_STARTED", "applying_retry_after", "ENTER_429_BACKOFF",
                  "applying_429_backoff", "ENTER_5XX_BACKOFF", "applying_5xx_backoff",
                  "ENTER_TOKEN_BUCKET", "applying_token_bucket", "ENTER_DEBITING", "debiting",
                  "ACQUIRE_COMPLETE", "ready">>)
         = main
      BY Chain6
    <2>2. {<<t[1], e, t[1]>> : t \in main, e \in Notices} = {
            <<"ready", "NOTIFY_RETRY_AFTER", "ready">>, <<"ready", "NOTIFY_429", "ready">>,
            <<"ready", "NOTIFY_5XX", "ready">>,
            <<"applying_retry_after", "NOTIFY_RETRY_AFTER", "applying_retry_after">>,
            <<"applying_retry_after", "NOTIFY_429", "applying_retry_after">>,
            <<"applying_retry_after", "NOTIFY_5XX", "applying_retry_after">>,
            <<"applying_429_backoff", "NOTIFY_RETRY_AFTER", "applying_429_backoff">>,
            <<"applying_429_backoff", "NOTIFY_429", "applying_429_backoff">>,
            <<"applying_429_backoff", "NOTIFY_5XX", "applying_429_backoff">>,
            <<"applying_5xx_backoff", "NOTIFY_RETRY_AFTER", "applying_5xx_backoff">>,
            <<"applying_5xx_backoff", "NOTIFY_429", "applying_5xx_backoff">>,
            <<"applying_5xx_backoff", "NOTIFY_5XX", "applying_5xx_backoff">>,
            <<"applying_token_bucket", "NOTIFY_RETRY_AFTER", "applying_token_bucket">>,
            <<"applying_token_bucket", "NOTIFY_429", "applying_token_bucket">>,
            <<"applying_token_bucket", "NOTIFY_5XX", "applying_token_bucket">>,
            <<"debiting", "NOTIFY_RETRY_AFTER", "debiting">>,
            <<"debiting", "NOTIFY_429", "debiting">>, <<"debiting", "NOTIFY_5XX", "debiting">>}
      BY DEF Notices
    <2> QED BY <2>1, <2>2 DEF PacerMachine
  <1>2. \A t : t \in PacerCode <=> t \in code
    <2> DEFINE main == {<<"start", "ACQUIRE_STARTED", "retry_after">>,
                       <<"retry_after", "ENTER_429_BACKOFF", "429">>,
                       <<"429", "ENTER_5XX_BACKOFF", "5xx">>,
                       <<"5xx", "ENTER_TOKEN_BUCKET", "tokens">>,
                       <<"tokens", "ENTER_DEBITING", "debit">>,
                       <<"debit", "ACQUIRE_COMPLETE", "returned">>}
    <2>1. Chain(<<"start", "ACQUIRE_STARTED", "retry_after", "ENTER_429_BACKOFF", "429",
                  "ENTER_5XX_BACKOFF", "5xx", "ENTER_TOKEN_BUCKET", "tokens", "ENTER_DEBITING",
                  "debit", "ACQUIRE_COMPLETE", "returned">>)
         = main
      BY Chain6
    <2>2. {<<t[1], e, t[1]>> : t \in main, e \in Notices} = {
            <<"start", "NOTIFY_RETRY_AFTER", "start">>, <<"start", "NOTIFY_429", "start">>,
            <<"start", "NOTIFY_5XX", "start">>,
            <<"retry_after", "NOTIFY_RETRY_AFTER", "retry_after">>,
            <<"retry_after", "NOTIFY_429", "retry_after">>,
            <<"retry_after", "NOTIFY_5XX", "retry_after">>,
            <<"429", "NOTIFY_RETRY_AFTER", "429">>, <<"429", "NOTIFY_429", "429">>,
            <<"429", "NOTIFY_5XX", "429">>, <<"5xx", "NOTIFY_RETRY_AFTER", "5xx">>,
            <<"5xx", "NOTIFY_429", "5xx">>, <<"5xx", "NOTIFY_5XX", "5xx">>,
            <<"tokens", "NOTIFY_RETRY_AFTER", "tokens">>, <<"tokens", "NOTIFY_429", "tokens">>,
            <<"tokens", "NOTIFY_5XX", "tokens">>, <<"debit", "NOTIFY_RETRY_AFTER", "debit">>,
            <<"debit", "NOTIFY_429", "debit">>, <<"debit", "NOTIFY_5XX", "debit">>}
      BY DEF Notices
    <2> QED BY <2>1, <2>2 DEF PacerCode
  <1>3. Follows(machine, code, PacerBeside, {"ready"})
    BY SMTT(60) DEF Follows, FollowsAt, Along, KnownDrops, PacerBeside
  <1>4. PacerMachine = machine /\ PacerCode = code
    <2> HIDE DEF machine, code
    <2> QED BY <1>1, <1>2
  <1> HIDE DEF machine, code
  <1> QED BY <1>3, <1>4

SetupBeside ==
    {<<"autostart", "done">>, <<"config", "writing_config">>,
     <<"key", "collecting_ingestion_key">>, <<"returned", "collecting_ingestion_key">>,
     <<"returned", "done">>, <<"returned", "failed">>,
     <<"sentinels", "writing_consent_sentinel">>, <<"start", "prompting_consent">>,
     <<"verify", "verifying_key">>}

LEMMA SetupFollows == Follows(SetupMachine, SetupCode, SetupBeside, {"collecting_ingestion_key", "done", "failed"})
PROOF
  <1> DEFINE machine == {<<"collecting_ingestion_key", "ERROR", "failed">>,
                         <<"collecting_ingestion_key", "KEY_PROVIDED", "verifying_key">>,
                         <<"failed", "CONSENT_ACCEPTED", "collecting_ingestion_key">>,
                         <<"failed", "KEY_PROVIDED", "verifying_key">>,
                         <<"prompting_consent", "CONSENT_ACCEPTED", "collecting_ingestion_key">>,
                         <<"prompting_consent", "CONSENT_DECLINED", "cancelled">>,
                         <<"prompting_consent", "ERROR", "failed">>,
                         <<"verifying_key", "ERROR", "failed">>,
                         <<"verifying_key", "KEY_VERIFY_FAILURE", "collecting_ingestion_key">>,
                         <<"verifying_key", "KEY_VERIFY_SUCCESS", "writing_config">>,
                         <<"writing_config", "CONFIG_WRITTEN", "writing_consent_sentinel">>,
                         <<"writing_config", "ERROR", "failed">>,
                         <<"writing_consent_sentinel", "ERROR", "failed">>,
                         <<"writing_consent_sentinel", "SENTINEL_WRITTEN", "done">>}
             code == {<<"autostart", "none", "rejected">>,
                      <<"autostart", "none", "returned">>,
                      <<"config", "CONFIG_WRITTEN", "sentinels">>,
                      <<"config", "none", "rejected">>, <<"key", "ERROR", "returned">>,
                      <<"key", "KEY_PROVIDED", "verify">>, <<"key", "none", "rejected">>,
                      <<"sentinels", "SENTINEL_WRITTEN", "autostart">>,
                      <<"sentinels", "none", "rejected">>,
                      <<"start", "CONSENT_ACCEPTED", "key">>,
                      <<"verify", "KEY_VERIFY_FAILURE", "returned">>,
                      <<"verify", "KEY_VERIFY_SUCCESS", "config">>,
                      <<"verify", "none", "rejected">>}
  <1>1. \A t : t \in SetupMachine <=> t \in machine
    <2> DEFINE main == {
                       <<"prompting_consent", "CONSENT_ACCEPTED", "collecting_ingestion_key">>,
                       <<"collecting_ingestion_key", "KEY_PROVIDED", "verifying_key">>,
                       <<"verifying_key", "KEY_VERIFY_SUCCESS", "writing_config">>,
                       <<"writing_config", "CONFIG_WRITTEN", "writing_consent_sentinel">>,
                       <<"writing_consent_sentinel", "SENTINEL_WRITTEN", "done">>}
    <2>1. Chain(<<"prompting_consent", "CONSENT_ACCEPTED", "collecting_ingestion_key",
                  "KEY_PROVIDED", "verifying_key", "KEY_VERIFY_SUCCESS", "writing_config",
                  "CONFIG_WRITTEN", "writing_consent_sentinel", "SENTINEL_WRITTEN", "done">>)
         = main
      BY Chain5
    <2>2. Chain(<<"prompting_consent", "CONSENT_DECLINED", "cancelled">>)
         = {<<"prompting_consent", "CONSENT_DECLINED", "cancelled">>}
      BY Chain1
    <2>3. Chain(<<"verifying_key", "KEY_VERIFY_FAILURE", "collecting_ingestion_key">>)
         = {<<"verifying_key", "KEY_VERIFY_FAILURE", "collecting_ingestion_key">>}
      BY Chain1
    <2>4. Chain(<<"failed", "CONSENT_ACCEPTED", "collecting_ingestion_key">>)
         = {<<"failed", "CONSENT_ACCEPTED", "collecting_ingestion_key">>}
      BY Chain1
    <2>5. Chain(<<"failed", "KEY_PROVIDED", "verifying_key">>)
         = {<<"failed", "KEY_PROVIDED", "verifying_key">>}
      BY Chain1
    <2>6. {<<t[1], "ERROR", "failed">> : t \in main} = {
            <<"prompting_consent", "ERROR", "failed">>,
            <<"collecting_ingestion_key", "ERROR", "failed">>,
            <<"verifying_key", "ERROR", "failed">>, <<"writing_config", "ERROR", "failed">>,
            <<"writing_consent_sentinel", "ERROR", "failed">>}
      OBVIOUS
    <2> QED BY <2>1, <2>2, <2>3, <2>4, <2>5, <2>6 DEF SetupMachine
  <1>2. \A t : t \in SetupCode <=> t \in code
    BY Chain6 DEF SetupCode, Throwing
  <1>3. Follows(machine, code, SetupBeside, {"collecting_ingestion_key", "done", "failed"})
    BY SMTT(60) DEF Follows, FollowsAt, Along, KnownDrops, SetupBeside
  <1>4. SetupMachine = machine /\ SetupCode = code
    <2> HIDE DEF machine, code
    <2> QED BY <1>1, <1>2
  <1> HIDE DEF machine, code
  <1> QED BY <1>3, <1>4

UninstallBeside ==
    {<<"binary", "removing_buffer">>, <<"path", "removing_sentinels">>,
     <<"returned", "done">>, <<"returned", "idle">>, <<"start", "idle">>,
     <<"stop", "stopping_service">>, <<"sweep", "sweeping_paths">>}

LEMMA UninstallFollows == Follows(UninstallMachine, UninstallCode, UninstallBeside, {"done", "idle"})
PROOF
  <1> DEFINE machine == {<<"idle", "BEGIN", "stopping_service">>,
                         <<"idle", "ERROR", "failed">>,
                         <<"removing_buffer", "BUFFER_REMOVED", "removing_sentinels">>,
                         <<"removing_buffer", "ERROR", "failed">>,
                         <<"removing_sentinels", "ERROR", "failed">>,
                         <<"removing_sentinels", "SENTINELS_REMOVED", "done">>,
                         <<"stopping_service", "ERROR", "failed">>,
                         <<"stopping_service", "SERVICE_STOPPED", "sweeping_paths">>,
                         <<"sweeping_paths", "ERROR", "failed">>,
                         <<"sweeping_paths", "PATHS_SWEPT", "removing_buffer">>}
             code == {<<"binary", "BUFFER_REMOVED", "path">>,
                      <<"binary", "none", "rejected">>,
                      <<"path", "SENTINELS_REMOVED", "returned">>,
                      <<"path", "none", "rejected">>, <<"start", "BEGIN", "stop">>,
                      <<"start", "none", "rejected">>, <<"start", "none", "returned">>,
                      <<"stop", "SERVICE_STOPPED", "sweep">>,
                      <<"stop", "none", "rejected">>,
                      <<"sweep", "PATHS_SWEPT", "binary">>,
                      <<"sweep", "none", "rejected">>}
  <1>1. \A t : t \in UninstallMachine <=> t \in machine
    <2> DEFINE main == {<<"idle", "BEGIN", "stopping_service">>,
                       <<"stopping_service", "SERVICE_STOPPED", "sweeping_paths">>,
                       <<"sweeping_paths", "PATHS_SWEPT", "removing_buffer">>,
                       <<"removing_buffer", "BUFFER_REMOVED", "removing_sentinels">>,
                       <<"removing_sentinels", "SENTINELS_REMOVED", "done">>}
    <2>1. Chain(<<"idle", "BEGIN", "stopping_service", "SERVICE_STOPPED", "sweeping_paths",
                  "PATHS_SWEPT", "removing_buffer", "BUFFER_REMOVED", "removing_sentinels",
                  "SENTINELS_REMOVED", "done">>)
         = main
      BY Chain5
    <2>2. {<<t[1], "ERROR", "failed">> : t \in main} = {<<"idle", "ERROR", "failed">>,
            <<"stopping_service", "ERROR", "failed">>, <<"sweeping_paths", "ERROR", "failed">>,
            <<"removing_buffer", "ERROR", "failed">>,
            <<"removing_sentinels", "ERROR", "failed">>}
      OBVIOUS
    <2> QED BY <2>1, <2>2 DEF UninstallMachine
  <1>2. \A t : t \in UninstallCode <=> t \in code
    BY Chain5 DEF UninstallCode, Throwing
  <1>3. Follows(machine, code, UninstallBeside, {"done", "idle"})
    BY SMTT(60) DEF Follows, FollowsAt, Along, KnownDrops, UninstallBeside
  <1>4. UninstallMachine = machine /\ UninstallCode = code
    <2> HIDE DEF machine, code
    <2> QED BY <1>1, <1>2
  <1> HIDE DEF machine, code
  <1> QED BY <1>3, <1>4

DaemonBeside ==
    {<<"buffer", "opening_buffer">>, <<"ending", "draining_for_shutdown">>,
     <<"loops", "running">>, <<"mark", "sync_decision">>, <<"marked", "running">>,
     <<"returned", "exited">>, <<"start", "loading_config">>, <<"stop", "exited">>,
     <<"watcher", "sync_decision">>}

LEMMA DaemonFollows == Follows(DaemonMachine, DaemonCode, DaemonBeside, {"exited"})
PROOF
  <1> DEFINE machine == {<<"draining_for_shutdown", "DRAIN_FOR_SHUTDOWN_COMPLETE", "exited">>,
                         <<"draining_for_shutdown", "EXIT", "exited">>,
                         <<"loading_config", "CONFIG_LOADED", "opening_buffer">>,
                         <<"opening_buffer", "BUFFER_OPENED", "sync_decision">>,
                         <<"running", "READY", "running">>,
                         <<"running", "SHUTDOWN", "draining_for_shutdown">>,
                         <<"sync_decision", "WATERMARKS_SKIPPED", "running">>,
                         <<"sync_decision", "WATERMARKS_SYNCED", "running">>}
             code == {<<"buffer", "BUFFER_OPENED", "watcher">>,
                      <<"ending", "EXIT", "stop">>, <<"loops", "SHUTDOWN", "ending">>,
                      <<"mark", "WATERMARKS_SKIPPED", "marked">>,
                      <<"marked", "READY", "loops">>,
                      <<"start", "CONFIG_LOADED", "buffer">>,
                      <<"stop", "none", "returned">>, <<"watcher", "none", "mark">>,
                      <<"watcher", "none", "rejected">>}
  <1>1. \A t : t \in DaemonMachine <=> t \in machine
    <2>1. Chain(<<"loading_config", "CONFIG_LOADED", "opening_buffer", "BUFFER_OPENED",
                  "sync_decision", "WATERMARKS_SKIPPED", "running", "READY", "running",
                  "SHUTDOWN", "draining_for_shutdown", "EXIT", "exited">>)
         = {<<"loading_config", "CONFIG_LOADED", "opening_buffer">>,
            <<"opening_buffer", "BUFFER_OPENED", "sync_decision">>,
            <<"sync_decision", "WATERMARKS_SKIPPED", "running">>,
            <<"running", "READY", "running">>,
            <<"running", "SHUTDOWN", "draining_for_shutdown">>,
            <<"draining_for_shutdown", "EXIT", "exited">>}
      BY Chain6
    <2>2. Chain(<<"sync_decision", "WATERMARKS_SYNCED", "running">>)
         = {<<"sync_decision", "WATERMARKS_SYNCED", "running">>}
      BY Chain1
    <2>3. Chain(<<"draining_for_shutdown", "DRAIN_FOR_SHUTDOWN_COMPLETE", "exited">>)
         = {<<"draining_for_shutdown", "DRAIN_FOR_SHUTDOWN_COMPLETE", "exited">>}
      BY Chain1
    <2> QED BY <2>1, <2>2, <2>3 DEF DaemonMachine
  <1>2. \A t : t \in DaemonCode <=> t \in code
    BY Chain8 DEF DaemonCode, Throwing
  <1>3. Follows(machine, code, DaemonBeside, {"exited"})
    BY SMTT(60) DEF Follows, FollowsAt, Along, KnownDrops, DaemonBeside
  <1>4. DaemonMachine = machine /\ DaemonCode = code
    <2> HIDE DEF machine, code
    <2> QED BY <1>1, <1>2
  <1> HIDE DEF machine, code
  <1> QED BY <1>3, <1>4

-----------------------------------------------------------------------------
(* The machines beside the code: the invariant and the theorem *)

Beside == [capture   |-> CaptureBeside,
           drain     |-> DrainBeside,
           heartbeat |-> HeartbeatBeside,
           poll      |-> PollBeside,
           worker    |-> WorkerBeside,
           cursor    |-> CursorBeside,
           pacer     |-> PacerBeside,
           setup     |-> SetupBeside,
           uninstall |-> UninstallBeside,
           daemon    |-> DaemonBeside]

Follow(k) == Follows(Shadows[k].machine, Shadows[k].code, Beside[k], Shadows[k].rest)

\* Every machine follows its code, from the place where both begin.
LEMMA EachFollows == \A k \in DOMAIN Shadows : Follow(k) /\ <<"start", Shadows[k].from>> \in Beside[k]
PROOF
  <1>0. SUFFICES ASSUME NEW k \in DOMAIN Shadows PROVE Follow(k) /\ <<"start", Shadows[k].from>> \in Beside[k]
    OBVIOUS
  <1>1. CASE k = "capture"
    <2>1. /\ Shadows[k].machine = CaptureMachine /\ Shadows[k].code = CaptureCode /\ Shadows[k].from = "waiting"
          /\ Shadows[k].rest = {"waiting"} /\ Beside[k] = CaptureBeside
      BY <1>1 DEF Shadows, Beside
    <2> QED BY <2>1, CaptureFollows DEF Follow, CaptureBeside
  <1>2. CASE k = "drain"
    <2>1. /\ Shadows[k].machine = DrainMachine /\ Shadows[k].code = DrainCode /\ Shadows[k].from = "waiting"
          /\ Shadows[k].rest = {"waiting"} /\ Beside[k] = DrainBeside
      BY <1>2 DEF Shadows, Beside
    <2> QED BY <2>1, DrainFollows DEF Follow, DrainBeside
  <1>3. CASE k = "heartbeat"
    <2>1. /\ Shadows[k].machine = HeartbeatMachine /\ Shadows[k].code = HeartbeatCode /\ Shadows[k].from = "waiting"
          /\ Shadows[k].rest = {"waiting"} /\ Beside[k] = HeartbeatBeside
      BY <1>3 DEF Shadows, Beside
    <2> QED BY <2>1, HeartbeatFollows DEF Follow, HeartbeatBeside
  <1>4. CASE k = "poll"
    <2>1. /\ Shadows[k].machine = PollMachine /\ Shadows[k].code = PollCode /\ Shadows[k].from = "idle"
          /\ Shadows[k].rest = {"done"} /\ Beside[k] = PollBeside
      BY <1>4 DEF Shadows, Beside
    <2> QED BY <2>1, PollFollows DEF Follow, PollBeside
  <1>5. CASE k = "worker"
    <2>1. /\ Shadows[k].machine = WorkerMachine /\ Shadows[k].code = WorkerCode /\ Shadows[k].from = "spawned"
          /\ Shadows[k].rest = {"terminated"} /\ Beside[k] = WorkerBeside
      BY <1>5 DEF Shadows, Beside
    <2> QED BY <2>1, WorkerFollows DEF Follow, WorkerBeside
  <1>6. CASE k = "cursor"
    <2>1. /\ Shadows[k].machine = CursorMachine /\ Shadows[k].code = CursorCode /\ Shadows[k].from = "unseeded"
          /\ Shadows[k].rest = {"healthy"} /\ Beside[k] = CursorBeside
      BY <1>6 DEF Shadows, Beside
    <2> QED BY <2>1, CursorFollows DEF Follow, CursorBeside
  <1>7. CASE k = "pacer"
    <2>1. /\ Shadows[k].machine = PacerMachine /\ Shadows[k].code = PacerCode /\ Shadows[k].from = "ready"
          /\ Shadows[k].rest = {"ready"} /\ Beside[k] = PacerBeside
      BY <1>7 DEF Shadows, Beside
    <2> QED BY <2>1, PacerFollows DEF Follow, PacerBeside
  <1>8. CASE k = "setup"
    <2>1. /\ Shadows[k].machine = SetupMachine /\ Shadows[k].code = SetupCode /\ Shadows[k].from = "prompting_consent"
          /\ Shadows[k].rest = {"collecting_ingestion_key", "done", "failed"} /\ Beside[k] = SetupBeside
      BY <1>8 DEF Shadows, Beside
    <2> QED BY <2>1, SetupFollows DEF Follow, SetupBeside
  <1>9. CASE k = "uninstall"
    <2>1. /\ Shadows[k].machine = UninstallMachine /\ Shadows[k].code = UninstallCode /\ Shadows[k].from = "idle"
          /\ Shadows[k].rest = {"done", "idle"} /\ Beside[k] = UninstallBeside
      BY <1>9 DEF Shadows, Beside
    <2> QED BY <2>1, UninstallFollows DEF Follow, UninstallBeside
  <1>10. CASE k = "daemon"
    <2>1. /\ Shadows[k].machine = DaemonMachine /\ Shadows[k].code = DaemonCode /\ Shadows[k].from = "loading_config"
          /\ Shadows[k].rest = {"exited"} /\ Beside[k] = DaemonBeside
      BY <1>10 DEF Shadows, Beside
    <2> QED BY <2>1, DaemonFollows DEF Follow, DaemonBeside
  <1> QED BY <1>1, <1>2, <1>3, <1>4, <1>5, <1>6, <1>7, <1>8, <1>9, <1>10 DEF Shadows

\* The machine is in a state that goes with the place of the code, or the code has thrown.
ShadowInv ==
    /\ ShadowTypeOK /\ dropped \subseteq KnownDrops
    /\ \/ place = "rejected"
       \/ /\ <<place, shadow>> \in Beside[kind]
          /\ place = "returned" /\ dropped = {} => shadow \in Shadows[kind].rest

\* Both are at their beginning.
LEMMA ShadowStart == ShadowInit => ShadowInv
PROOF
  <1> SUFFICES ASSUME ShadowInit PROVE ShadowInv
    OBVIOUS
  <1>1. ShadowTypeOK
    BY DEF ShadowInit, ShadowTypeOK, ShadowStates
  <1> QED BY <1>1, EachFollows DEF ShadowInit, ShadowInv

\* A state, a place or a dropped event is one of the machine or the code it is of.
LEMMA ShadowTypes == ShadowTypeOK /\ [ShadowNext]_shadowVars => ShadowTypeOK'
PROOF
  <1> SUFFICES ASSUME ShadowTypeOK, ShadowNext PROVE ShadowTypeOK'
    BY DEF ShadowTypeOK, shadowVars
  <1>1. PICK step \in Shadows[kind].code :
           step[1] = place /\ place' = step[3] /\ Send(step[2]) /\ UNCHANGED kind
    BY DEF ShadowNext
  <1>2. shadow \in ShadowStates(kind) /\ kind' = kind
    BY <1>1 DEF ShadowTypeOK
  <1>3. shadow' \in ShadowStates(kind)
    BY <1>1, <1>2 DEF Send, ShadowStates
  <1>4. dropped' = dropped \/ dropped' = dropped \union {<<shadow, step[2]>>}
    BY <1>1 DEF Send
  <1>5. dropped' \subseteq (ShadowStates(kind) \X {t[2] : t \in Shadows[kind].code})
    BY <1>2, <1>4 DEF ShadowTypeOK
  <1> QED BY <1>1, <1>2, <1>3, <1>5 DEF ShadowTypeOK

\* A step of the code keeps the machine beside it.
LEMMA ShadowStep == ShadowInv /\ [ShadowNext]_shadowVars => ShadowInv'
PROOF
  <1> SUFFICES ASSUME ShadowInv, [ShadowNext]_shadowVars PROVE ShadowInv'
    OBVIOUS
  <1>1. ShadowTypeOK'
    BY ShadowTypes DEF ShadowInv
  <1>2. CASE UNCHANGED shadowVars
    BY <1>1, <1>2 DEF ShadowInv, shadowVars
  <1>3. CASE ShadowNext
    <2>1. PICK step \in Shadows[kind].code :
             step[1] = place /\ place' = step[3] /\ Send(step[2]) /\ kind' = kind
      BY <1>3 DEF ShadowNext
    <2> DEFINE machine == Shadows[kind].machine
               rest == Shadows[kind].rest
    <2>2. kind \in DOMAIN Shadows
      BY DEF ShadowInv, ShadowTypeOK
    <2>3. FollowsAt(machine, Beside[kind], rest, step, shadow)
      BY <2>1, <2>2, EachFollows DEF ShadowInv, Follow, Follows
    <2> HIDE DEF machine, rest
    <2>4. CASE step[2] = "none"
      <3>1. shadow' = shadow /\ dropped' = dropped /\ Along(Beside[kind], rest, place', shadow')
        BY <2>1, <2>3, <2>4 DEF Send, FollowsAt
      <3> QED BY <1>1, <2>1, <3>1 DEF ShadowInv, Along, rest
    <2>5. CASE step[2] # "none" /\ \E t \in machine : t[1] = shadow /\ t[2] = step[2]
      <3>1. PICK t \in machine : t[1] = shadow /\ t[2] = step[2] /\ shadow' = t[3] /\ dropped' = dropped
        BY <2>1, <2>5 DEF Send, machine
      <3>2. Along(Beside[kind], rest, place', shadow')
        BY <2>1, <2>3, <2>5, <3>1 DEF FollowsAt
      <3> QED BY <1>1, <2>1, <3>1, <3>2 DEF ShadowInv, Along, rest
    <2>6. CASE step[2] # "none" /\ ~ \E t \in machine : t[1] = shadow /\ t[2] = step[2]
      <3>1. dropped' = dropped \union {<<shadow, step[2]>>} /\ shadow' = shadow
        BY <2>1, <2>6 DEF Send, machine
      <3>2. <<shadow, step[2]>> \in KnownDrops /\ <<place', shadow>> \in Beside[kind]
        BY <2>1, <2>3, <2>6 DEF FollowsAt
      <3> QED BY <1>1, <2>1, <3>1, <3>2 DEF ShadowInv
    <2> QED BY <2>4, <2>5, <2>6
  <1> QED BY <1>2, <1>3 DEF shadowVars

\* On every path through its code each XState machine takes every event it is sent but
\* those it is known to ignore, and is at rest when the code returns.
THEOREM MachinesFollow == ShadowSpec => []ShadowsFollow
PROOF
  <1>1. ShadowInit => ShadowInv
    BY ShadowStart
  <1>2. ShadowInv /\ [ShadowNext]_shadowVars => ShadowInv'
    BY ShadowStep
  <1>3. ShadowInv => ShadowsFollow
    BY DEF ShadowInv, ShadowsFollow
  <1> QED BY <1>1, <1>2, <1>3, PTL DEF ShadowSpec

-----------------------------------------------------------------------------
(* The run.  A behaviour of MCDaemon is one of every module of it: of the  *)
(* one it is about and, without a step, of the others.                     *)

\* A step of the run is a step of one module, and none of the others.
LEMMA RunSteps ==
  [MCNext]_<<vars, dispatchVars, watcherVars, shadowVars, subject>>
  => /\ [Next]_vars /\ [DispatchNext]_dispatchVars
     /\ [WatcherNext]_watcherVars /\ [ShadowNext]_shadowVars
PROOF
  <1> HIDE DEF vars
  <1> QED BY DEF MCNext

\* In a run of the daemon's modules every variable of each keeps to its type, whichever
\* of them the behaviour is about.
THEOREM DaemonTypes == MCSpec => []DaemonTypeOK
PROOF
  <1> DEFINE RunInv == Inductive /\ DispatchInv /\ WatcherInv /\ ShadowInv
  <1>1. MCInit => RunInv
    BY InductiveInit, DispatchInitially, WatcherStart, ShadowStart DEF MCInit
  <1>2. RunInv /\ [MCNext]_<<vars, dispatchVars, watcherVars, shadowVars, subject>> => RunInv'
    BY RunSteps, InductiveStep, DispatchStep, WatcherStep, ShadowStep
  <1>3. RunInv => DaemonTypeOK
    BY DEF Inductive, DispatchInv, WatcherInv, ShadowInv, DaemonTypeOK
  <1> HIDE DEF RunInv
  <1> QED BY <1>1, <1>2, <1>3, PTL DEF MCSpec
=============================================================================
