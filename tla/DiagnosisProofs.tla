-------------------------- MODULE DiagnosisProofs --------------------------
(***************************************************************************)
(* Proofs about doctor and status (Diagnosis), which look at the daemon    *)
(* from outside and tell the user how it is.  They hold for any number of  *)
(* troubles.                                                               *)
(***************************************************************************)
EXTENDS UploadPipelineProofs, MCPipelineDiagnosis, TLAPS

-----------------------------------------------------------------------------
(* Diagnosis.  What a command has read of a daemon that has not changed    *)
(* since it began is what is so; and a loop that finishes its cycles has   *)
(* no old cycle on record, but for a machine that slept.                   *)

USE DiagAssumption

\* A loop that has finished a cycle since it began to run, and has not stuck, was not
\* held up by a gate since, and its last cycle is not older than its interval unless
\* the machine slept.
BegunFinish ==
  /\ begun # {} => "active" \in facts /\ "auth" \notin facts
  /\ "capture" \in begun => "full" \notin facts
  /\ \A loop \in begun : minutes[loop] # Unknown
  /\ "capture" \in begun \ halted => minutes["capture"] \in {0, 1} \/ minutes["resume"] = 0
  /\ "drain" \in begun \ halted => minutes["drain"] = 0 \/ minutes["resume"] = 0

\* What doctor has read, if nothing has changed, is what is so.
DoctorHasRead ==
  tool = "doctor" /\ steady =>
    /\ pass.step = "probes" => pass.facts = facts \cap UNION (Probes \ pass.unread)
    /\ pass.step = "database" => pass.facts = facts \cap UNION Probes
    /\ pass.step = "extended" =>
         pass.facts = facts \cap ((UNION Probes) \cup {"pending"}) /\ pass.minutes = minutes
    /\ pass.step = "advised" =>
         /\ pass.minutes["resume"] = minutes["resume"]
         /\ told = RunCheckers([facts |-> facts, tries |-> tries, minutes |-> minutes])

\* What a frame of status has read at each of its steps.
FrameReads ==
  [database |-> {"config"}, auth |-> {"config", "pending"},
   full |-> {"config", "pending", "auth"}, stopped |-> {"config", "pending", "auth", "full"},
   service |-> {"config", "pending", "auth", "full", "stopped"},
   paint |-> {"config", "pending", "auth", "full", "stopped", "active"}]

\* And so has status; without a configuration it reads no further.
StatusHasRead ==
  tool = "status" /\ steady /\ pass.step \in DOMAIN FrameReads =>
    \/ "config" \in facts /\ pass.facts = facts \cap FrameReads[pass.step]
    \/ "config" \notin facts /\ pass.facts = {} /\ pass.step = "paint"

-----------------------------------------------------------------------------
(* The facts, and what the checkers make of them.                          *)

LEMMA FactNames ==
  /\ Facts = {"config", "auth", "full", "stopped", "listed", "guard", "network", "active",
              "pending", "lock"}
  /\ UNION Probes = {"config", "auth", "full", "stopped", "listed", "guard", "network", "active"}
  /\ Probes = {{"config", "auth", "full", "stopped"}, {"listed", "guard", "network"}, {"active"}}
BY DEF Facts, Probes, Settled

LEMMA Judged ==
  ASSUME NEW s
  PROVE  /\ RunCheckers(s) \subseteq Codes
         /\ "A2" \in RunCheckers(s) <=> CheckA2(s)
         /\ "A3" \in RunCheckers(s) <=> CheckA3(s)
         /\ "A4" \in RunCheckers(s) <=> CheckA4(s)
         /\ "A5" \in RunCheckers(s) <=> CheckA5(s)
         /\ "A6" \in RunCheckers(s) <=> CheckA6(s)
         /\ "A16" \in RunCheckers(s) <=> CheckA16(s)
         /\ "B1" \in RunCheckers(s) <=> CheckB1(s)
         /\ "C3" \in RunCheckers(s) <=> CheckC3(s)
BY DEF RunCheckers, Codes, Restarting, Starting, SettingUp

\* The checkers look at the facts, the failed rescues and the times alone.
LEMMA JudgedAlike ==
  ASSUME NEW s, NEW t, s.facts = t.facts, s.tries = t.tries, s.minutes = t.minutes
  PROVE  RunCheckers(s) = RunCheckers(t)
BY DEF RunCheckers, CheckA1, CheckA2, CheckA3, CheckA4, CheckA5, CheckA16, CheckA17, CheckA6,
       CheckB1, CheckC2, CheckC3, CheckC4, CheckE5, Without, Stale, Resumed, Recorded

-----------------------------------------------------------------------------
(* Types.                                                                  *)

PassT == [step : Steps, unread : SUBSET Probes, facts : SUBSET Facts,
          tries : 0 .. BreakerAt, minutes : [Works \cup {"resume"} -> Minutes]]
MinutesT == [Works \cup {"resume"} -> Minutes]
DaemonTyped == /\ facts \subseteq Facts /\ halted \subseteq Works /\ begun \subseteq Works
               /\ rejected \subseteq {"file", "process"} /\ minutes \in MinutesT
CountsTyped == tries \in 0 .. BreakerAt /\ troubles \in 0 .. MaxTroubles
FlagsTyped == /\ stopping \in BOOLEAN /\ steady \in BOOLEAN /\ tool \in {"doctor", "status"}
              /\ screen \in {"shell", "held", "spoiled"}
ToldTyped == \/ tool = "doctor" /\ told \subseteq Codes
             \/ tool = "status" /\ told \subseteq Levels \X Healths
Typed == DaemonTyped /\ CountsTyped /\ FlagsTyped /\ ToldTyped /\ pass \in PassT

LooksInv == Typed /\ BegunFinish /\ DoctorHasRead /\ StatusHasRead /\ ScreenIsTrue

LEMMA TypesInParts == DiagTypeOK <=> Typed
BY DEF DiagTypeOK, Typed, PassT, MinutesT, DaemonTyped, CountsTyped, FlagsTyped, ToldTyped

LEMMA NoPassTyped == NoPass \in PassT /\ NoPass.minutes \in MinutesT
BY DEF NoPass, PassT, MinutesT, Steps, BreakerAt, Works, Minutes, Unknown, Oldest

LEMMA Stepped ==
  ASSUME NEW p \in PassT, NEW to \in Steps
  PROVE  [p EXCEPT !.step = to] \in PassT
BY DEF PassT

LEMMA WithMinutes ==
  ASSUME NEW p \in PassT, NEW m \in MinutesT
  PROVE  [p EXCEPT !.minutes = m] \in PassT
BY DEF PassT, MinutesT

LEMMA WithFacts ==
  ASSUME NEW p \in PassT, NEW f \in SUBSET Facts
  PROVE  [p EXCEPT !.facts = f] \in PassT
BY DEF PassT

LEMMA WithUnread ==
  ASSUME NEW p \in PassT, NEW u \in SUBSET Probes
  PROVE  [p EXCEPT !.unread = u] \in PassT
BY DEF PassT

LEMMA ReadsTyped ==
  ASSUME pass \in PassT, NEW more \in SUBSET Facts
  PROVE  Reads(more) \in PassT
BY DEF PassT, Reads

LEMMA DiagStart == DiagInit => LooksInv
<1> SUFFICES ASSUME DiagInit PROVE LooksInv
  OBVIOUS
<1>1. NoPass.minutes = [k \in Works \cup {"resume"} |-> Unknown] /\ NoPass.step = "idle"
  BY DEF NoPass
<1>2. /\ minutes \in MinutesT
      /\ begun # {} => minutes["capture"] = 0 /\ minutes["drain"] = 0
  <2>1. CASE minutes = NoPass.minutes /\ begun = {}
    BY <2>1, NoPassTyped
  <2>2. CASE minutes = [NoPass.minutes EXCEPT !["capture"] = 0, !["drain"] = 0]
    <3>1. 0 \in Minutes
      BY DEF Minutes, Oldest
    <3>2. "capture" \in Works \cup {"resume"} /\ "drain" \in Works \cup {"resume"}
      BY DEF Works
    <3> QED
      BY <2>2, <3>1, <3>2, NoPassTyped DEF MinutesT
  <2> QED
    BY <2>1, <2>2 DEF DiagInit
<1>4. Typed
  <2>1. DaemonTyped
    BY <1>2, FactNames DEF DiagInit, Healthy, DaemonTyped
  <2>2. CountsTyped /\ FlagsTyped /\ ToldTyped
    <3>1. CountsTyped
      BY DEF DiagInit, CountsTyped, BreakerAt
    <3>2. FlagsTyped
      BY DEF DiagInit, FlagsTyped
    <3>3. ToldTyped
      BY DEF DiagInit, ToldTyped
    <3> QED
      BY <3>1, <3>2, <3>3
  <2> QED
    BY <2>1, <2>2, NoPassTyped DEF DiagInit, Typed
<1>5. BegunFinish
  <2>1. "active" \in facts \/ begun = {}
    BY DEF DiagInit, Healthy
  <2>2. "auth" \notin facts /\ "full" \notin facts
    BY DEF DiagInit, Healthy
  <2>3. begun \subseteq Works
    BY <1>4 DEF Typed, DaemonTyped
  <2> QED
    <3>1. \A loop \in begun : minutes[loop] = 0
      BY <1>2, <2>3 DEF Works
    <3> QED
      BY <2>1, <2>2, <3>1 DEF BegunFinish, Unknown
<1>6. DoctorHasRead /\ StatusHasRead /\ ScreenIsTrue
  BY DEF DiagInit, DoctorHasRead, StatusHasRead, ScreenIsTrue
<1> QED
  BY <1>4, <1>5, <1>6 DEF LooksInv

WorldFrame == UNCHANGED <<tool, told, screen>> /\ steady' = FALSE

LEMMA WorldTypes ==
  ASSUME Typed, World
  PROVE  Typed' /\ WorldFrame
<1>1. \A age \in Minutes : Aged(age) \in Minutes
  BY DEF Aged, Minutes, Unknown, Oldest
<1>2. WorldFrame
  BY DEF World, Minute, StopHalts, Dies, Revokes, Fills, LeavesLock, GivesUp, Wakes, StopMarks,
         Sticks, Loses, Trouble, look, WorldFrame
<1>3. ToldTyped'
  BY <1>2 DEF WorldFrame, ToldTyped, Typed
<1>4. FlagsTyped'
  <2>1. stopping' \in BOOLEAN
    BY DEF World, Minute, StopHalts, Dies, Revokes, Fills, LeavesLock, GivesUp, Wakes,
           StopMarks, Sticks, Loses, Typed, FlagsTyped
  <2> QED
    BY <1>2, <2>1 DEF WorldFrame, FlagsTyped, Typed
<1>5. CountsTyped'
  <2>1. tries' \in {tries, 0, BreakerAt}
    BY DEF World, Minute, StopHalts, Dies, Revokes, Fills, LeavesLock, GivesUp, Wakes,
           StopMarks, Sticks, Loses
  <2>2. troubles' = troubles \/ Trouble
    BY DEF World, Minute, StopHalts, Dies, Revokes, Fills, LeavesLock, GivesUp, Wakes,
           StopMarks, Sticks, Loses
  <2> QED
    BY <2>1, <2>2 DEF Trouble, Typed, CountsTyped, BreakerAt
<1>6. minutes' \in MinutesT
  <2>1. CASE Minute
    BY <1>1, <2>1 DEF Minute, Typed, DaemonTyped, MinutesT, Minutes, Oldest
  <2>2. CASE Wakes
    BY <2>2 DEF Wakes, Typed, DaemonTyped, MinutesT, Minutes, Oldest, Unknown
  <2> QED
    BY <2>1, <2>2 DEF World, StopHalts, Dies, Revokes, Fills, LeavesLock, GivesUp, StopMarks,
                      Sticks, Loses, Typed, DaemonTyped
<1>7. /\ halted' \subseteq Works /\ begun' \subseteq Works
      /\ rejected' \subseteq {"file", "process"}
  <2>1. CASE Minute
    BY <2>1 DEF Minute, Typed, DaemonTyped
  <2> QED
    BY <2>1 DEF World, StopHalts, Dies, ProcessEnds, Revokes, Fills, LeavesLock, GivesUp, Wakes,
                StopMarks, Sticks, Loses, progress, Typed, DaemonTyped
<1>8. facts' \subseteq facts \cup {"auth", "full", "pending", "lock", "stopped"}
  <2>1. CASE Minute
    BY <2>1 DEF Minute, Refused
  <2> QED
    BY <2>1 DEF World, StopHalts, Dies, ProcessEnds, Revokes, Fills, LeavesLock, GivesUp, Wakes,
                StopMarks, Sticks, Loses
<1>9. pass' \in PassT
  <2>1. CASE Minute
    <3>1. pass \in PassT /\ pass.minutes \in MinutesT
      BY DEF Typed, PassT, MinutesT
    <3>2. [k \in DOMAIN pass.minutes |-> Aged(pass.minutes[k])] \in MinutesT
      BY <1>1, <3>1 DEF MinutesT
    <3> QED
      BY <2>1, <3>1, <3>2, WithMinutes DEF Minute
  <2> QED
    BY <2>1 DEF World, StopHalts, Dies, Revokes, Fills, LeavesLock, GivesUp, Wakes, StopMarks,
                Sticks, Loses, Trouble, look, Typed
<1> QED
  BY <1>2, <1>3, <1>4, <1>5, <1>6, <1>7, <1>8, <1>9, FactNames DEF Typed, DaemonTyped

-----------------------------------------------------------------------------
(* A pass of doctor.                                                       *)

DoctorFrame == tool = "doctor" /\ UNCHANGED <<tool, minutes, tries, stopping, screen>>

LEMMA DoctorTypes ==
  ASSUME Typed, Doctor
  PROVE  Typed' /\ DoctorFrame
<1>1. DoctorFrame
  BY DEF Doctor, DoctorStart, DoctorProbe, DoctorProbeFails, DoctorQuery, DoctorQueryFails,
         DoctorReport, FollowRestart, FollowStart, FollowSetup, FollowNetwork, NothingToDo,
         Heeds, Elsewhere, DoctorFrame
<1>2. FlagsTyped'
  <2>1. steady' \in {steady, TRUE, FALSE}
    BY DEF Doctor, DoctorStart, DoctorProbe, DoctorProbeFails, DoctorQuery, DoctorQueryFails,
           DoctorReport, FollowRestart, FollowStart, FollowSetup, FollowNetwork, NothingToDo,
           Heeds
  <2> QED
    BY <1>1, <2>1 DEF Typed, FlagsTyped, DoctorFrame
<1>3. CountsTyped'
  <2>1. troubles' = troubles \/ (troubles < MaxTroubles /\ troubles' = troubles + 1)
    BY DEF Doctor, DoctorStart, DoctorProbe, DoctorProbeFails, DoctorQuery, DoctorQueryFails,
           DoctorReport, FollowRestart, FollowStart, FollowSetup, FollowNetwork, NothingToDo,
           Heeds, Elsewhere
  <2> QED
    BY <1>1, <2>1 DEF Typed, CountsTyped, DoctorFrame
<1>4. ToldTyped'
  <2>1. told' \subseteq told \/ DoctorReport
    BY DEF Doctor, DoctorStart, DoctorProbe, DoctorProbeFails, DoctorQuery, DoctorQueryFails,
           DoctorReport, FollowRestart, FollowStart, FollowSetup, FollowNetwork, NothingToDo,
           Heeds
  <2>2. DoctorReport => told' \subseteq Codes
    BY Judged DEF DoctorReport
  <2> QED
    BY <1>1, <2>1, <2>2 DEF Typed, ToldTyped, DoctorFrame
<1>5. facts' \subseteq facts \cup {"config", "listed", "active", "guard", "network"}
      /\ halted' \subseteq halted /\ begun' \subseteq begun
      /\ rejected' \subseteq rejected \cup {"file", "process"}
  <2>1. CASE FollowRestart \/ FollowStart
    BY <2>1 DEF FollowRestart, FollowStart, ProcessStarts, progress
  <2>2. CASE FollowSetup
    BY <2>2 DEF FollowSetup, SetupSucceeds, progress
  <2> QED
    BY <2>1, <2>2 DEF Doctor, DoctorStart, DoctorProbe, DoctorProbeFails, DoctorQuery,
       DoctorQueryFails, DoctorReport, FollowNetwork, NothingToDo, Elsewhere, progress
<1>6. DaemonTyped'
  BY <1>1, <1>5, FactNames DEF Typed, DaemonTyped, DoctorFrame
<1>7. pass' \in PassT
  <2>1. \E p \in PassT, to \in Steps : pass' = [p EXCEPT !.step = to]
    <3>1. CASE DoctorStart
      BY <3>1, NoPassTyped, WithUnread DEF DoctorStart, Step, Steps
    <3>2. ASSUME NEW probe \in Probes, DoctorProbe(probe)
          PROVE  \E p \in PassT, to \in Steps : pass' = [p EXCEPT !.step = to]
      <4>1. Reads(probe) \in PassT
        BY ReadsTyped DEF Typed, Facts
      <4>2. [Reads(probe) EXCEPT !.unread = @ \ {probe}] \in PassT
        BY <4>1 DEF PassT
      <4> QED
        BY <3>2, <4>2 DEF DoctorProbe, Step, Steps
    <3>3. CASE DoctorProbeFails
      <4>1. Reads(Settled \ {"listed"}) \in PassT
        BY ReadsTyped, FactNames DEF Typed, Settled
      <4>2. [Reads(Settled \ {"listed"}) EXCEPT !.unread = @ \ ServiceProbes] \in PassT
        BY <4>1 DEF PassT
      <4> QED
        BY <3>3, <4>2 DEF DoctorProbeFails, Step, Steps
    <3>4. CASE DoctorQuery
      <4>1. Reads({"pending"}) \in PassT
        BY ReadsTyped, FactNames DEF Typed
      <4>2. [Reads({"pending"}) EXCEPT !.minutes = minutes] \in PassT
        BY <4>1, WithMinutes DEF Typed, DaemonTyped
      <4> QED
        BY <3>4, <4>2 DEF DoctorQuery, Step, Steps
    <3>5. CASE DoctorQueryFails
      BY <3>5 DEF DoctorQueryFails, Step, Steps, Typed
    <3>6. CASE DoctorReport
      <4>1. [NoPass EXCEPT !.minutes["resume"] = pass.minutes["resume"]] \in PassT
        BY NoPassTyped DEF Typed, PassT
      <4> QED
        BY <3>6, <4>1 DEF DoctorReport, Step, Steps
    <3>7. CASE FollowRestart \/ FollowStart \/ FollowSetup \/ FollowNetwork \/ NothingToDo
      BY <3>7, NoPassTyped DEF FollowRestart, FollowStart, FollowSetup, FollowNetwork,
                               NothingToDo, Heeds, Step, Steps
    <3> QED
      BY <3>1, <3>2, <3>3, <3>4, <3>5, <3>6, <3>7 DEF Doctor
  <2> QED
    BY <2>1, Stepped
<1> QED
  BY <1>1, <1>2, <1>3, <1>4, <1>6, <1>7 DEF Typed

\* What one more probe reads is what is so of it, if the facts stay.
LEMMA DoctorReads ==
  ASSUME Typed, DoctorHasRead, Doctor
  PROVE  DoctorHasRead'
<1> SUFFICES ASSUME steady'
             PROVE  /\ pass'.step = "probes" => pass'.facts = facts' \cap UNION (Probes \ pass'.unread)
                    /\ pass'.step = "database" => pass'.facts = facts' \cap UNION Probes
                    /\ pass'.step = "extended" =>
                         /\ pass'.facts = facts' \cap ((UNION Probes) \cup {"pending"})
                         /\ pass'.minutes = minutes'
                    /\ pass'.step = "advised" =>
                         /\ pass'.minutes["resume"] = minutes'["resume"]
                         /\ told' = RunCheckers([facts |-> facts', tries |-> tries', minutes |-> minutes'])
  BY DEF DoctorHasRead
<1>1. pass \in PassT /\ pass.unread \subseteq Probes /\ DoctorFrame /\ NoPass \in PassT
  BY DoctorTypes, NoPassTyped DEF Typed, PassT
<1>2. CASE DoctorStart
  <2>1. pass'.step = "probes" /\ pass'.unread = Probes /\ pass'.facts = {}
    BY <1>2 DEF DoctorStart, Step, NoPass
  <2> QED
    BY <2>1
<1>3. ASSUME NEW probe \in Probes, DoctorProbe(probe)
      PROVE  /\ pass'.step = "probes" => pass'.facts = facts' \cap UNION (Probes \ pass'.unread)
             /\ pass'.step = "database" => pass'.facts = facts' \cap UNION Probes
             /\ pass'.step \in {"probes", "database"}
  <2>1. pass.facts = facts \cap UNION (Probes \ pass.unread) /\ UNCHANGED facts
    BY <1>3 DEF DoctorProbe, Step, Elsewhere, DoctorHasRead
  <2>2. /\ pass'.facts = pass.facts \cup (probe \cap facts)
        /\ pass'.unread = pass.unread \ {probe}
        /\ pass'.step = IF pass.unread = {probe} THEN "database" ELSE "probes"
    BY <1>1, <1>3 DEF DoctorProbe, Step, Reads, PassT
  <2>3. Probes \ pass'.unread = (Probes \ pass.unread) \cup {probe}
    BY <1>1, <1>3, <2>2
  <2>4. pass'.facts = facts' \cap UNION (Probes \ pass'.unread)
    BY <2>1, <2>2, <2>3
  <2>5. pass'.step = "database" => Probes \ pass'.unread = Probes
    BY <2>2
  <2> QED
    BY <2>2, <2>4, <2>5
<1>4. CASE DoctorQuery
  <2>1. /\ pass'.facts = pass.facts \cup ({"pending"} \cap facts) /\ pass'.minutes = minutes
        /\ pass'.step = "extended"
    BY <1>1, <1>4 DEF DoctorQuery, Step, Reads, PassT
  <2>2. pass.facts = facts \cap UNION Probes /\ UNCHANGED <<facts, minutes>>
    BY <1>4 DEF DoctorQuery, Step, Elsewhere, DoctorHasRead
  <2> QED
    BY <2>1, <2>2
<1>5. CASE DoctorReport
  <2>1. /\ pass.facts = facts \cap ((UNION Probes) \cup {"pending"}) /\ pass.minutes = minutes
        /\ UNCHANGED <<facts, minutes, tries>>
    BY <1>5 DEF DoctorReport, Step, Elsewhere, DoctorHasRead
  <2>2. pass'.step = "advised" /\ pass'.minutes["resume"] = pass.minutes["resume"]
    BY <1>1, <1>5 DEF DoctorReport, Step, NoPass
  <2> DEFINE s == [Reads({"lock"}) EXCEPT !.tries = tries]
  <2>3. s.facts = facts
    <3>1. s.facts = pass.facts \cup ({"lock"} \cap facts)
      BY <1>1 DEF Reads, PassT
    <3>2. facts \subseteq (UNION Probes) \cup {"pending", "lock"}
      BY DEF Typed, DaemonTyped, Facts
    <3> QED
      BY <2>1, <3>1, <3>2
  <2>4. s.tries = tries /\ s.minutes = minutes
    BY <1>1, <2>1 DEF Reads, PassT
  <2>5. told' = RunCheckers(s)
    BY <1>5 DEF DoctorReport
  <2> DEFINE t == [facts |-> facts', tries |-> tries', minutes |-> minutes']
  <2>6. s.facts = t.facts /\ s.tries = t.tries /\ s.minutes = t.minutes
    BY <2>1, <2>3, <2>4
  <2> HIDE DEF s, t
  <2>7. RunCheckers(s) = RunCheckers(t)
    BY <2>6, JudgedAlike
  <2> QED
    BY <2>1, <2>2, <2>5, <2>7 DEF t
<1>6. CASE NothingToDo
  BY <1>1, <1>6 DEF NothingToDo, Step, PassT
<1>7. ~DoctorProbeFails /\ ~DoctorQueryFails /\ ~FollowRestart /\ ~FollowStart /\ ~FollowSetup
      /\ ~FollowNetwork
  BY DEF DoctorProbeFails, DoctorQueryFails, FollowRestart, FollowStart, FollowSetup,
         FollowNetwork, Heeds
<1> QED
  BY <1>2, <1>3, <1>4, <1>5, <1>6, <1>7 DEF Doctor

-----------------------------------------------------------------------------
(* The frames of status.                                                   *)

StatusFrame ==
  tool = "status" /\ UNCHANGED <<tool, facts, tries, halted, begun, rejected, minutes, stopping>>

LEMMA Frames ==
  ASSUME NEW s \in PassT
  PROVE  <<Level(s), Health(s)>> \in Levels \X Healths
BY DEF Level, Health, Levels, Healths

LEMMA StatusTypes ==
  ASSUME Typed, Status
  PROVE  Typed' /\ StatusFrame
<1>1. StatusFrame
  BY DEF Status, StatusOpens, StatusQuits, StatusTick, StatusQuery, StatusSentinel, StatusService,
         StatusFails, StatusPaint, Elsewhere, progress, StatusFrame
<1>2. FlagsTyped'
  <2>1. steady' \in {steady, TRUE}
    BY DEF Status, StatusOpens, StatusQuits, StatusTick, StatusQuery, StatusSentinel,
           StatusService, StatusFails, StatusPaint
  <2>2. screen' \in {screen, "held", "shell", "spoiled"}
    BY DEF Status, StatusOpens, StatusQuits, StatusTick, StatusQuery, StatusSentinel,
           StatusService, StatusFails, StatusPaint, Painted
  <2> QED
    BY <1>1, <2>1, <2>2 DEF Typed, FlagsTyped, StatusFrame
<1>3. CountsTyped'
  <2>1. troubles' = troubles \/ (troubles < MaxTroubles /\ troubles' = troubles + 1)
    BY DEF Status, StatusOpens, StatusQuits, StatusTick, StatusQuery, StatusSentinel,
           StatusService, StatusFails, StatusPaint, Elsewhere
  <2> QED
    BY <1>1, <2>1 DEF Typed, CountsTyped, StatusFrame
<1>4. ToldTyped'
  <2>1. told' \in {told, {}} \/ told' = {<<Level(pass), Health(pass)>>}
    BY DEF Status, StatusOpens, StatusQuits, StatusTick, StatusQuery, StatusSentinel,
           StatusService, StatusFails, StatusPaint
  <2>2. told \subseteq Levels \X Healths
    BY <1>1 DEF Typed, ToldTyped, StatusFrame
  <2>3. told' \subseteq Levels \X Healths
    BY <2>1, <2>2, Frames DEF Typed
  <2> QED
    BY <1>1, <2>3 DEF ToldTyped, StatusFrame
<1>5. DaemonTyped'
  BY <1>1 DEF Typed, DaemonTyped, StatusFrame
<1>6. pass' \in PassT
  <2>1. CASE StatusOpens \/ StatusQuits
    BY <2>1 DEF StatusOpens, StatusQuits, Typed
  <2>2. CASE StatusTick
    <3>1. [NoPass EXCEPT !.facts = {"config"} \cap facts] \in PassT
      BY NoPassTyped, WithFacts DEF Typed, DaemonTyped
    <3> QED
      BY <2>2, <3>1, Stepped DEF StatusTick, Step, Steps
  <2>3. CASE StatusQuery
    <3>1. [Reads({"pending"}) EXCEPT !.minutes = minutes] \in PassT
      BY ReadsTyped, FactNames, WithMinutes DEF Typed, DaemonTyped
    <3> QED
      BY <2>3, <3>1, Stepped DEF StatusQuery, Step, Steps
  <2>4. CASE StatusSentinel \/ StatusService
    <3>1. \E f \in Facts, to \in Steps : pass' = [Reads({f}) EXCEPT !.step = to]
      BY <2>4, FactNames DEF StatusSentinel, StatusService, Step, Steps
    <3> QED
      BY <3>1, ReadsTyped, Stepped DEF Typed
  <2>5. CASE StatusFails \/ StatusPaint
    BY <2>5, NoPassTyped, Stepped DEF StatusFails, StatusPaint, Step, Steps
  <2> QED
    BY <2>1, <2>2, <2>3, <2>4, <2>5 DEF Status
<1> QED
  BY <1>1, <1>2, <1>3, <1>4, <1>5, <1>6 DEF Typed

LEMMA StatusReads ==
  ASSUME Typed, StatusHasRead, Status
  PROVE  StatusHasRead'
<1> SUFFICES ASSUME steady', pass'.step \in DOMAIN FrameReads
             PROVE  \/ "config" \in facts' /\ pass'.facts = facts' \cap FrameReads[pass'.step]
                    \/ "config" \notin facts' /\ pass'.facts = {} /\ pass'.step = "paint"
  BY DEF StatusHasRead
<1>1. pass \in PassT /\ StatusFrame /\ NoPass \in PassT
  BY StatusTypes, NoPassTyped DEF Typed
<1>2. CASE StatusOpens \/ StatusQuits
  BY <1>1, <1>2 DEF StatusOpens, StatusQuits, StatusHasRead, StatusFrame
<1>3. CASE StatusTick
  <2>1. /\ pass'.facts = {"config"} \cap facts
        /\ pass'.step = IF "config" \in facts THEN "database" ELSE "paint"
    BY <1>3 DEF StatusTick, Step, NoPass
  <2> QED
    BY <1>1, <2>1 DEF FrameReads, StatusFrame
<1>4. ASSUME NEW f, NEW from, NEW to, pass.step = from, pass'.step = to, UNCHANGED steady,
             from \in {"database", "auth", "full", "stopped", "service"},
             to \in DOMAIN FrameReads, FrameReads[to] = FrameReads[from] \cup {f},
             pass'.facts = pass.facts \cup ({f} \cap facts)
      PROVE  "config" \in facts' /\ pass'.facts = facts' \cap FrameReads[pass'.step]
  <2>1. "config" \in facts /\ pass.facts = facts \cap FrameReads[from]
    BY <1>1, <1>4 DEF StatusHasRead, StatusFrame, FrameReads
  <2> QED
    BY <1>1, <1>4, <2>1 DEF StatusFrame
<1>5. /\ FrameReads["auth"] = FrameReads["database"] \cup {"pending"}
      /\ FrameReads["full"] = FrameReads["auth"] \cup {"auth"}
      /\ FrameReads["stopped"] = FrameReads["full"] \cup {"full"}
      /\ FrameReads["service"] = FrameReads["stopped"] \cup {"stopped"}
      /\ FrameReads["paint"] = FrameReads["service"] \cup {"active"}
      /\ {"auth", "full", "stopped", "service", "paint"} \subseteq DOMAIN FrameReads
  BY DEF FrameReads
<1>6. CASE StatusQuery
  <2>1. pass.step = "database" /\ pass'.step = "auth" /\ UNCHANGED steady
        /\ pass'.facts = pass.facts \cup ({"pending"} \cap facts)
    BY <1>1, <1>6 DEF StatusQuery, Step, Reads, PassT
  <2> QED
    BY <1>4, <1>5, <2>1
<1>7. CASE StatusSentinel \/ StatusService
  <2>1. ASSUME NEW f, NEW from, NEW to, Step(from, to, Reads({f}))
        PROVE  pass.step = from /\ pass'.step = to /\ pass'.facts = pass.facts \cup ({f} \cap facts)
    BY <1>1, <2>1 DEF Step, Reads, PassT
  <2>2. UNCHANGED steady
    BY <1>7 DEF StatusSentinel, StatusService
  <2>3. CASE Step("auth", "full", Reads({"auth"}))
    <3>1. /\ pass.step = "auth" /\ pass'.step = "full"
          /\ pass'.facts = pass.facts \cup ({"auth"} \cap facts)
      BY <2>1, <2>3
    <3> QED
      BY <1>4, <1>5, <2>2, <3>1
  <2>4. CASE Step("full", "stopped", Reads({"full"}))
    <3>1. /\ pass.step = "full" /\ pass'.step = "stopped"
          /\ pass'.facts = pass.facts \cup ({"full"} \cap facts)
      BY <2>1, <2>4
    <3> QED
      BY <1>4, <1>5, <2>2, <3>1
  <2>5. CASE Step("stopped", "service", Reads({"stopped"}))
    <3>1. /\ pass.step = "stopped" /\ pass'.step = "service"
          /\ pass'.facts = pass.facts \cup ({"stopped"} \cap facts)
      BY <2>1, <2>5
    <3> QED
      BY <1>4, <1>5, <2>2, <3>1
  <2>6. CASE Step("service", "paint", Reads({"active"}))
    <3>1. /\ pass.step = "service" /\ pass'.step = "paint"
          /\ pass'.facts = pass.facts \cup ({"active"} \cap facts)
      BY <2>1, <2>6
    <3> QED
      BY <1>4, <1>5, <2>2, <3>1
  <2> QED
    BY <1>7, <2>3, <2>4, <2>5, <2>6 DEF StatusSentinel, StatusService
<1>8. CASE StatusFails \/ StatusPaint
  BY <1>1, <1>8 DEF StatusFails, StatusPaint, Step, PassT, FrameReads
<1> QED
  BY <1>2, <1>3, <1>6, <1>7, <1>8 DEF Status

\* A frame is painted only by who holds the screen, of what is so.
LEMMA ScreenKept ==
  ASSUME Typed, StatusHasRead, ScreenIsTrue, Status
  PROVE  ScreenIsTrue'
<1>1. pass \in PassT /\ StatusFrame
  BY StatusTypes DEF Typed
<1>2. screen' # "spoiled"
  BY DEF ScreenIsTrue, Status, StatusOpens, StatusQuits, StatusTick, StatusQuery, StatusSentinel,
         StatusService, StatusFails, StatusPaint, Painted
<1>3. ASSUME steady', NEW frame \in told'
      PROVE  /\ frame[1] = "ok" <=> {"config", "active"} \subseteq facts'
                                    /\ facts' \cap {"auth", "full", "stopped"} = {}
             /\ frame[2] = "error" => frame[1] # "ok"
  <2>1. CASE UNCHANGED <<steady, told>>
    BY <1>1, <1>3, <2>1 DEF ScreenIsTrue, StatusFrame
  <2>2. CASE StatusPaint /\ frame = <<Level(pass), Health(pass)>>
    <3>1. \/ "config" \in facts /\ pass.facts = facts \cap FrameReads["paint"]
          \/ "config" \notin facts /\ pass.facts = {}
      BY <1>1, <1>3, <2>2 DEF StatusPaint, Step, StatusHasRead, StatusFrame, FrameReads
    <3>2. frame[1] = Level(pass) /\ frame[2] = Health(pass)
      BY <2>2
    <3>3. CASE "config" \notin facts /\ pass.facts = {}
      BY <1>1, <3>2, <3>3 DEF Level, StatusFrame
    <3>4. CASE "config" \in facts /\ pass.facts = facts \cap FrameReads["paint"]
      <4>1. \A f \in {"config", "auth", "full", "stopped", "active"} :
              f \in pass.facts <=> f \in facts
        BY <3>4 DEF FrameReads
      <4>2. Level(pass) = "ok" <=> {"config", "active"} \subseteq facts
                                   /\ facts \cap {"auth", "full", "stopped"} = {}
        BY <4>1 DEF Level, Without
      <4>3. Health(pass) = "error" => Level(pass) # "ok"
        BY <4>1 DEF Level, Health, Without
      <4> QED
        BY <1>1, <3>2, <4>2, <4>3 DEF StatusFrame
    <3> QED
      BY <3>1, <3>3, <3>4
  <2>3. UNCHANGED <<steady, told>> \/ (StatusPaint /\ frame = <<Level(pass), Health(pass)>>)
    BY <1>3 DEF Status, StatusOpens, StatusQuits, StatusTick, StatusQuery, StatusSentinel,
                StatusService, StatusFails, StatusPaint
  <2> QED
    BY <2>1, <2>2, <2>3
<1> QED
  BY <1>2, <1>3 DEF ScreenIsTrue

-----------------------------------------------------------------------------
(* The loops.                                                              *)

LEMMA DoctorKeepsLoops ==
  ASSUME Typed, BegunFinish, Doctor
  PROVE  BegunFinish'
<1>1. UNCHANGED minutes /\ \/ UNCHANGED <<halted, begun>> \/ begun' = {}
  <2>1. UNCHANGED minutes
    BY DoctorTypes DEF DoctorFrame
  <2>2. CASE FollowRestart \/ FollowStart \/ FollowSetup
    BY <2>1, <2>2 DEF FollowRestart, FollowStart, FollowSetup, SetupSucceeds, ProcessStarts,
                      progress
  <2> QED
    BY <2>1, <2>2 DEF Doctor, DoctorStart, DoctorProbe, DoctorProbeFails, DoctorQuery,
       DoctorQueryFails, DoctorReport, FollowNetwork, NothingToDo, Elsewhere, progress
<1>2. CASE begun' = {}
  BY <1>2 DEF BegunFinish
<1>3. CASE UNCHANGED <<halted, begun>> /\ ~FollowRestart
  <2>1. /\ "active" \in facts => "active" \in facts'
        /\ "auth" \in facts' => "auth" \in facts
        /\ "full" \in facts' => "full" \in facts
    BY <1>3 DEF Doctor, DoctorStart, DoctorProbe, DoctorProbeFails, DoctorQuery,
       DoctorQueryFails, DoctorReport, FollowStart, FollowSetup, SetupSucceeds,
       FollowNetwork, NothingToDo, Elsewhere
  <2> QED
    BY <1>1, <1>3, <2>1 DEF BegunFinish
<1>4. FollowRestart => begun' = {}
  BY DEF FollowRestart, ProcessStarts
<1> QED
  BY <1>1, <1>2, <1>3, <1>4

LEMMA MinuteKeepsLoops ==
  ASSUME Typed, BegunFinish, Minute
  PROVE  BegunFinish'
<1>0. CASE Refused # {}
  BY <1>0 DEF Minute, BegunFinish
<1> SUFFICES ASSUME Refused = {}
             PROVE  BegunFinish'
  BY <1>0
<1>1. /\ minutes \in MinutesT /\ begun \subseteq Works /\ halted \subseteq Works
      /\ halted' = halted /\ begun' = begun \cup {l \in Works : Finishes(l)}
      /\ \A k \in Works \cup {"resume"} :
           minutes'[k] = IF k \in Works /\ Finishes(k) THEN 0 ELSE Aged(minutes[k])
  BY DEF Minute, Typed, DaemonTyped, MinutesT
<1>2. ASSUME NEW loop \in Works, Finishes(loop)
      PROVE  /\ "active" \in facts /\ "auth" \notin facts
             /\ loop = "capture" => "full" \notin facts
             /\ minutes'[loop] = 0
  BY <1>1, <1>2 DEF Finishes, Runs, DrainGated, CaptureGated, Works
<1>3. /\ begun' # {} => "active" \in facts /\ "auth" \notin facts
      /\ "capture" \in begun' => "full" \notin facts
  BY <1>1, <1>2 DEF BegunFinish
<1>4. /\ "active" \in facts => "active" \in facts'
      /\ "auth" \in facts' => "auth" \in facts
      /\ "full" \in facts' => "full" \in facts
  BY DEF Minute, Emptied, Recoverable
<1>5. \A loop \in begun : loop \in Works /\ minutes[loop] # Unknown /\ minutes[loop] \in Minutes
  BY <1>1 DEF BegunFinish, MinutesT
<1>6. ASSUME NEW loop \in begun'
      PROVE  minutes'[loop] # Unknown
  <2>1. CASE Finishes(loop)
    BY <1>1, <1>2, <1>6, <2>1 DEF Unknown
  <2>2. CASE ~Finishes(loop)
    <3>1. loop \in begun /\ minutes'[loop] = Aged(minutes[loop])
      BY <1>1, <1>6, <2>2
    <3> QED
      BY <1>5, <3>1 DEF Aged, Minutes, Unknown, Oldest
  <2> QED
    BY <2>1, <2>2
<1>7. ASSUME "drain" \in begun' \ halted'
      PROVE  minutes'["drain"] = 0
  <2>1. Finishes("drain")
    BY <1>1, <1>7 DEF BegunFinish, Finishes, Runs, DrainGated
  <2> QED
    BY <1>2, <2>1 DEF Works
<1>8. ASSUME "capture" \in begun' \ halted'
      PROVE  minutes'["capture"] \in {0, 1}
  <2>1. CASE Finishes("capture")
    BY <1>2, <2>1 DEF Works
  <2>2. CASE ~Finishes("capture")
    <3>1. "capture" \in begun /\ minutes'["capture"] = Aged(minutes["capture"])
      BY <1>1, <1>8, <2>2 DEF Works
    <3>2. ~(minutes["capture"] >= CaptureInterval - 1)
      BY <1>1, <1>8, <2>2, <3>1
      DEF BegunFinish, Finishes, Runs, DrainGated, CaptureGated
    <3>3. minutes["capture"] = 0
      BY <1>5, <3>1, <3>2 DEF Minutes, Unknown, Oldest, CaptureInterval
    <3> QED
      BY <3>1, <3>3 DEF Aged, Unknown, Oldest
  <2> QED
    BY <2>1, <2>2
<1> QED
  BY <1>3, <1>4, <1>6, <1>7, <1>8 DEF BegunFinish

LEMMA WorldKeepsLoops ==
  ASSUME Typed, BegunFinish, World
  PROVE  BegunFinish'
<1>1. CASE Minute
  BY <1>1, MinuteKeepsLoops
<1>2. CASE Dies \/ Revokes
  BY <1>2 DEF Dies, ProcessEnds, Revokes, BegunFinish
<1>3. CASE Fills
  <2>1. begun' = begun \ {"capture"} /\ facts' = facts \cup {"full", "pending"}
        /\ UNCHANGED <<halted, minutes>>
    BY <1>3 DEF Fills
  <2> QED
    BY <2>1 DEF BegunFinish
<1>4. CASE Wakes
  <2>1. /\ UNCHANGED <<facts, halted, begun>>
        /\ minutes'["resume"] = 0
        /\ \A loop \in begun : minutes[loop] # Unknown => minutes'[loop] # Unknown
    BY <1>4 DEF Wakes, Typed, DaemonTyped, MinutesT, progress, Works, Oldest, Unknown
  <2> QED
    BY <2>1 DEF BegunFinish
<1>5. ASSUME NEW loop \in Works, Sticks(loop)
      PROVE  BegunFinish'
  BY <1>5 DEF Sticks, BegunFinish
<1>6. CASE LeavesLock \/ GivesUp \/ StopMarks \/ \E fact \in {"network", "listed", "guard"} : Loses(fact)
  <2>1. /\ UNCHANGED <<halted, begun, minutes>>
        /\ "active" \in facts => "active" \in facts'
        /\ "auth" \in facts' => "auth" \in facts
        /\ "full" \in facts' => "full" \in facts
    BY <1>6 DEF LeavesLock, GivesUp, StopMarks, Loses, progress
  <2> QED
    BY <2>1 DEF BegunFinish
<1>7. CASE StopHalts
  BY <1>7 DEF StopHalts, ProcessEnds, BegunFinish, progress
<1> QED
  BY <1>1, <1>2, <1>3, <1>4, <1>5, <1>6, <1>7 DEF World

-----------------------------------------------------------------------------
(* The theorems.                                                           *)

LEMMA DiagStep ==
  ASSUME LooksInv, [DiagNext]_diagVars
  PROVE  LooksInv'
<1>1. Typed /\ BegunFinish /\ DoctorHasRead /\ StatusHasRead /\ ScreenIsTrue
  BY DEF LooksInv
<1>2. CASE World
  <2>1. Typed' /\ WorldFrame /\ BegunFinish'
    BY <1>1, <1>2, WorldTypes, WorldKeepsLoops
  <2>2. DoctorHasRead' /\ StatusHasRead' /\ ScreenIsTrue'
    BY <1>1, <2>1 DEF WorldFrame, DoctorHasRead, StatusHasRead, ScreenIsTrue
  <2> QED
    BY <2>1, <2>2 DEF LooksInv
<1>3. CASE Doctor
  <2>1. Typed' /\ DoctorFrame /\ BegunFinish' /\ DoctorHasRead'
    BY <1>1, <1>3, DoctorTypes, DoctorKeepsLoops, DoctorReads
  <2>2. StatusHasRead' /\ ScreenIsTrue'
    BY <1>1, <2>1 DEF DoctorFrame, StatusHasRead, ScreenIsTrue
  <2> QED
    BY <2>1, <2>2 DEF LooksInv
<1>4. CASE Status
  <2>1. Typed' /\ StatusFrame /\ StatusHasRead' /\ ScreenIsTrue'
    BY <1>1, <1>4, StatusTypes, StatusReads, ScreenKept
  <2>2. BegunFinish' /\ DoctorHasRead'
    BY <1>1, <2>1 DEF StatusFrame, BegunFinish, DoctorHasRead
  <2> QED
    BY <2>1, <2>2 DEF LooksInv
<1>5. CASE UNCHANGED diagVars
  <2>1. Typed'
    BY <1>1, <1>5 DEF diagVars, progress, look, Typed, DaemonTyped, CountsTyped, FlagsTyped, ToldTyped
  <2>2. BegunFinish' /\ DoctorHasRead' /\ StatusHasRead' /\ ScreenIsTrue'
    BY <1>1, <1>5 DEF diagVars, progress, look, BegunFinish, DoctorHasRead, StatusHasRead, ScreenIsTrue
  <2> QED
    BY <2>1, <2>2 DEF LooksInv
<1> QED
  BY <1>2, <1>3, <1>4, <1>5 DEF DiagNext

\* What doctor has read of a daemon that has not changed makes its report true.
LEMMA TrueReport ==
  ASSUME LooksInv
  PROVE  LooksAreTrue
<1>1. Typed /\ BegunFinish /\ DoctorHasRead /\ ScreenIsTrue
  BY DEF LooksInv
<1>2. ASSUME tool = "doctor", pass.step = "advised", steady
      PROVE  ReportIsTrue
  <2> DEFINE s == [facts |-> facts, tries |-> tries, minutes |-> minutes]
  <2>1. told = RunCheckers(s) /\ pass.minutes["resume"] = minutes["resume"]
    BY <1>1, <1>2 DEF DoctorHasRead
  <2>2. s.facts = facts /\ s.tries = tries /\ s.minutes = minutes
    OBVIOUS
  <2>3. /\ tries \in 0 .. 3 /\ minutes \in MinutesT
        /\ minutes["capture"] \in Minutes /\ minutes["drain"] \in Minutes
        /\ minutes["resume"] \in Minutes
    BY <1>1 DEF Typed, CountsTyped, DaemonTyped, MinutesT, BreakerAt, Works
  <2> HIDE DEF s
  <2>4. "A3" \in told <=> Down /\ {"config", "stopped"} \subseteq facts
    BY <2>1, <2>2, Judged DEF CheckA3, Down, Without
  <2>5. told \cap {"A2", "A4", "A6"} # {} => "stopped" \notin facts
    BY <2>1, <2>2, Judged DEF CheckA2, CheckA4, CheckA6, Without
  <2>6. told \cap {"A4", "A6", "A16"} # {} => Down
    BY <2>1, <2>2, Judged DEF CheckA4, CheckA6, CheckA16, Down, Without
  <2>7. Down /\ "config" \in facts /\ "stopped" \notin facts => told \cap {"A2", "A4", "A16"} # {}
    BY <2>1, <2>2, <2>3, Judged DEF CheckA2, CheckA4, CheckA16, Down, Without, BreakerAt
  <2>8. "A5" \in told => "capture" \in halted \/ "capture" \notin begun
    <3>1. "A5" \in told => minutes["capture"] >= CaptureStall /\ ~Resumed(s)
      BY <2>1, <2>2, Judged DEF CheckA5, Stale
    <3>2. minutes["resume"] = 0 => Resumed(s)
      BY <2>2 DEF Resumed, Recorded, Unknown, ResumeGrace
    <3> QED
      BY <1>1, <2>3, <3>1, <3>2 DEF BegunFinish, CaptureStall
  <2>9. "C3" \in told => "drain" \in halted \/ "drain" \notin begun
    <3>1. "C3" \in told => minutes["drain"] >= DrainStall /\ ~Resumed(s)
      BY <2>1, <2>2, Judged DEF CheckC3, Stale
    <3>2. minutes["resume"] = 0 => Resumed(s)
      BY <2>2 DEF Resumed, Recorded, Unknown, ResumeGrace
    <3> QED
      BY <1>1, <2>3, <3>1, <3>2 DEF BegunFinish, DrainStall
  <2>10. ~Down /\ "capture" \in halted /\ minutes["capture"] = Oldest /\ ~Resumed(pass)
           => told \cap {"A5", "B1"} # {}
    <3>1. Resumed(pass) <=> Resumed(s)
      BY <2>1, <2>2 DEF Resumed, Recorded
    <3>2. minutes["capture"] = Oldest => Stale(s, "capture", CaptureStall)
      BY <2>2 DEF Stale, Recorded, Oldest, Unknown, CaptureStall
    <3> QED
      BY <2>1, <2>2, <3>1, <3>2, Judged DEF CheckA5, CheckB1, Down, Without
  <2> QED
    BY <2>4, <2>5, <2>6, <2>7, <2>8, <2>9, <2>10 DEF ReportIsTrue
<1> QED
  BY <1>1, <1>2 DEF LooksAreTrue, ReportIsTrue

\* The inductive invariant of doctor, status and the daemon they look at.
THEOREM DiagnosisInvariant == DiagSpec => []LooksInv
<1>1. DiagInit => LooksInv
  BY DiagStart
<1>2. LooksInv /\ [DiagNext]_diagVars => LooksInv'
  BY DiagStep
<1> QED
  BY <1>1, <1>2, PTL DEF DiagSpec

\* Every variable of doctor, status and what they look at keeps its type.
THEOREM DiagnosisTypes == DiagSpec => []DiagTypeOK
<1>1. LooksInv => DiagTypeOK
  BY TypesInParts DEF LooksInv
<1> QED
  BY <1>1, DiagnosisInvariant, PTL

\* What doctor reports of a daemon that did not change while it looked is so, and so is
\* what a frame of status says, which is painted only on a terminal that status holds.
THEOREM LooksHold == DiagSpec => []LooksAreTrue
<1>1. LooksInv => LooksAreTrue
  BY TrueReport
<1> QED
  BY <1>1, DiagnosisInvariant, PTL

-----------------------------------------------------------------------------
(* The run.  A behaviour of MCPipelineDiagnosis is one of UploadPipeline   *)
(* and one of Diagnosis, of which one takes no step.                       *)

\* A step of the run is a step of one module, and none of the other.
LEMMA RunSteps ==
  [MCNext]_<<vars, diagVars, subject>> => [Next]_vars /\ [DiagNext]_diagVars
  BY DEF MCNext

\* In a run of the pipeline and the commands every variable of both keeps to its type.
THEOREM PipelineTypes == MCSpec => []TypesOK
<1>1. MCInit => Inductive /\ LooksInv
  BY InductiveInit, DiagStart DEF MCInit
<1>2. Inductive /\ LooksInv /\ [MCNext]_<<vars, diagVars, subject>> => (Inductive /\ LooksInv)'
  BY RunSteps, InductiveStep, DiagStep
<1>3. Inductive /\ LooksInv => TypesOK
  BY TypesInParts DEF Inductive, LooksInv, TypesOK
<1> QED
  BY <1>1, <1>2, <1>3, PTL DEF MCSpec
=============================================================================
