----------------------------- MODULE OrderProofs -----------------------------
(***************************************************************************)
(* Captures of a file are uploaded in the order of their ranges and no     *)
(* line is lost, for all files, lines and captures and for any number of   *)
(* mishaps of the kinds that do not make the drain cycle walk past a       *)
(* capture the backend does not have: crashes, failed workers, answers     *)
(* that get lost or cannot be read, captures refused for good, retention   *)
(* and setup.  What the other kinds do to the order is in the findings.    *)
(***************************************************************************)
EXTENDS UploadPipelineProofs

USE DEF fileVars, bufferVars, flagVars, pollVars, drainVars, serverVars, vars

OrderlyKinds == {"crash", "worker", "excluded", "lost_reply", "invalid", "unreadable",
                 "retention", "setup"}

Orderly == Kinds \subseteq OrderlyKinds /\ Stuck = {}

\* Rows of cursors that follow the first n captures: a file is read on from behind all of
\* them and from behind what the backend has, and all before that is in one of them or
\* was there before.
Follows(rows, n) ==
  \A f \in Files :
    /\ rows[f][0] = IF PriorInstall[f] > 0 THEN PriorInstall[f] ELSE NoCursor
    /\ \A i \in 2 .. MaxInode : rows[f][i] = NoCursor
    /\ serverEnd[f] <= ResumePoint(rows, f, 1)
    /\ \A id \in 1 .. n : batch[id].file = f => batch[id].hi <= rows[f][1]
    /\ \A p \in (1 .. MaxPos) \ Noise :
         p <= ResumePoint(rows, f, 1) =>
           p <= PriorInstall[f] \/ \E id \in 1 .. n : Covers(id, f, 1, p)

\* The daemon has not been started yet.
NotBooted ==
  cursor = NoRows /\ created = 0 /\ daemon = "down" /\ pollPc = "idle" /\ serverEnd = PriorInstall

CursorsFollow ==
  /\ NotBooted \/ Follows(cursor, created)
  /\ pollPc = "polling" => Follows(work, created + fresh)
  /\ daemon = "down" => pollPc = "idle"

\* The captures of a file lie one behind the other.
RangesInOrder ==
  \A a, b \in 1 .. created + fresh :
    a < b /\ batch[a].file = batch[b].file => batch[a].hi <= batch[b].lo

OneInode ==
  /\ \A f \in Files : inode[f] = 1
  /\ \A id \in 1 .. created + fresh : batch[id].inode = 1

\* The backend will take every capture that it does not have and that may yet be sent.
Acceptable ==
  \A id \in Ids :
    status[id] \in {"pending", "captured"} /\ id \notin stored => batch[id].lo >= End(id)

\* Nothing pending before this capture is still to be taken by the backend.
NoneBefore(id) == \A j \in Pending : j < id => j \in stored

\* An upload goes out, and a request stays on its way, only with nothing before it.
SentInOrder ==
  /\ NoneBefore(at)
  /\ drainPc = "walk" /\ at > 0 => at \in stored \/ status[at] # "pending"
  /\ reply = "unavailable" => at \in stored
  /\ reply \notin {"regression", "unauthorized"} /\ drainPc \notin {"verifying", "flagging"}
  /\ \A id \in late : NoneBefore(id)
  /\ \A id \in Ids : status[id] # "recovered"

InOrder == CursorsFollow /\ RangesInOrder /\ OneInode /\ Acceptable /\ SentInOrder

OrderInv == Inductive /\ InOrder

-----------------------------------------------------------------------------
(* Numbers and steps that keep the order.                                  *)

LEMMA OrderNumbers ==
  ASSUME Inductive
  PROVE  /\ created \in Nat /\ fresh \in Nat /\ created + fresh \in Nat
         /\ created + fresh <= MaxCaptures /\ 1 \in Inodes /\ 0 \in Inodes
         /\ \A id \in 1 .. created + fresh : id \in Ids
         /\ 1 .. created \subseteq 1 .. created + fresh
         /\ \A id \in Ids : /\ id \in Int /\ 0 < id /\ batch[id] \in Captures
                            /\ batch[id].file \in Files /\ batch[id].lo \in 0 .. MaxPos
                            /\ batch[id].hi \in 0 .. MaxPos /\ End(id) \in 0 .. MaxPos
<1>1. created \in Nat /\ fresh \in Nat /\ created + fresh <= MaxCaptures
  BY Numbers DEF Inductive, TypeOK, Numbered
<1>2. 1 \in Inodes /\ 0 \in Inodes
  BY Numbers DEF Inodes
<1>3. created + fresh \in Nat /\ created <= created + fresh
  BY <1>1
<1>4. \A id \in 1 .. created + fresh : id \in Ids
  BY <1>1, <1>3, Numbers DEF Ids
<1>5. 1 .. created \subseteq 1 .. created + fresh
  BY <1>1, <1>3, Wider
<1>6. \A id \in Ids : /\ id \in Int /\ 0 < id /\ batch[id] \in Captures
                      /\ batch[id].file \in Files /\ batch[id].lo \in 0 .. MaxPos
                      /\ batch[id].hi \in 0 .. MaxPos
  <2>1. \A id \in Ids : id \in Int /\ 0 < id
    BY Numbers DEF Ids
  <2>2. \A id \in Ids : batch[id] \in Captures
    BY DEF Inductive, TypeOK
  <2> QED
    BY <2>1, <2>2 DEF Captures
<1>7. \A id \in Ids : End(id) \in 0 .. MaxPos
  BY <1>6 DEF Inductive, TypeOK, End
<1> QED
  BY <1>1, <1>2, <1>3, <1>4, <1>5, <1>6, <1>7

\* A waiting capture is a committed one, and so is the one being uploaded.
LEMMA CommittedIds ==
  ASSUME Inductive
  PROVE  /\ \A id \in Ids : status[id] \notin {"absent", "captured"} => id \in 1 .. created
         /\ \A id \in Ids : status[id] = "captured" => created < id /\ id \in 1 .. created + fresh
         /\ late \subseteq 1 .. created /\ stored \subseteq 1 .. created /\ at <= created
         /\ at \in Nat /\ (at > 0 => at \in 1 .. created)
<1>1. /\ \A id \in Ids : status[id] \notin {"absent", "captured"} => id <= created
      /\ \A id \in Ids : status[id] = "captured" => created < id /\ id <= created + fresh
  BY DEF Inductive, Numbered
<1>2. at \in Nat /\ at <= created
  BY Numbers DEF Inductive, TypeOK, UploadInvariant
<1>3. late \subseteq 1 .. created /\ stored \subseteq 1 .. created
  BY DEF Inductive, BackendInvariant
<1>4. ASSUME NEW id \in Ids, NEW n \in Nat, id <= n PROVE id \in 1 .. n
  BY <1>4, OrderNumbers
<1>5. \A id \in Ids : status[id] \notin {"absent", "captured"} => id \in 1 .. created
  BY <1>1, <1>4, OrderNumbers
<1>6. \A id \in Ids : status[id] = "captured" => created < id /\ id \in 1 .. created + fresh
  BY <1>1, <1>4, OrderNumbers
<1>7. at > 0 => at \in 1 .. created
  BY <1>2, OrderNumbers
<1> QED
  BY <1>2, <1>3, <1>5, <1>6, <1>7

\* Only the mishaps of this module happen.
LEMMA OrderlyMishaps ==
  ASSUME Orderly
  PROVE  /\ \A k : Mishap(k) => k \in OrderlyKinds
         /\ \A f \in Files : ~Replace(f) /\ ~CollectFails(f)
<1>1. \A k : Mishap(k) => k \in OrderlyKinds
  BY DEF Orderly, Mishap
<1>2. "rotation" \notin OrderlyKinds /\ "collect" \notin OrderlyKinds
  BY DEF OrderlyKinds
<1> QED
  BY <1>1, <1>2 DEF Replace, CollectFails

\* What a step keeps that settles captures at most.
LEMMA Settling ==
  ASSUME OrderInv,
         UNCHANGED <<inode, cursor, batch, created, work, fresh, stored, serverEnd, daemon>>,
         \/ pollPc' = pollPc
         \/ pollPc' # "polling" /\ daemon # "down",
         \A id \in Ids : status'[id] = status[id] \/ status'[id] \in {"failed", "delivered", "pruned"}
  PROVE  /\ CursorsFollow' /\ RangesInOrder' /\ OneInode' /\ Acceptable'
         /\ \A x : NoneBefore(x) => (\A j \in Pending' : j < x => j \in stored')
         /\ \A id \in Ids : status'[id] # "recovered"
<1>1. CursorsFollow'
  <2>1. Follows(cursor, created) => Follows(cursor, created)'
    BY DEF Follows, ResumePoint, Covers
  <2>2. Follows(work, created + fresh) => Follows(work, created + fresh)'
    BY DEF Follows, ResumePoint, Covers
  <2>3. NotBooted => NotBooted'
    BY DEF NotBooted
  <2> QED
    BY <2>1, <2>2, <2>3 DEF OrderInv, InOrder, CursorsFollow
<1>2. RangesInOrder' /\ OneInode'
  BY DEF OrderInv, InOrder, RangesInOrder, OneInode
<1>3. Acceptable'
  BY DEF OrderInv, InOrder, Acceptable, End
<1>4. Pending' \subseteq Pending
  BY DEF Pending
<1>5. \A id \in Ids : status'[id] # "recovered"
  BY DEF OrderInv, InOrder, SentInOrder
<1> QED
  BY <1>1, <1>2, <1>3, <1>4, <1>5 DEF NoneBefore

\* A step that settles captures at most and leaves the upload alone.
LEMMA QuietOrder ==
  ASSUME OrderInv,
         UNCHANGED <<inode, cursor, batch, created, work, fresh, stored, serverEnd, daemon, late,
                     at, reply>>,
         \/ pollPc' = pollPc
         \/ pollPc' # "polling" /\ daemon # "down",
         \/ drainPc' = drainPc
         \/ drainPc' \in {"idle", "resuming"},
         \A id \in Ids : status'[id] = status[id] \/ status'[id] \in {"failed", "delivered", "pruned"}
  PROVE  CursorsFollow' /\ RangesInOrder' /\ OneInode' /\ Acceptable' /\ SentInOrder'
<1>1. /\ CursorsFollow' /\ RangesInOrder' /\ OneInode' /\ Acceptable'
      /\ \A x : NoneBefore(x) => (\A j \in Pending' : j < x => j \in stored')
      /\ \A id \in Ids : status'[id] # "recovered"
  BY Settling
<1>2. NoneBefore(at)' /\ \A id \in late' : NoneBefore(id)'
  BY <1>1 DEF OrderInv, InOrder, SentInOrder, NoneBefore
<1>3. drainPc' = "walk" /\ at' > 0 => at' \in stored' \/ status'[at'] # "pending"
  <2>1. at > 0 => at \in Ids
    BY CommittedIds, OrderNumbers DEF OrderInv, InOrder
  <2> QED
    BY <2>1 DEF OrderInv, InOrder, SentInOrder
<1>4. /\ reply' = "unavailable" => at' \in stored'
      /\ reply' \notin {"regression", "unauthorized"} /\ drainPc' \notin {"verifying", "flagging"}
  BY DEF OrderInv, InOrder, SentInOrder
<1> QED
  BY <1>1, <1>2, <1>3, <1>4 DEF SentInOrder

-----------------------------------------------------------------------------
(* The backend.                                                            *)

\* The backend takes a capture that has nothing before it.
LEMMA TakenInOrder ==
  ASSUME OrderInv, NEW a \in 1 .. created, NoneBefore(a), ServerProcesses(a),
         UNCHANGED <<fileVars, bufferVars, pollVars, daemon>>
  PROVE  /\ CursorsFollow' /\ RangesInOrder' /\ OneInode' /\ Acceptable'
         /\ stored \subseteq stored' /\ (status[a] = "pending" => a \in stored')
<1> USE DEF OrderInv, InOrder
<1>1. a \in Ids /\ a \in 1 .. created + fresh
  BY OrderNumbers
<1>2. stored \subseteq stored' /\ (status[a] = "pending" => a \in stored')
  BY <1>1 DEF ServerProcesses, Accepts, Acceptable
<1>3. /\ batch[a].file \in Files /\ batch[a].hi \in 0 .. MaxPos
      /\ \A f \in Files : serverEnd[f] \in 0 .. MaxPos
  BY <1>1, OrderNumbers DEF Inductive, TypeOK
<1>4. \A f \in Files : serverEnd'[f] = serverEnd[f] \/ (f = batch[a].file /\ serverEnd'[f] = batch[a].hi)
  BY <1>3 DEF ServerProcesses, Inductive, TypeOK
<1>5. ASSUME NEW rows, rows \in [Files -> [Inodes -> -1 .. MaxPos]], NEW n \in Nat, created <= n,
             Follows(rows, n)
      PROVE  \A f \in Files : serverEnd'[f] <= ResumePoint(rows, f, 1)
  <2>1. batch[a].hi <= rows[batch[a].file][1] /\ rows[batch[a].file][1] # NoCursor
    <3>1. a \in 1 .. n
      BY <1>5, OrderNumbers
    <3>2. batch[a].hi <= rows[batch[a].file][1]
      BY <1>3, <1>5, <3>1 DEF Follows
    <3> QED
      BY <1>3, <3>2, Numbers DEF NoCursor
  <2> QED
    BY <1>4, <1>5, <2>1 DEF Follows, ResumePoint
<1>6. CursorsFollow'
  <2>1. created \in Nat /\ created + fresh \in Nat /\ created <= created
        /\ created <= created + fresh
    BY OrderNumbers
  <2>2. Follows(cursor, created) => \A f \in Files : serverEnd'[f] <= ResumePoint(cursor, f, 1)
    BY <1>5, <2>1 DEF Inductive, TypeOK
  <2>3. Follows(work, created + fresh) => \A f \in Files : serverEnd'[f] <= ResumePoint(work, f, 1)
    BY <1>5, <2>1 DEF Inductive, TypeOK
  <2>4. Follows(cursor, created) => Follows(cursor, created)'
    BY <2>2 DEF Follows, ResumePoint, Covers
  <2>5. Follows(work, created + fresh) => Follows(work, created + fresh)'
    BY <2>3 DEF Follows, ResumePoint, Covers
  <2>6. ~NotBooted
    BY <2>1 DEF NotBooted
  <2> QED
    BY <2>4, <2>5, <2>6 DEF CursorsFollow
<1>7. RangesInOrder' /\ OneInode'
  BY DEF RangesInOrder, OneInode
<1>8. Acceptable'
  <2>1. ASSUME NEW id \in Ids, status[id] \in {"pending", "captured"}, id \notin stored'
        PROVE  batch[id].lo >= serverEnd'[batch[id].file]
    <3>1. batch[id].lo >= serverEnd[batch[id].file]
      BY <1>2, <2>1 DEF Acceptable, End
    <3>2. CASE batch[id].file # batch[a].file \/ serverEnd' = serverEnd
      BY <1>4, <3>1, <3>2, OrderNumbers
    <3>3. CASE batch[id].file = batch[a].file /\ serverEnd' # serverEnd
      <4>1. a \in stored' /\ a # id
        BY <2>1, <3>3 DEF ServerProcesses
      <4>2. a < id /\ id \in 1 .. created + fresh
        <5>1. CASE status[id] = "captured"
          <6>1. created < id /\ id \in 1 .. created + fresh
            BY <5>1, CommittedIds
          <6>2. a \in Int /\ id \in Int /\ created \in Int /\ a <= created
            BY OrderNumbers
          <6> QED
            BY <6>1, <6>2
        <5>2. CASE status[id] = "pending"
          <6>1. ~(id < a)
            BY <1>2, <2>1, <5>2 DEF NoneBefore, Pending
          <6>2. id \in 1 .. created
            BY <5>2, CommittedIds
          <6>3. a \in Int /\ id \in Int
            BY <1>1, OrderNumbers
          <6> QED
            BY <4>1, <6>1, <6>2, <6>3, OrderNumbers
        <5> QED
          BY <2>1, <5>1, <5>2
      <4>3. batch[a].hi <= batch[id].lo
        BY <1>1, <3>3, <4>2 DEF RangesInOrder
      <4> QED
        BY <1>1, <1>4, <3>1, <3>3, <4>3, OrderNumbers
    <3> QED
      BY <3>2, <3>3
  <2> QED
    BY <2>1 DEF Acceptable, End
<1> QED
  BY <1>2, <1>6, <1>7, <1>8

-----------------------------------------------------------------------------
(* The environment and the start of the daemon.                            *)

\* A capture that is deleted for good was settled before.
LEMMA PrunedOrder ==
  ASSUME NEW S, \A id \in Ids : id \in S => status[id] \in {"failed", "delivered"},
         status' = StatusWithout(S)
  PROVE  \A id \in Ids : status'[id] = status[id] \/ status'[id] \in {"failed", "delivered", "pruned"}
  BY DEF StatusWithout

LEMMA OrderEnvironment == ASSUME Orderly, OrderInv, Environment PROVE InOrder'
<1> USE DEF OrderInv
<1>1. ASSUME NEW f \in Files, Append(f) PROVE InOrder'
  BY <1>1, QuietOrder DEF Append, InOrder
<1>2. ASSUME NEW id \in Ids, LateRequestArrives(id) PROVE InOrder'
  <2>1. id \in late /\ late' = late \ {id} /\ ServerProcesses(id) /\ id \in 1 .. created
        /\ UNCHANGED <<fileVars, bufferVars, flagVars, daemon, pollVars, drainVars>>
    BY <1>2, CommittedIds DEF LateRequestArrives
  <2>2. NoneBefore(id)
    BY <2>1 DEF InOrder, SentInOrder
  <2>3. /\ CursorsFollow' /\ RangesInOrder' /\ OneInode' /\ Acceptable' /\ stored \subseteq stored'
    BY <2>1, <2>2, TakenInOrder
  <2>4. SentInOrder'
    BY <2>1, <2>3 DEF InOrder, SentInOrder, NoneBefore, Pending
  <2> QED
    BY <2>3, <2>4 DEF InOrder
<1>3. CASE AuthRecovered
  BY <1>3, QuietOrder DEF AuthRecovered, InOrder
<1>4. CASE SetupClearsAuthFailed \/ SetupClearsBufferFull
  BY <1>4, QuietOrder DEF SetupClearsAuthFailed, SetupClearsBufferFull, InOrder
<1>5. CASE SetupClearsFailed
  <2>1. \A id \in Ids : status'[id] = status[id] \/ status'[id] \in {"failed", "delivered", "pruned"}
    BY <1>5, PrunedOrder DEF SetupClearsFailed
  <2> QED
    BY <1>5, <2>1, QuietOrder DEF SetupClearsFailed, InOrder
<1> QED
  BY <1>1, <1>2, <1>3, <1>4, <1>5, OrderlyMishaps DEF Environment

\* The synced rows say where the backend's own record ends.
LEMMA OrderBoot == ASSUME Orderly, OrderInv, Boot PROVE InOrder'
<1> USE DEF OrderInv
<1>1. /\ UNCHANGED <<fileVars, batch, status, created, resync, flagVars, pollVars, drainVars, serverVars>>
      /\ daemon = "down" /\ daemon' = "up" /\ pollPc = "idle"
  BY DEF Boot, InOrder, CursorsFollow
<1>2. RangesInOrder' /\ OneInode' /\ Acceptable' /\ SentInOrder'
  BY <1>1 DEF InOrder, RangesInOrder, OneInode, Acceptable, End, SentInOrder, NoneBefore, Pending
<1>3. \A f \in Files : serverEnd[f] \in 0 .. MaxPos /\ PriorInstall[f] \in 0 .. MaxPos
  BY BoundsAssumption DEF Inductive, TypeOK
<1>4. Follows(cursor, created)'
  <2>1. CASE NotBooted
    <3>1. cursor' = SyncedRows /\ created = 0 /\ serverEnd = PriorInstall
      <4>1. "sync" \notin OrderlyKinds
        BY DEF OrderlyKinds
      <4> QED
        BY <2>1, <4>1, OrderlyMishaps DEF Boot, NotBooted
    <3>2. \A f \in Files, i \in Inodes :
            cursor'[f][i] = IF i = 0 /\ PriorInstall[f] > 0 THEN PriorInstall[f] ELSE NoCursor
      BY <3>1 DEF SyncedRows
    <3>3. ASSUME NEW f \in Files
          PROVE  /\ cursor'[f][0] = IF PriorInstall[f] > 0 THEN PriorInstall[f] ELSE NoCursor
                 /\ \A i \in 2 .. MaxInode : cursor'[f][i] = NoCursor
                 /\ cursor'[f][1] = NoCursor
      BY <3>2, Numbers DEF Inodes
    <3>4. \A f \in Files : ResumePoint(cursor', f, 1) = PriorInstall[f]
      BY <1>3, <3>3, Numbers DEF ResumePoint, NoCursor
    <3> QED
      BY <1>1, <1>3, <3>1, <3>3, <3>4 DEF Follows
  <2>2. CASE Follows(cursor, created)
    <3>1. cursor = NoRows => \A f \in Files, i \in Inodes : cursor'[f][i] = cursor[f][i]
      <4>1. ASSUME cursor = NoRows, NEW f \in Files PROVE serverEnd[f] = 0
        <5>1. cursor[f][0] = NoCursor /\ cursor[f][1] = NoCursor
          BY <4>1, OrderNumbers DEF NoRows
        <5>2. serverEnd[f] <= 0
          BY <2>2, <5>1 DEF Follows, ResumePoint
        <5> QED
          BY <1>3, <5>2
      <4>2. ASSUME cursor = NoRows, NEW f \in Files, NEW i \in Inodes
            PROVE  SyncedRows[f][i] = NoCursor /\ cursor[f][i] = NoCursor
        BY <4>1, <4>2 DEF SyncedRows, NoRows
      <4> QED
        BY <4>2 DEF Boot
    <3>2. \A f \in Files : /\ cursor'[f][0] = cursor[f][0] /\ cursor'[f][1] = cursor[f][1]
                           /\ \A i \in 2 .. MaxInode : cursor'[f][i] = cursor[f][i]
      BY <3>1, Numbers DEF Boot, Inodes
    <3> QED
      BY <1>1, <2>2, <3>2 DEF Follows, ResumePoint, Covers
  <2> QED
    BY <2>1, <2>2 DEF InOrder, CursorsFollow
<1> QED
  BY <1>1, <1>2, <1>4 DEF InOrder, CursorsFollow

-----------------------------------------------------------------------------
(* The capture cycle.                                                      *)

\* The new captures of a file lie behind all others of it, up to where its cursor is
\* set, and hold every line with dialogue on the way.
LEMMA CollectedOrder ==
  ASSUME OrderInv, Inductive', NEW f \in Files, NEW end \in 0 .. MaxPos, Start(f) < end,
         SetWork(f, end), pollPc = "polling", pollPc' = "polling",
         UNCHANGED <<fileVars, cursor, created, daemon, drainVars, serverVars>>,
         created + fresh <= created' + fresh',
         \A id \in 1 .. created + fresh : batch'[id] = batch[id],
         \A id \in Ids : status'[id] \in {status[id], "captured"},
         \A id \in Ids : id <= created + fresh => status'[id] = status[id],
         \A id \in 1 .. created' + fresh' :
           \/ id \in 1 .. created + fresh
           \/ /\ created + fresh < id /\ batch'[id].file = f /\ batch'[id].inode = 1
              /\ Start(f) <= batch'[id].lo /\ batch'[id].hi <= end,
         \A a, b \in 1 .. created' + fresh' :
           created + fresh < a /\ a < b => batch'[a].hi <= batch'[b].lo,
         \A p \in Kept(f) : p <= end => \E id \in 1 .. created' + fresh' : Covers(id, f, 1, p)',
         \A p \in (1 .. MaxPos) \ Noise : p <= end => p <= Start(f) \/ p \in Kept(f)
  PROVE  InOrder'
<1> USE DEF OrderInv, InOrder
<1>1. /\ created + fresh \in Nat /\ created' + fresh' \in Nat /\ created \in Nat
      /\ created <= created + fresh /\ created' + fresh' <= MaxCaptures
      /\ 1 .. created \subseteq 1 .. created + fresh
      /\ 1 .. created + fresh \subseteq 1 .. created' + fresh'
  <2>1. created \in Nat /\ fresh \in Nat /\ fresh' \in Nat /\ created' = created
    BY Numbers DEF Inductive, TypeOK
  <2>2. created' + fresh' <= MaxCaptures
    BY DEF Inductive, Numbered
  <2> QED
    BY <2>1, <2>2, Wider
<1>0. \A id \in 1 .. created' + fresh' :
        batch'[id].lo \in 0 .. MaxPos /\ batch'[id].hi \in 0 .. MaxPos
  <2>1. \A id \in 1 .. created' + fresh' : id \in Ids
    BY <1>1, Numbers DEF Ids
  <2>2. \A id \in Ids : batch'[id] \in Captures
    BY DEF Inductive, TypeOK
  <2> QED
    BY <2>1, <2>2 DEF Captures
<1>2. Start(f) = ResumePoint(work, f, 1) /\ Start(f) \in 0 .. MaxPos
  BY StartType DEF Inductive, OneInode, Start
<1>3. \A g \in Files, i \in Inodes : work'[g][i] = IF g = f /\ i = 1 THEN end ELSE work[g][i]
  BY DEF SetWork, Inductive, TypeOK, OneInode
<1>4. 0 \in Inodes /\ 1 \in Inodes /\ \A i \in 2 .. MaxInode : i \in Inodes /\ i # 1
  BY Numbers DEF Inodes
<1>5. \A g \in Files : /\ work'[g][0] = work[g][0]
                       /\ \A i \in 2 .. MaxInode : work'[g][i] = work[g][i]
                       /\ g # f => work'[g][1] = work[g][1]
      /\ work'[f][1] = end
  BY <1>3, <1>4
<1>6. ResumePoint(work', f, 1) = end
      /\ \A g \in Files : g # f => ResumePoint(work', g, 1) = ResumePoint(work, g, 1)
  BY <1>5 DEF ResumePoint, NoCursor
<1>7. Follows(work, created + fresh)
  BY DEF CursorsFollow
<1>8. \A id \in 1 .. created + fresh : batch[id].file = f => batch[id].hi <= Start(f)
  <2>1. ASSUME NEW id \in 1 .. created + fresh, batch[id].file = f PROVE batch[id].hi <= Start(f)
    <3>1. batch[id].hi <= work[f][1]
      BY <1>7, <2>1 DEF Follows
    <3>2. batch[id].hi \in 0 .. MaxPos
      BY OrderNumbers
    <3>3. work[f][1] # NoCursor
      BY <3>1, <3>2 DEF NoCursor
    <3> QED
      BY <1>2, <3>1, <3>3 DEF ResumePoint
  <2> QED
    BY <2>1
<1>9. CursorsFollow'
  <2>1. ASSUME NEW g \in Files
        PROVE  /\ work'[g][0] = IF PriorInstall[g] > 0 THEN PriorInstall[g] ELSE NoCursor
               /\ \A i \in 2 .. MaxInode : work'[g][i] = NoCursor
               /\ serverEnd'[g] <= ResumePoint(work', g, 1)
    <3>1. serverEnd[g] <= ResumePoint(work, g, 1) /\ serverEnd[g] \in 0 .. MaxPos
      BY <1>7 DEF Follows, Inductive, TypeOK
    <3>2. serverEnd[g] <= ResumePoint(work', g, 1)
      BY <1>2, <1>6, <3>1
    <3> QED
      BY <1>5, <1>7, <3>2 DEF Follows
  <2>2. ASSUME NEW g \in Files, NEW id \in 1 .. created' + fresh', batch'[id].file = g
        PROVE  batch'[id].hi <= work'[g][1]
    <3>1. CASE id \in 1 .. created + fresh
      <4>1. batch'[id].hi <= work[g][1] /\ batch'[id].hi \in 0 .. MaxPos
        BY <1>7, <2>2, <3>1, OrderNumbers DEF Follows
      <4>2. g = f => batch'[id].hi <= Start(f)
        BY <1>8, <2>2, <3>1
      <4> QED
        BY <1>2, <1>5, <4>1, <4>2
    <3>2. CASE id \notin 1 .. created + fresh
      BY <1>5, <2>2, <3>2
    <3> QED
      BY <3>1, <3>2
  <2>3. ASSUME NEW g \in Files, NEW p \in (1 .. MaxPos) \ Noise, p <= ResumePoint(work', g, 1)
        PROVE  p <= PriorInstall[g] \/ \E id \in 1 .. created' + fresh' : Covers(id, g, 1, p)'
    <3>1. CASE p <= ResumePoint(work, g, 1)
      <4>1. p <= PriorInstall[g] \/ \E id \in 1 .. created + fresh : Covers(id, g, 1, p)
        BY <1>7, <3>1 DEF Follows
      <4> QED
        BY <1>1, <4>1 DEF Covers
    <3>2. CASE ~(p <= ResumePoint(work, g, 1))
      <4>1. g = f /\ p <= end
        BY <1>6, <2>3, <3>2
      <4>2. p \in Kept(f)
        BY <1>2, <3>2, <4>1
      <4> QED
        BY <4>1, <4>2
    <3> QED
      BY <3>1, <3>2
  <2>4. Follows(work, created + fresh)'
    BY <2>1, <2>2, <2>3 DEF Follows
  <2>5. Follows(cursor, created)'
    BY <1>1 DEF CursorsFollow, NotBooted, Follows, ResumePoint, Covers
  <2> QED
    BY <2>4, <2>5 DEF CursorsFollow
<1>10. RangesInOrder'
  <2>1. ASSUME NEW a \in 1 .. created' + fresh', NEW b \in 1 .. created' + fresh',
               a < b, batch'[a].file = batch'[b].file
        PROVE  batch'[a].hi <= batch'[b].lo
    <3>1. CASE a \in 1 .. created + fresh /\ b \in 1 .. created + fresh
      BY <2>1, <3>1 DEF RangesInOrder
    <3>2. CASE a \in 1 .. created + fresh /\ b \notin 1 .. created + fresh
      <4>1. batch'[b].file = f /\ Start(f) <= batch'[b].lo
        BY <3>2
      <4>2. batch'[a].hi <= Start(f)
        BY <1>8, <2>1, <3>2, <4>1
      <4>3. batch'[a].hi \in 0 .. MaxPos /\ batch'[b].lo \in 0 .. MaxPos
        BY <1>0, <2>1
      <4> QED
        BY <1>2, <4>1, <4>2, <4>3
    <3>3. CASE a \notin 1 .. created + fresh
      BY <2>1, <3>3
    <3> QED
      BY <3>1, <3>2, <3>3
  <2> QED
    BY <2>1 DEF RangesInOrder
<1>11. OneInode'
  BY DEF OneInode
<1>12. Acceptable'
  <2>1. ASSUME NEW id \in Ids, status'[id] \in {"pending", "captured"}, id \notin stored
        PROVE  batch'[id].lo >= serverEnd[batch'[id].file]
    <3>1. CASE id \in 1 .. created + fresh
      BY <1>1, <2>1, <3>1, OrderNumbers DEF Acceptable, End
    <3>2. CASE id \notin 1 .. created + fresh
      <4>1. id \in 1 .. created' + fresh'
        <5>1. id \in Int /\ 0 < id /\ id <= created' + fresh'
          BY <1>1, <2>1, OrderNumbers DEF Inductive, Numbered
        <5> QED
          BY <1>1, <5>1
      <4>2. batch'[id].file = f /\ Start(f) <= batch'[id].lo
        BY <3>2, <4>1
      <4>3. serverEnd[f] <= Start(f) /\ serverEnd[f] \in 0 .. MaxPos
        BY <1>2, <1>7 DEF Follows, Inductive, TypeOK
      <4>4. batch'[id].lo \in 0 .. MaxPos
        BY <1>0, <4>1
      <4> QED
        BY <1>2, <4>2, <4>3, <4>4
    <3> QED
      BY <3>1, <3>2
  <2> QED
    BY <2>1 DEF Acceptable, End
<1>13. SentInOrder'
  <2>1. \A id \in Ids : status'[id] = status[id] \/ status'[id] = "captured"
    OBVIOUS
  <2>2. at > 0 => at \in Ids /\ at \in 1 .. created + fresh /\ status'[at] = status[at]
    <3>1. at > 0 => at \in 1 .. created + fresh
      BY <1>1, CommittedIds
    <3> QED
      BY <1>1, <3>1, OrderNumbers
  <2> QED
    BY <2>1, <2>2 DEF SentInOrder, NoneBefore, Pending
<1> QED
  BY <1>9, <1>10, <1>11, <1>12, <1>13

LEMMA OrderLines ==
  ASSUME OrderInv, Inductive', NEW f \in Files, CollectLines(f) PROVE InOrder'
<1> USE DEF OrderInv, InOrder
<1>1. /\ size[f] \in 0 .. MaxPos /\ Start(f) \in 0 .. MaxPos /\ Start(f) < size[f]
      /\ SetWork(f, size[f]) /\ pollPc = "polling" /\ pollPc' = "polling" /\ inode[f] = 1
      /\ UNCHANGED <<fileVars, cursor, created, daemon, drainVars, serverVars>>
  BY StartType DEF CollectLines, Collecting, CollectFrame, Inductive, TypeOK, OneInode
<1>2. \A p \in (1 .. MaxPos) \ Noise : p <= size[f] => p <= Start(f) \/ p \in Kept(f)
  BY <1>1 DEF Kept
<1>3. \A p \in Kept(f) : p \in Int /\ Start(f) < p /\ p <= size[f]
  BY <1>1 DEF Kept
<1>4. created \in Nat /\ fresh \in Nat /\ created + fresh \in Nat
  BY OrderNumbers
<1>5. \A id \in 1 .. created + fresh : id \in Ids /\ id \in Int /\ id <= created + fresh
  BY <1>4, OrderNumbers
<1>6. \A id \in Ids : id \in Int /\ 0 < id
  BY OrderNumbers
<1>7. CASE InsertOne(Slice(f, Start(f), size[f]))
  <2>1. /\ fresh' = fresh + 1 /\ created' + fresh' = created + fresh + 1
        /\ created + fresh + 1 \in Ids
    BY <1>1, <1>4, <1>7, Numbers DEF InsertOne, Ids
  <2>2. /\ \A id \in Ids : batch'[id] = IF id = created + fresh + 1
                                        THEN Slice(f, Start(f), size[f]) ELSE batch[id]
        /\ \A id \in Ids : status'[id] = IF id = created + fresh + 1 THEN "captured" ELSE status[id]
    BY <1>7 DEF InsertOne, Inductive, TypeOK
  <2>3. /\ \A id \in 1 .. created + fresh : batch'[id] = batch[id]
        /\ \A id \in Ids : status'[id] \in {status[id], "captured"}
        /\ \A id \in Ids : id <= created + fresh => status'[id] = status[id]
    BY <1>4, <1>5, <1>6, <2>2
  <2>4. /\ created + fresh <= created' + fresh'
        /\ \A id \in 1 .. created' + fresh' : id \in 1 .. created + fresh \/ id = created + fresh + 1
        /\ created + fresh + 1 \in 1 .. created' + fresh' /\ created + fresh < created + fresh + 1
        /\ \A a, b \in 1 .. created' + fresh' : ~(created + fresh < a /\ a < b)
    BY <1>4, <2>1
  <2>5. batch'[created + fresh + 1] = Slice(f, Start(f), size[f])
    BY <2>1, <2>2
  <2>6. ASSUME NEW p \in Kept(f) PROVE \E id \in 1 .. created' + fresh' : Covers(id, f, 1, p)'
    BY <1>1, <1>3, <2>4, <2>5 DEF Covers, Slice
  <2>7. \A id \in 1 .. created' + fresh' :
          \/ id \in 1 .. created + fresh
          \/ /\ created + fresh < id /\ batch'[id].file = f /\ batch'[id].inode = 1
             /\ Start(f) <= batch'[id].lo /\ batch'[id].hi <= size[f]
    BY <1>1, <2>4, <2>5 DEF Slice
  <2> QED
    BY <1>1, <1>2, <2>3, <2>4, <2>6, <2>7, CollectedOrder
<1>8. ASSUME NEW c \in Cuts(f), InsertTwo(Slice(f, Start(f), c), Slice(f, c, size[f]))
      PROVE  InOrder'
  <2>0. c \in 0 .. MaxPos /\ Start(f) < c /\ c < size[f]
    BY CutType DEF Inductive
  <2>1. /\ fresh' = fresh + 2 /\ created' + fresh' = created + fresh + 2
        /\ created + fresh + 1 \in Ids /\ created + fresh + 2 \in Ids
        /\ created + fresh + 1 # created + fresh + 2
    BY <1>1, <1>4, <1>8, Numbers DEF InsertTwo, Ids
  <2>2. /\ \A id \in Ids : batch'[id] = IF id = created + fresh + 1 THEN Slice(f, Start(f), c)
                                        ELSE IF id = created + fresh + 2
                                             THEN Slice(f, c, size[f]) ELSE batch[id]
        /\ \A id \in Ids : status'[id] = IF id \in {created + fresh + 1, created + fresh + 2}
                                         THEN "captured" ELSE status[id]
    BY <1>8, <2>1 DEF InsertTwo, Inductive, TypeOK
  <2>3. /\ \A id \in 1 .. created + fresh : batch'[id] = batch[id]
        /\ \A id \in Ids : status'[id] \in {status[id], "captured"}
        /\ \A id \in Ids : id <= created + fresh => status'[id] = status[id]
    BY <1>4, <1>5, <1>6, <2>2
  <2>4. /\ created + fresh <= created' + fresh'
        /\ \A id \in 1 .. created' + fresh' :
             id \in 1 .. created + fresh \/ id = created + fresh + 1 \/ id = created + fresh + 2
        /\ created + fresh + 1 \in 1 .. created' + fresh' /\ created + fresh < created + fresh + 1
        /\ created + fresh + 2 \in 1 .. created' + fresh' /\ created + fresh < created + fresh + 2
        /\ \A a, b \in 1 .. created' + fresh' : created + fresh < a /\ a < b
             => a = created + fresh + 1 /\ b = created + fresh + 2
    BY <1>4, <2>1
  <2>5. /\ batch'[created + fresh + 1] = Slice(f, Start(f), c)
        /\ batch'[created + fresh + 2] = Slice(f, c, size[f])
    BY <2>1, <2>2
  <2>6. ASSUME NEW p \in Kept(f) PROVE \E id \in 1 .. created' + fresh' : Covers(id, f, 1, p)'
    <3>1. CASE p <= c
      BY <1>1, <1>3, <2>4, <2>5, <3>1 DEF Covers, Slice
    <3>2. CASE ~(p <= c)
      BY <1>1, <1>3, <2>0, <2>4, <2>5, <3>2 DEF Covers, Slice
    <3> QED
      BY <3>1, <3>2
  <2>7. \A id \in 1 .. created' + fresh' :
          \/ id \in 1 .. created + fresh
          \/ /\ created + fresh < id /\ batch'[id].file = f /\ batch'[id].inode = 1
             /\ Start(f) <= batch'[id].lo /\ batch'[id].hi <= size[f]
    BY <1>1, <2>0, <2>4, <2>5 DEF Slice
  <2>8. \A a, b \in 1 .. created' + fresh' :
          created + fresh < a /\ a < b => batch'[a].hi <= batch'[b].lo
    BY <2>0, <2>4, <2>5 DEF Slice
  <2> QED
    BY <1>1, <1>2, <2>3, <2>4, <2>6, <2>7, <2>8, CollectedOrder
<1> QED
  BY <1>7, <1>8 DEF CollectLines

LEMMA OrderCollect ==
  ASSUME Orderly, OrderInv, Inductive', NEW f \in Files, Collect(f) PROVE InOrder'
<1> USE DEF OrderInv, InOrder
<1>1. CASE CollectNothing(f)
  BY <1>1, QuietOrder DEF CollectNothing, CollectFrame
<1>2. CASE CollectNoise(f)
  <2>1. /\ size[f] \in 0 .. MaxPos /\ Start(f) \in 0 .. MaxPos /\ Start(f) < size[f]
        /\ SetWork(f, size[f]) /\ pollPc = "polling" /\ pollPc' = "polling"
        /\ UNCHANGED <<fileVars, cursor, batch, status, created, fresh, daemon, drainVars, serverVars>>
        /\ Kept(f) = {}
    BY <1>2, StartType DEF CollectNoise, Collecting, CollectFrame, Inductive, TypeOK
  <2>2. \A p \in (1 .. MaxPos) \ Noise : p <= size[f] => p <= Start(f) \/ p \in Kept(f)
    BY <2>1 DEF Kept
  <2>3. created' + fresh' = created + fresh /\ created + fresh <= created' + fresh'
    BY <2>1, OrderNumbers
  <2>4. \A a, b \in 1 .. created' + fresh' : ~(created + fresh < a /\ a < b)
    BY <2>3, OrderNumbers
  <2> QED
    BY <2>1, <2>2, <2>3, <2>4, CollectedOrder
<1>3. CASE CollectLines(f)
  BY <1>3, OrderLines
<1> QED
  BY <1>1, <1>2, <1>3, OrderlyMishaps DEF Collect

LEMMA OrderCommit == ASSUME OrderInv, CommitCapture PROVE InOrder'
<1> USE DEF OrderInv, InOrder
<1>1. /\ UNCHANGED <<fileVars, batch, daemon, drainVars, serverVars>> /\ pollPc' = "polled"
      /\ created' = created + fresh /\ fresh' = 0 /\ daemon # "down"
      /\ Follows(work, created + fresh) /\ Follows(cursor, created)
  BY DEF CommitCapture, CursorsFollow, NotBooted
<1>2. created' + fresh' = created + fresh /\ created \in Nat /\ created <= created'
      /\ 1 .. created \subseteq 1 .. created'
  BY <1>1, OrderNumbers
<1>3. \A id \in Ids : status'[id] = IF status[id] = "captured" THEN "pending" ELSE status[id]
  BY DEF CommitCapture
<1>4. \A id \in 1 .. created : id \in Ids /\ status'[id] = status[id]
  <2>1. \A id \in 1 .. created : id \in Ids /\ ~(created < id)
    BY OrderNumbers
  <2> QED
    BY <1>3, <2>1, CommittedIds
<1>5. \A f \in Files, i \in Inodes :
        cursor'[f][i] = IF work[f][i] # NoCursor THEN work[f][i] ELSE cursor[f][i]
  BY DEF CommitCapture
<1>6. 0 \in Inodes /\ 1 \in Inodes /\ \A i \in 2 .. MaxInode : i \in Inodes
  BY Numbers DEF Inodes
<1>7. ASSUME NEW f \in Files
      PROVE  /\ cursor'[f][0] = work[f][0] /\ cursor'[f][0] = cursor[f][0]
             /\ \A i \in 2 .. MaxInode : cursor'[f][i] = NoCursor
             /\ cursor'[f][1] = IF work[f][1] # NoCursor THEN work[f][1] ELSE cursor[f][1]
  BY <1>1, <1>5, <1>6 DEF Follows
<1>8. ASSUME NEW f \in Files
      PROVE  /\ cursor'[f][0] = IF PriorInstall[f] > 0 THEN PriorInstall[f] ELSE NoCursor
             /\ \A i \in 2 .. MaxInode : cursor'[f][i] = NoCursor
             /\ serverEnd[f] <= ResumePoint(cursor', f, 1)
             /\ \A id \in 1 .. created + fresh : batch[id].file = f => batch[id].hi <= cursor'[f][1]
             /\ \A p \in (1 .. MaxPos) \ Noise :
                  p <= ResumePoint(cursor', f, 1) =>
                    p <= PriorInstall[f] \/ \E id \in 1 .. created + fresh : Covers(id, f, 1, p)
  <2>1. CASE work[f][1] # NoCursor
    <3>1. cursor'[f][1] = work[f][1] /\ ResumePoint(cursor', f, 1) = ResumePoint(work, f, 1)
      BY <1>7, <2>1 DEF ResumePoint
    <3> QED
      BY <1>1, <1>7, <3>1 DEF Follows
  <2>2. CASE work[f][1] = NoCursor
    <3>1. cursor'[f][1] = cursor[f][1] /\ ResumePoint(cursor', f, 1) = ResumePoint(cursor, f, 1)
      BY <1>7, <2>2 DEF ResumePoint
    <3>2. \A id \in 1 .. created + fresh : batch[id].file # f
      <4>1. ASSUME NEW id \in 1 .. created + fresh, batch[id].file = f PROVE FALSE
        <5>1. batch[id].hi <= NoCursor /\ batch[id].hi \in 0 .. MaxPos
          BY <1>1, <2>2, <4>1, OrderNumbers DEF Follows
        <5> QED
          BY <5>1 DEF NoCursor
      <4> QED
        BY <4>1
    <3>3. \A p : (\E id \in 1 .. created : Covers(id, f, 1, p))
                   => \E id \in 1 .. created + fresh : Covers(id, f, 1, p)
      BY <1>1, <1>2
    <3> QED
      BY <1>1, <1>7, <3>1, <3>2, <3>3 DEF Follows
  <2> QED
    BY <2>1, <2>2
<1>9. CursorsFollow'
  <2>1. \A f \in Files : ResumePoint(cursor, f, 1)' = ResumePoint(cursor', f, 1)
    BY DEF ResumePoint
  <2>2. Follows(cursor, created)'
    BY <1>1, <1>8, <2>1 DEF Follows, Covers
  <2> QED
    BY <1>1, <2>2 DEF CursorsFollow
<1>10. RangesInOrder' /\ OneInode'
  BY <1>1, <1>2 DEF RangesInOrder, OneInode
<1>11. Acceptable'
  BY <1>1, <1>3 DEF Acceptable, End
<1>12. SentInOrder'
  <2>1. ASSUME NEW x \in 0 .. created, NoneBefore(x), NEW j \in Pending', j < x PROVE j \in stored
    <3>1. j \in Ids /\ j \in Int /\ 0 < j /\ j <= created
      BY <1>2, <2>1, OrderNumbers DEF Pending
    <3>2. j \in 1 .. created
      BY <1>2, <3>1
    <3>3. j \in Pending
      BY <1>4, <2>1, <3>2 DEF Pending
    <3> QED
      BY <2>1, <3>3 DEF NoneBefore
  <2>2. at \in 0 .. created /\ late \subseteq 0 .. created /\ (at > 0 => at \in 1 .. created)
    BY <1>2, CommittedIds
  <2>3. NoneBefore(at)' /\ \A id \in late' : NoneBefore(id)'
    BY <1>1, <2>1, <2>2 DEF SentInOrder, NoneBefore
  <2>4. drainPc' = "walk" /\ at' > 0 => at' \in stored' \/ status'[at'] # "pending"
    BY <1>1, <1>4, <2>2 DEF SentInOrder
  <2>5. \A id \in Ids : status'[id] # "recovered"
    BY <1>3 DEF SentInOrder
  <2> QED
    BY <1>1, <2>3, <2>4, <2>5 DEF SentInOrder
<1> QED
  BY <1>9, <1>10, <1>11, <1>12

\* Without the captures that a worker has not committed everything is as before.
LEMMA DroppedOrder ==
  ASSUME OrderInv, UNCHANGED <<fileVars, cursor, batch, created, stored, serverEnd>>,
         status' = DropCaptured, fresh' = 0, work' = NoRows, pollPc' # "polling",
         daemon # "down", daemon' = daemon \/ pollPc' = "idle"
  PROVE  /\ CursorsFollow' /\ RangesInOrder' /\ OneInode' /\ Acceptable'
         /\ Pending' = Pending
         /\ \A id \in Ids : status'[id] = status[id] \/ status[id] = "captured"
         /\ \A id \in Ids : status'[id] # "recovered"
<1> USE DEF OrderInv, InOrder
<1>1. \A id \in Ids : status'[id] = IF status[id] = "captured" THEN "absent" ELSE status[id]
  BY DEF DropCaptured
<1>2. created' + fresh' = created /\ 1 .. created \subseteq 1 .. created + fresh
  BY OrderNumbers
<1>3. CursorsFollow'
  BY DEF CursorsFollow, NotBooted, Follows, ResumePoint, Covers
<1>4. RangesInOrder' /\ OneInode'
  BY <1>2 DEF RangesInOrder, OneInode
<1>5. Acceptable'
  BY <1>1 DEF Acceptable, End
<1> QED
  BY <1>1, <1>3, <1>4, <1>5 DEF Pending, SentInOrder

LEMMA OrderCapture == ASSUME Orderly, OrderInv, Inductive', Capture PROVE InOrder'
<1> USE DEF OrderInv, InOrder
<1>1. CASE CaptureGate
  BY <1>1, QuietOrder DEF CaptureGate
<1>2. CASE CaptureStart
  <2>1. /\ UNCHANGED <<fileVars, bufferVars, flagVars, daemon, drainVars, serverVars>>
        /\ work' = cursor /\ fresh' = 0 /\ Follows(cursor, created) /\ daemon # "down"
    BY <1>2 DEF CaptureStart, CursorsFollow, NotBooted
  <2>2. fresh = 0 /\ created + 0 = created
    BY <1>2, OrderNumbers DEF CaptureStart, Inductive, FreshWhilePolling
  <2>3. CursorsFollow'
    BY <2>1, <2>2 DEF CursorsFollow, Follows, ResumePoint, Covers
  <2> QED
    BY <2>1, <2>2, <2>3 DEF RangesInOrder, OneInode, Acceptable, End, SentInOrder, NoneBefore,
                            Pending
<1>3. CASE WorkerFails
  <2>1. daemon # "down"
    BY <1>3 DEF WorkerFails, CursorsFollow
  <2>2. /\ CursorsFollow' /\ RangesInOrder' /\ OneInode' /\ Acceptable' /\ Pending' = Pending
        /\ \A id \in Ids : status'[id] = status[id] \/ status[id] = "captured"
        /\ \A id \in Ids : status'[id] # "recovered"
    BY <1>3, <2>1, DroppedOrder DEF WorkerFails
  <2>3. at > 0 => at \in Ids /\ status[at] # "captured"
    BY CommittedIds, OrderNumbers
  <2>4. SentInOrder'
    BY <1>3, <2>2, <2>3 DEF WorkerFails, SentInOrder, NoneBefore
  <2> QED
    BY <2>2, <2>4
<1>4. CASE EvaluatePressure
  <2>1. pollPc' # "polling" /\ daemon # "down"
    BY <1>4 DEF EvaluatePressure, CursorsFollow
  <2> QED
    BY <1>4, <2>1, QuietOrder DEF EvaluatePressure
<1>5. CASE WriteBufferFull
  <2>1. pollPc' # "polling" /\ daemon # "down"
    BY <1>5 DEF WriteBufferFull, CursorsFollow
  <2> QED
    BY <1>5, <2>1, QuietOrder DEF WriteBufferFull
<1> QED
  BY <1>1, <1>2, <1>3, <1>4, <1>5, OrderCommit, OrderCollect DEF Capture

-----------------------------------------------------------------------------
(* The drain cycle.                                                        *)

LEMMA OrderReply == ASSUME Orderly, OrderInv, Reply PROVE InOrder'
<1> USE DEF OrderInv, InOrder, ReplyFrame, Waiting
<1>1. /\ drainPc = "sending" /\ at > 0 /\ at \in 1 .. created /\ at \in Ids
      /\ status[at] = "pending" /\ NoneBefore(at)
      /\ UNCHANGED <<fileVars, bufferVars, flagVars, daemon, pollVars, drainPc, at>>
  <2>1. drainPc = "sending"
        /\ UNCHANGED <<fileVars, bufferVars, flagVars, daemon, pollVars, drainPc, at>>
    BY DEF Reply, ServerAnswers, ServerRefuses, UploadTimesOut, AnswerUnreadable
  <2> QED
    BY <2>1, CommittedIds, OrderNumbers DEF Inductive, UploadInvariant, SentInOrder
<1>2. ASSUME stored \subseteq stored', late' = late, reply' = "unavailable" => at \in stored',
             reply' \notin {"regression", "unauthorized"}
      PROVE  SentInOrder'
  BY <1>1, <1>2 DEF SentInOrder, NoneBefore, Pending
<1>3. ASSUME ServerProcesses(at), late' = late, reply' \notin {"regression", "unauthorized"}
      PROVE  InOrder'
  <2>1. /\ CursorsFollow' /\ RangesInOrder' /\ OneInode' /\ Acceptable'
        /\ stored \subseteq stored' /\ at \in stored'
    BY <1>1, <1>3, TakenInOrder
  <2> QED
    BY <1>2, <1>3, <2>1
<1>4. CASE ServerAnswers
  <2>1. Accepts(at)
    BY <1>1 DEF Accepts, Acceptable
  <2> QED
    BY <1>3, <1>4, <2>1 DEF ServerAnswers
<1>5. CASE ServerRefuses
  <2>1. reply' = "invalid" /\ UNCHANGED serverVars
    BY <1>5, OrderlyMishaps DEF ServerRefuses, Orderly, OrderlyKinds
  <2>2. CursorsFollow' /\ RangesInOrder' /\ OneInode' /\ Acceptable'
    BY <1>1, <2>1, Settling
  <2> QED
    BY <1>2, <2>1, <2>2
<1>6. CASE UploadTimesOut
  <2>1. ServerProcesses(at) /\ late' = late /\ reply' = "unavailable"
    BY <1>6, OrderlyMishaps DEF UploadTimesOut, OrderlyKinds
  <2> QED
    BY <1>3, <2>1
<1>7. CASE AnswerUnreadable
  BY <1>3, <1>7 DEF AnswerUnreadable
<1> QED
  BY <1>4, <1>5, <1>6, <1>7 DEF Reply

LEMMA OrderHandle == ASSUME OrderInv, Handle PROVE InOrder'
<1> USE DEF OrderInv, InOrder, HandleFrame, Handling
<1>1. HandleAccepted \/ HandleInvalid \/ HandleRetriable
  BY DEF Handle, HandleRegression, HandleUnauthorized, AuthUnconfirmed, AuthConfirmed,
         WriteAuthFailed, SentInOrder
<1>2. /\ UNCHANGED <<fileVars, cursor, batch, created, flagVars, daemon, pollVars, at, serverVars>>
      /\ drainPc = "sending" /\ drainPc' = "walk" /\ reply' = "none"
  BY <1>1 DEF HandleAccepted, HandleInvalid, HandleRetriable, Retry
<1>3. at \in Ids
  BY <1>2, AtType DEF Inductive
<1>4. /\ \A id \in Ids : status'[id] = status[id] \/ status'[id] \in {"failed", "delivered", "pruned"}
      /\ at \in stored \/ status'[at] # "pending"
  BY <1>1, <1>3 DEF HandleAccepted, HandleInvalid, HandleRetriable, Retry, SentInOrder,
                    Inductive, TypeOK
<1>5. /\ CursorsFollow' /\ RangesInOrder' /\ OneInode' /\ Acceptable'
      /\ \A x : NoneBefore(x) => (\A j \in Pending' : j < x => j \in stored')
      /\ \A id \in Ids : status'[id] # "recovered"
  BY <1>2, <1>4, Settling
<1>6. SentInOrder'
  BY <1>2, <1>4, <1>5 DEF SentInOrder, NoneBefore
<1> QED
  BY <1>5, <1>6

LEMMA OrderDrain == ASSUME Orderly, OrderInv, Drain PROVE InOrder'
<1> USE DEF OrderInv, InOrder
<1>1. ASSUME UNCHANGED <<fileVars, bufferVars, flagVars, daemon, pollVars, serverVars>>,
             reply' = "none", NoneBefore(at'), drainPc' \notin {"verifying", "flagging"},
             drainPc' = "walk" => at' = 0
      PROVE  InOrder'
  <2>1. CursorsFollow' /\ RangesInOrder' /\ OneInode' /\ Acceptable'
    BY <1>1, Settling
  <2>2. SentInOrder'
    BY <1>1 DEF SentInOrder, NoneBefore, Pending
  <2> QED
    BY <2>1, <2>2
<1>2. NoneBefore(0)
  BY OrderNumbers DEF NoneBefore, Pending
<1>3. CASE DrainStart \/ DrainWalkEnds
  <2>1. reply = "none"
    BY <1>3 DEF DrainStart, DrainWalkEnds, Inductive, UploadInvariant
  <2> QED
    BY <1>1, <1>2, <1>3, <2>1 DEF DrainStart, DrainWalkEnds
<1>4. ASSUME NEW id \in Ids, DrainPick(id) PROVE InOrder'
  <2>1. /\ id \in Int /\ at \in Int /\ drainPc = "walk" /\ NoneBefore(at)
        /\ (at > 0 => at \in stored \/ status[at] # "pending")
        /\ \A j \in Pending : j > at => id <= j
    BY <1>4, OrderNumbers, CommittedIds DEF DrainPick, PendingAfter, SentInOrder
  <2>2. \A j \in Pending : j \in Int /\ j > 0 /\ status[j] = "pending"
    BY OrderNumbers DEF Pending
  <2>3. NoneBefore(id)
    <3>1. ASSUME NEW j \in Pending, j < id PROVE j \in stored
      <4>1. j <= at
        BY <2>1, <2>2, <3>1
      <4>2. CASE j = at
        BY <2>1, <2>2, <4>2
      <4>3. CASE j < at
        BY <2>1, <4>3 DEF NoneBefore
      <4> QED
        BY <2>1, <2>2, <4>1, <4>2, <4>3
    <3> QED
      BY <3>1 DEF NoneBefore
  <2> QED
    BY <1>1, <1>4, <2>3 DEF DrainPick
<1>5. CASE DrainWrapup
  <2>1. \A id \in Ids : status'[id] = status[id] \/ status'[id] \in {"failed", "delivered", "pruned"}
    <3>1. ASSUME NEW old \in SUBSET {id \in Ids : status[id] \in {"failed", "delivered"}},
                 status' = StatusWithout(old)
          PROVE  \A id \in Ids : status'[id] = status[id] \/ status'[id] = "pruned"
      BY <3>1 DEF StatusWithout
    <3> QED
      BY <1>5, <3>1 DEF DrainWrapup
  <2> QED
    BY <1>5, <2>1, QuietOrder DEF DrainWrapup
<1>6. CASE ClearBufferFull
  BY <1>6, QuietOrder DEF ClearBufferFull
<1> QED
  BY <1>3, <1>4, <1>5, <1>6, OrderReply, OrderHandle DEF Drain

\* A request that a dead daemon had on its way still has nothing before it.
LEMMA OrderCrash == ASSUME OrderInv, Crash \/ CrashInRecovery PROVE InOrder'
<1> USE DEF OrderInv, InOrder
<1>1. Crash
  BY DEF CrashInRecovery, Handling, SentInOrder
<1>2. /\ Forget /\ status' = DropCaptured /\ late' \subseteq late \union {at}
      /\ UNCHANGED <<cursor, resync>>
  BY <1>1 DEF Crash
<1>3. /\ CursorsFollow' /\ RangesInOrder' /\ OneInode' /\ Acceptable' /\ Pending' = Pending
      /\ \A id \in Ids : status'[id] # "recovered"
  BY <1>2, DroppedOrder DEF Forget
<1>4. NoneBefore(0)
  BY OrderNumbers DEF NoneBefore, Pending
<1>5. SentInOrder'
  BY <1>2, <1>3, <1>4 DEF Forget, SentInOrder, NoneBefore
<1> QED
  BY <1>3, <1>5

-----------------------------------------------------------------------------
(* The theorems.                                                           *)

LEMMA OrderInit == Init => OrderInv
<1> SUFFICES ASSUME Init PROVE OrderInv
  OBVIOUS
<1>1. Inductive
  BY InductiveInit
<1>2. \A id \in Ids : id \in Int /\ 0 < id
  BY <1>1, OrderNumbers
<1>3. created = 0 /\ fresh = 0 /\ created + fresh = 0 /\ status = [id \in Ids |-> "absent"]
  BY DEF Init
<1>4. CursorsFollow
  BY DEF Init, CursorsFollow, NotBooted
<1>5. RangesInOrder /\ OneInode
  BY <1>3 DEF Init, RangesInOrder, OneInode
<1>6. Acceptable
  BY <1>3 DEF Acceptable
<1>7. SentInOrder
  BY <1>3 DEF Init, SentInOrder, NoneBefore, Pending
<1> QED
  BY <1>1, <1>4, <1>5, <1>6, <1>7 DEF OrderInv, InOrder

LEMMA OrderStep == ASSUME Orderly PROVE OrderInv /\ [Next]_vars => OrderInv'
<1> SUFFICES ASSUME OrderInv, [Next]_vars PROVE OrderInv'
  OBVIOUS
<1>1. Inductive'
  BY InductiveStep DEF OrderInv
<1>2. CASE UNCHANGED vars
  BY <1>1, <1>2, QuietOrder DEF OrderInv, InOrder
<1>3. CASE Next
  <2>1. InOrder'
    BY <1>1, <1>3, OrderEnvironment, OrderBoot, OrderCapture, OrderDrain, OrderCrash DEF Next
  <2> QED
    BY <1>1, <2>1 DEF OrderInv
<1> QED
  BY <1>2, <1>3

\* As long as only mishaps of the orderly kinds happen, the captures of a file are sent
\* in the order of their ranges, however cycles, crashes and late requests interleave.
THEOREM UploadsInOrder == ASSUME Orderly PROVE Spec => []UploadInOrder
<1>1. OrderInv => UploadInOrder
  <2> SUFFICES ASSUME OrderInv, drainPc = "sending", NEW id \in Pending \ stored,
                      batch[id].file = batch[at].file
               PROVE  batch[id].lo >= batch[at].lo
    BY DEF UploadInOrder
  <2>1. /\ at \in 1 .. created /\ id \in 1 .. created /\ id \in Ids
        /\ 1 .. created \subseteq 1 .. created + fresh
    BY CommittedIds, OrderNumbers DEF OrderInv, Inductive, UploadInvariant, Pending
  <2>2. /\ id \in Int /\ at \in Int /\ ~(id < at)
    BY <2>1, OrderNumbers DEF OrderInv, InOrder, SentInOrder, NoneBefore
  <2>3. CASE id = at
    BY <2>1, <2>3, OrderNumbers DEF OrderInv
  <2>4. CASE at < id
    <3>1. batch[at].hi <= batch[id].lo /\ batch[at].lo < batch[at].hi
      BY <2>1, <2>4 DEF OrderInv, InOrder, RangesInOrder, Inductive, RangesNotEmpty
    <3>2. at \in Ids
      BY <2>1, OrderNumbers DEF OrderInv
    <3> QED
      BY <2>1, <3>1, <3>2, OrderNumbers DEF OrderInv
  <2> QED
    BY <2>2, <2>3, <2>4
<1>2. Init => OrderInv
  BY OrderInit
<1>3. OrderInv /\ [Next]_vars => OrderInv'
  BY OrderStep
<1> QED
  BY <1>1, <1>2, <1>3, PTL DEF Spec

\* With the same mishaps every line with dialogue that a cursor has passed was there
\* before the installation or is in a committed capture that was not given up.
THEOREM NothingLost == ASSUME Orderly PROVE Spec => []NoLoss
<1>1. OrderInv => NoLoss
  <2> SUFFICES ASSUME OrderInv, NEW f \in Files, NEW i \in 1 .. MaxInode,
                      NEW p \in (1 .. MaxPos) \ Noise, p <= cursor[f][i]
               PROVE  \/ i = 1 /\ p <= PriorInstall[f]
                      \/ \E id \in 1 .. created : /\ Covers(id, f, i, p)
                                                  /\ status[id] # "recovered" \/ id \in stored
    BY DEF NoLoss
  <2>1. cursor[f][i] # NoCursor
    BY Numbers DEF NoCursor
  <2>2. ~NotBooted
    <3>1. i \in Inodes
      BY Numbers DEF Inodes
    <3> QED
      BY <2>1, <3>1 DEF NotBooted, NoRows
  <2>3. Follows(cursor, created)
    BY <2>2 DEF OrderInv, InOrder, CursorsFollow
  <2>4. i = 1
    <3>1. i \in 2 .. MaxInode => cursor[f][i] = NoCursor
      BY <2>3 DEF Follows
    <3> QED
      BY <2>1, <3>1, Numbers
  <2>5. p <= ResumePoint(cursor, f, 1)
    BY <2>1, <2>4 DEF ResumePoint
  <2>6. p <= PriorInstall[f] \/ \E id \in 1 .. created : Covers(id, f, 1, p)
    BY <2>3, <2>5 DEF Follows
  <2>7. \A id \in 1 .. created : status[id] # "recovered"
    BY OrderNumbers DEF OrderInv, InOrder, SentInOrder
  <2> QED
    BY <2>4, <2>6, <2>7
<1>2. Init => OrderInv
  BY OrderInit
<1>3. OrderInv /\ [Next]_vars => OrderInv'
  BY OrderStep
<1> QED
  BY <1>1, <1>2, <1>3, PTL DEF Spec

=============================================================================
