--------------------------- MODULE LineCollectors ---------------------------
(***************************************************************************)
(* The collectors that read a file of lines: codex rollouts, gemini        *)
(* transcripts and the audit files of claude-desktop (claude-code is part  *)
(* of UploadPipeline).  One file and its collector are followed from the   *)
(* line to the backend: what a poll keeps, how it cuts a long read, when   *)
(* it pauses for an excluded project, and what an exception or a crash in  *)
(* the middle leaves behind.                                               *)
(*                                                                         *)
(* codex polls on a worker's database that is committed as a whole; gemini *)
(* and claude-desktop write to the daemon's own, row by row.               *)
(***************************************************************************)
EXTENDS Integers, Sequences, FiniteSets, SequencesExt

CONSTANTS
    Apps,        \* the collectors of this run
    Cut,         \* those whose reads may be too long for one capture
    Kinds,       \* what the application may append
    MaxLines,    \* bound: lines of the file
    MaxEvents,   \* bound: changes of the exclusion list and of what names the project
    MaxWaiting,  \* bound: captures waiting when a read that must fail is tried again
    MaxFaults,   \* bound: exceptions and crashes in a poll
    Synced       \* bound: what the backend holds when the buffer is created

ASSUME LineAssumption ==
    /\ Apps \subseteq {"codex", "gemini", "claude-desktop"} /\ Cut \subseteq Apps
    /\ Kinds \subseteq {"talk", "tool", "replay", "junk", "huge"}
    /\ MaxLines \in Nat /\ MaxEvents \in Nat /\ MaxFaults \in Nat /\ MaxWaiting \in Nat
    /\ Synced \in 0..MaxLines

VARIABLES
    app,         \* whose file this is
    line,        \* its complete lines, each by its kind
    list,        \* the exclusion list: "none", "others", or "this" project among them
    hint,        \* what tells the project: nothing ("missing"), a torn index, or its name
    own,         \* the cursor row of this inode, -1 when there is none
    fallback,    \* the row without an inode, which the sync wrote
    waiting,     \* the captures to upload, oldest first
    delivered,   \* the lines the backend holds
    serverEnd,   \* the backend's watermark of the file
    torn,        \* whether lines that were captured, or synced, are read again
    events, faults

lineVars == <<app, line, list, hint, own, fallback, waiting, delivered, serverEnd,
              torn, events, faults>>

None == -1
InWorker == app = "codex"

LineInit ==
    /\ app \in Apps
    /\ fallback \in 0..Synced
    /\ line = [i \in 1..fallback |-> "talk"]
    /\ list \in {"none", "others", "this"} /\ hint \in {"missing", "named"}
    /\ own = None /\ waiting = << >>
    /\ delivered = 1..fallback /\ serverEnd = fallback
    /\ torn = FALSE /\ events = 0 /\ faults = 0

\* The application ends a line; readJsonlRange gives out only lines that have ended.
Ends(k) ==
    /\ Len(line) < MaxLines /\ (k = "huge" => app \in Cut)
    /\ line' = line \o <<k>>
    /\ UNCHANGED <<app, list, hint, own, fallback, waiting, delivered, serverEnd, torn,
                   events, faults>>

Event ==
    /\ events < MaxEvents /\ events' = events + 1
    /\ UNCHANGED <<app, line, own, fallback, waiting, delivered, serverEnd, torn,
                   faults>>

\* The user edits the list of excluded projects.
Exclude == Event /\ list' \in {"none", "others", "this"} \ {list} /\ UNCHANGED hint

\* The application names the project: codex in its session_meta line, claude-desktop
\* in a transcript beside the audit file, gemini in its index, which it rewrites.
Names == IF app = "gemini" THEN {"torn", "named"} ELSE {"named"}
Name == Event /\ hint' \in Names \ {hint} /\ UNCHANGED list

-----------------------------------------------------------------------------
(* A poll *)

\* getCursorWithFallback.
Position == IF own = None THEN fallback ELSE own

\* isCodexDialogueRecord, and what the other two keep of a line: gemini every
\* record, claude-desktop the dialogue that is not a replay.
IsDialogue(k) == k \in {"talk", "huge", "replay"}

KeepsAsClaudeCode(k) == IsDialogue(k)

Keeps(k) ==
    CASE app = "codex" -> IsDialogue(k)
      [] app = "gemini" -> k # "junk"
      [] app = "claude-desktop" -> IsDialogue(k) /\ k # "replay"

\* resolveCwdFromHead and loadCliMetadataMap give a project or nothing.
Identified == hint = "named"

\* loadAgyhubFolderMap: no index is complete, a torn or empty one is not.
IndexComplete == hint # "torn"

\* Mutant: gemini goes on without a complete index.
PausesIgnoringTornIndex == list # "none" /\ Identified /\ list = "this"

Pauses ==
    /\ list # "none"
    /\ \/ app = "gemini" /\ ~IndexComplete
       \/ Identified /\ list = "this"

\* The kept lines of a read from `start` on.
KeptFrom(start) == {i \in start + 1..Len(line) : Keeps(line[i])}

\* splitJsonlAtBoundary into m slices, by the slice each kept line goes to: it cuts
\* after any line that fills a capture; one that is too large by itself is alone.
Slicings(kept, m) ==
    {of \in [kept -> 1..m] :
        /\ app \in Cut \/ m = 1
        /\ \A i, j \in kept : i < j => of[i] <= of[j]
        /\ \A i, j \in kept : line[i] = "huge" /\ of[i] = of[j] => i = j}

\* The last line of each slice.
LastLines(kept, m, of) ==
    {last \in [1..m -> kept] :
        \A n \in 1..m : of[last[n]] = n /\ \A i \in kept : of[i] = n => i <= last[n]}

PieceRangeFromItself(last, m, n) ==
    [start |-> IF n = 1 THEN Position ELSE last[n - 1] + 1,
     end |-> IF n = m THEN Len(line) ELSE last[n]]

\* The range of the n-th of m captures runs from the last line of the one before it
\* to its own, and the last one's to the end of the read.
PieceRange(last, m, n) ==
    [start |-> IF n = 1 THEN Position ELSE last[n - 1],
     end |-> IF n = m THEN Len(line) ELSE last[n]]

\* claude-desktop gives every capture the range of the whole read.
WholeRange == [start |-> Position, end |-> Len(line)]

Piece(last, m, n, body) ==
    LET range == IF app = "claude-desktop" THEN WholeRange ELSE PieceRange(last, m, n)
    IN  [start |-> range.start, end |-> range.end, body |-> body]

\* What a read of everything new may be cut into.
Readings ==
    LET kept == KeptFrom(Position)
        Cuts(m, of) == {[n \in 1..m |-> Piece(last, m, n, {i \in kept : of[i] = n})] :
                           last \in LastLines(kept, m, of)}
    IN  UNION {UNION {Cuts(m, of) : of \in Slicings(kept, m)} : m \in 1..Len(line)}

\* The piece that codex and gemini refuse: redacted, it is over the limit.
TooLarge(p) == app # "claude-desktop" /\ \E i \in p.body : line[i] = "huge"
\* The first n pieces can be inserted.
Insertable(pieces, n) == \A j \in 1..n : ~TooLarge(pieces[j])

Insert(pieces) == waiting' = waiting \o pieces

\* The handler of an exception looks up the row of this inode, not the fallback it
\* read from; claude-desktop only reports the error.
HandledCursor == IF own = None THEN 0 ELSE own
HandleError == own' = IF app = "claude-desktop" THEN own ELSE HandledCursor
\* The row it writes starts at 0 and hides the fallback.
HidesFallback == app # "claude-desktop" /\ own = None /\ fallback > 0

Unpolled == UNCHANGED <<app, line, list, hint, fallback, delivered, serverEnd, events>>

\* Nothing new, or a pause: no cursor is written.
Reads == Len(line) > Position /\ ~Pauses

\* Only lines that are not kept: the cursor passes them.
PollNothing ==
    /\ Reads /\ KeptFrom(Position) = {}
    /\ own' = Len(line)
    /\ Unpolled /\ UNCHANGED <<waiting, torn, faults>>

\* A whole read is captured.
Poll ==
    /\ Reads
    /\ \E pieces \in Readings : Insertable(pieces, Len(pieces)) /\ Insert(pieces)
    /\ own' = Len(line)
    /\ Unpolled /\ UNCHANGED <<torn, faults>>

\* Mutant: the cursor passes the piece that was refused.
PollTooLargePassing ==
    /\ Reads /\ Len(waiting) < MaxWaiting
    /\ \E pieces \in Readings : \E n \in 1..Len(pieces) :
          /\ Insertable(pieces, n - 1) /\ TooLarge(pieces[n])
          /\ Insert(SubSeq(pieces, 1, n - 1))
    /\ own' = Len(line)
    /\ Unpolled /\ UNCHANGED <<torn, faults>>

\* A piece is over the limit: what came before it stays.
PollTooLarge ==
    /\ Reads /\ Len(waiting) < MaxWaiting
    /\ \E pieces \in Readings : \E n \in 1..Len(pieces) :
          /\ Insertable(pieces, n - 1) /\ TooLarge(pieces[n])
          /\ Insert(SubSeq(pieces, 1, n - 1))
    /\ HandleError /\ torn' = (torn \/ HidesFallback)
    /\ Unpolled /\ UNCHANGED faults

\* An insertion throws, after n others.
PollThrows ==
    /\ Reads /\ faults < MaxFaults
    /\ \E pieces \in Readings : \E n \in 0..Len(pieces) :
          /\ Insertable(pieces, n) /\ Insert(SubSeq(pieces, 1, n))
          /\ torn' = (torn \/ n > 0 \/ HidesFallback)
    /\ HandleError /\ faults' = faults + 1
    /\ Unpolled

\* The daemon dies in the poll: the worker's database goes with it, the rows that
\* gemini and claude-desktop have inserted stay, and no cursor is written.
PollCrashes ==
    /\ Reads /\ ~InWorker /\ faults < MaxFaults
    /\ \E pieces \in Readings : \E n \in 1..Len(pieces) :
          Insertable(pieces, n) /\ Insert(SubSeq(pieces, 1, n))
    /\ torn' = TRUE /\ faults' = faults + 1
    /\ Unpolled /\ UNCHANGED own

-----------------------------------------------------------------------------
(* An upload of the oldest capture.  The backend takes a range that starts at  *)
(* or after its watermark; of another one the gateway takes over the watermark *)
(* and deletes the capture.                                                    *)
Upload ==
    /\ waiting # << >>
    /\ LET b == Head(waiting) IN
          \/ /\ b.start >= serverEnd
             /\ delivered' = delivered \cup b.body /\ serverEnd' = b.end
             /\ UNCHANGED own
          \/ /\ b.start < serverEnd
             /\ own' = serverEnd
             /\ UNCHANGED <<delivered, serverEnd>>
    /\ waiting' = Tail(waiting)
    /\ UNCHANGED <<app, line, list, hint, fallback, torn, events, faults>>

Polls == PollNothing \/ Poll \/ PollTooLarge

LineNext ==
    \/ \E k \in Kinds : Ends(k)
    \/ Exclude \/ Name
    \/ Polls \/ PollThrows \/ PollCrashes
    \/ Upload

\* The capture timer polls again and again, the drain timer uploads.
LineSpec == LineInit /\ [][LineNext]_lineVars /\ WF_lineVars(Polls) /\ WF_lineVars(Upload)

-----------------------------------------------------------------------------
(* Properties *)

Captures == [start : 0..MaxLines, end : 0..MaxLines, body : SUBSET (1..MaxLines)]

LineTypeOK ==
    /\ app \in Apps /\ line \in Seq(Kinds \cup {"talk"}) /\ Len(line) <= MaxLines
    /\ list \in {"none", "others", "this"} /\ hint \in {"missing", "torn", "named"}
    /\ own \in {None} \cup 0..Len(line) /\ fallback \in 0..Synced /\ fallback <= Len(line)
    /\ waiting \in Seq(Captures)
    /\ \A b \in ToSet(waiting) : b.start < b.end /\ b.body \subseteq 1..Len(line)
    /\ delivered \subseteq 1..Len(line) /\ serverEnd \in 0..Len(line)
    /\ torn \in BOOLEAN
    /\ events \in 0..MaxEvents /\ faults \in 0..MaxFaults

Held(i) == i \in delivered \/ \E b \in ToSet(waiting) : i \in b.body
\* What the backend can read: of codex and claude-desktop the dialogue, of gemini all.
Wanted(i) == line[i] \in IF app = "gemini" THEN {"talk", "tool", "replay"} ELSE {"talk"}

\* A cursor never passes a kept line that neither the backend nor a waiting capture
\* holds, whatever was cut, refused or thrown.  Only lines that are read again may
\* lose one: their new capture, which holds the lines after them too, is refused,
\* and a later one is taken.  They are read again after captures were made without
\* their cursor, and after an exception hid the synced row (collect-rollout.ts:300).
NoLineLost ==
    torn \/ \A i \in 1..Position : Wanted(i) => Held(i)

\* While the list names the project and the disk tells which project the file is of,
\* or the index that would tell is torn, no poll captures a line or moves the cursor;
\* and unless the project stays excluded, every kept line before one that is too
\* large comes to the backend: what is un-excluded later is still read.
ExcludedIsFrozen ==
    [][ list = "this" /\ (Identified \/ (app = "gemini" /\ ~IndexComplete))
          => /\ Len(waiting') <= Len(waiting)
             /\ Position' > Position => own' = serverEnd ]_lineVars

Reachable(i) == \A j \in 1..i : line[j] # "huge"
Settled ==
    torn \/ Pauses \/ \A i \in DOMAIN line : Wanted(i) /\ Reachable(i) => i \in delivered
ReadWhenAllowed == ExcludedIsFrozen /\ []<>Settled

=============================================================================
