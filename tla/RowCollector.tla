---------------------------- MODULE RowCollector ----------------------------
(***************************************************************************)
(* The collectors that read the rows of a SQLite database: cursor's global *)
(* state, cursor's per-workspace state, gemini's table of generated        *)
(* tokens, and a table of codex's state (whose collector is kept and       *)
(* tested, though poll-codex.ts does not call it at present).  The         *)
(* application may replace, delete and renumber the rows cursor reads; a   *)
(* poll that sees it happened starts a new generation of the file, which   *)
(* the backend takes for another file.                                     *)
(***************************************************************************)
EXTENDS Integers, Sequences, FiniteSets, SequencesExt

CONSTANTS
    Stores,      \* the databases of this run
    RowKinds,    \* what a row may be
    MaxRows,     \* bound: rows the application writes
    MaxChanges,  \* bound: deletions and vacuums
    MaxToggles,  \* bound: changes of the exclusion list
    MaxQueued,   \* bound: captures waiting when a read that must fail is tried again
    MaxThrows    \* bound: exceptions and crashes in a poll

ASSUME RowAssumption ==
    /\ Stores \subseteq {"global", "workspace", "tokens", "state"}
    /\ RowKinds \subseteq {"talk", "empty", "foreign", "secret", "big"}
    /\ MaxRows \in Nat /\ MaxChanges \in Nat /\ MaxToggles \in Nat
    /\ MaxQueued \in Nat /\ MaxThrows \in Nat

VARIABLES
    store,       \* which database this is
    rows,        \* its rows: rowid, kind, and a number that tells the writes apart
    pages,       \* its size
    cursors,     \* the cursor row of each generation, or NoCursor
    excluded,    \* whether the exclusion list names the project
    queue,       \* the captures to upload, oldest first
    held,        \* the writes the backend holds
    endOf,       \* the backend's watermark of each generation
    quarantined, \* the writes recorded as too large
    passed,      \* the writes left out because they were excluded
    shrunk,      \* whether rows went or moved since the last poll
    disturbed,   \* whether they did it so that no poll can tell
    half,        \* whether captures were made and their cursor was not written
    written, changes, toggles, throws

rowVars == <<store, rows, pages, cursors, excluded, queue, held, endOf, quarantined,
             passed, shrunk, disturbed, half, written, changes, toggles, throws>>

NoCursor == [end |-> -1, seen |-> -1]
Unseen == -1
Gens == 0..MaxChanges
IsTokens == store = "tokens"

\* Rowids start at 1, gemini numbers its rows from 0.
First == IF IsTokens THEN 0 ELSE 1
Ids(rs) == {r.id : r \in rs}
Top == Max({First - 1} \cup Ids(rows))

\* The rank of i among the numbers of S, and the number with a rank.
Rank(S, i) == Cardinality({j \in S : j <= i})
Nth(S, n) == CHOOSE i \in S : Rank(S, i) = n

RowInit ==
    /\ store \in Stores
    /\ rows = {} /\ pages = 0 /\ written = 0
    /\ cursors = [g \in Gens |-> NoCursor]
    /\ excluded \in BOOLEAN /\ (store = "state" => ~excluded)
    /\ queue = << >> /\ held = {} /\ endOf = [g \in Gens |-> 0]
    /\ quarantined = {} /\ passed = {}
    /\ shrunk = FALSE /\ disturbed = FALSE /\ half = FALSE
    /\ changes = 0 /\ toggles = 0 /\ throws = 0

-----------------------------------------------------------------------------
(* The cursor of the current generation *)

\* getHighestGenerationPath.
Gen == Max({0} \cup {g \in Gens : cursors[g] # NoCursor})
Prior == cursors[Gen]

\* The first rowid that was not read yet.
Floor == IF Prior = NoCursor THEN First ELSE Prior.end

Captured(n) == n \in held \/ \E i \in DOMAIN queue : n \in queue[i].body
Unread(r) == ~Captured(r.n) /\ r.n \notin quarantined \cup passed

DetectVacuumBySize ==
    ~IsTokens /\ Prior # NoCursor /\ Prior.seen # Unseen /\ pages < Prior.seen

\* detectVacuum: the file has shrunk, or ended before the cursor.
DetectVacuum ==
    /\ ~IsTokens /\ Prior # NoCursor
    /\ \/ Prior.seen # Unseen /\ pages < Prior.seen
       \/ Top + 1 < Prior.end

-----------------------------------------------------------------------------
(* The application *)

\* Rows were freed since the last poll, unread ones are below the cursor, and
\* nothing shows it any more.
Hidden == ~DetectVacuum /\ \E r \in rows : r.id < Floor /\ Unread(r)

\* Bound: when captures have lost their cursor, nothing changes any more.
InBounds == ~half

Changed(newRows, newPages, freed) ==
    /\ InBounds
    /\ UNCHANGED <<store, cursors, excluded, queue, held, endOf, quarantined, passed,
                   half, toggles, throws>>
    /\ rows' = newRows /\ pages' = newPages
    /\ shrunk' = (shrunk \/ freed)
    /\ disturbed' = (disturbed \/ (shrunk' /\ Hidden'))

\* What the rows of a database may be.
KindsOf == CASE store = "global" -> RowKinds
             [] store = "workspace" -> RowKinds \ {"secret"}
             [] store \in {"tokens", "state"} -> RowKinds \ {"secret", "empty", "foreign"}

\* A key is inserted or replaced: the row goes to the end, in the freed pages if
\* there are some.
Write(k) ==
    /\ k \in KindsOf /\ written < MaxRows /\ written' = written + 1
    /\ \E old \in {{}} \cup {{r} : r \in rows} :
          LET kept == (IF IsTokens THEN rows ELSE rows \ old)
                      \cup {[id |-> Top + 1, n |-> written', kind |-> k]}
          IN  Changed(kept, Max({pages, Cardinality(kept)}), FALSE)
    /\ UNCHANGED changes

Delete ==
    /\ ~IsTokens /\ changes < MaxChanges /\ changes' = changes + 1
    /\ \E r \in rows : Changed(rows \ {r}, pages, TRUE)
    /\ UNCHANGED written

\* VACUUM numbers the rows anew and gives the freed pages back.
Vacuum ==
    /\ ~IsTokens /\ changes < MaxChanges /\ changes' = changes + 1
    /\ Changed({[r EXCEPT !.id = Rank(Ids(rows), r.id)] : r \in rows},
               Cardinality(rows), TRUE)
    /\ UNCHANGED written

Toggle ==
    /\ InBounds /\ store # "state" /\ toggles < MaxToggles /\ toggles' = toggles + 1
    /\ excluded' = ~excluded
    /\ UNCHANGED <<store, rows, pages, cursors, queue, held, endOf, quarantined, passed,
                   shrunk, disturbed, half, written, changes, throws>>

-----------------------------------------------------------------------------
(* A poll *)

\* A workspace and gemini's tokens are of one project, and wait while it is excluded;
\* codex's state is not looked at for projects.
Pausing == excluded /\ store \in {"workspace", "tokens"}

\* The generation a poll reads for, and where it starts in it.
ReadGen == IF DetectVacuum THEN Gen + 1 ELSE Gen
ReadFrom == IF DetectVacuum THEN First ELSE Floor
Selected == LET from == ReadFrom
            IN  {r \in rows : r.id >= from /\ r.kind # "foreign"}

\* buildCursorGlobalExclusionPlan and isRowExcludedByPlan: the rows of the excluded
\* project, and no others, are left out of the global database.
PlannedOut == IF excluded /\ store = "global"
              THEN {r \in Selected : r.kind = "secret"} ELSE {}

\* processRows: bubbles without text and blobs that are no conversation go as well.
Filtered == {r \in Selected \ PlannedOut : r.kind # "empty"}

\* splitRowsByCompressedSize: the rowids the slices end with, any rows and the last
\* one; a row that is too large by itself is alone.
Splits(kept) ==
    LET ids == Ids(kept)
        big == Ids({r \in kept : r.kind = "big"})
        forced == {i \in ids : \/ i \in big \/ \A j \in ids : j <= i
                              \/ \E b \in big : i < b /\ ~\E j \in ids : i < j /\ j < b}
    IN  {ends \in SUBSET ids : forced \subseteq ends}

\* The slice of the rows up to e.
Slice(g, kept, ends, e) ==
    LET rowsOf == {r \in kept : r.id <= e /\ \A l \in ends : l < e => l < r.id}
    IN  [gen |-> g, start |-> Min(Ids(rowsOf)), end |-> e + 1,
         body |-> {r.n : r \in rowsOf}]

\* What is not captured: cursor quarantines the slice of a row that is over the
\* limit, gemini stops at it.
IsBig(kept, e) == \E r \in kept : r.kind = "big" /\ (IF IsTokens THEN r.id <= e
                                                                  ELSE r.id = e)
Slices(g, kept, ends) ==
    LET taken == {e \in ends : ~IsBig(kept, e)}
    IN  [i \in 1..Cardinality(taken) |-> Slice(g, kept, ends, Nth(taken, i))]

\* What the new rows may be captured as, of a read for generation g.
CapturesOf(g, kept) == {Slices(g, kept, ends) : ends \in Splits(kept)}
NewCaptures == UNION {CapturesOf(p[1], p[2]) : p \in {<<ReadGen, Filtered>>}}

Big == {r.n : r \in {q \in Filtered : q.kind = "big"}}

SetCursor(g, end, seen) == cursors' = [cursors EXCEPT ![g] = [end |-> end, seen |-> seen]]

\* What a poll that saw the database does to the ghosts of the application's changes.
Looked == shrunk' = FALSE /\ disturbed' = (disturbed /\ ~DetectVacuum)

RowUnpolled == UNCHANGED <<store, rows, pages, excluded, held, endOf, written, changes,
                           toggles>>

\* No new row: the size is noted, for a new generation together with an empty cursor.
PollRefreshes ==
    /\ RowUnpolled /\ UNCHANGED <<queue, quarantined, passed, half, throws>>
    /\ ~Pausing /\ Selected = {}
    /\ IF IsTokens \/ (Prior = NoCursor /\ ReadGen = 0) THEN UNCHANGED cursors
       ELSE IF DetectVacuum THEN SetCursor(ReadGen, 0, pages)
       ELSE SetCursor(Gen, Prior.end, pages)
    /\ Looked

\* Every new row is captured, quarantined or passed over, and the cursor follows.
PollRows ==
    /\ RowUnpolled /\ UNCHANGED <<half, throws>>
    /\ ~Pausing /\ Selected # {} /\ (IsTokens => Big = {})
    /\ \E slices \in NewCaptures : queue' = queue \o slices
    /\ quarantined' = quarantined \cup Big
    /\ passed' = passed \cup {r.n : r \in PlannedOut}
    /\ SetCursor(ReadGen, Max(Ids(Selected)) + 1,
                 IF IsTokens THEN Unseen ELSE pages)
    /\ Looked

\* The handler of an exception writes the cursor row of the plain path, whatever
\* generation was being read; codex's writes that of the generation.
HandlerGen == IF store = "state" THEN ReadGen ELSE 0
Handled(before) ==
    IF before[HandlerGen] # NoCursor THEN before
    ELSE [before EXCEPT ![HandlerGen] = [end |-> First, seen |-> Unseen]]
RowError == cursors' = Handled(cursors)

\* gemini cannot capture a row that is over the limit: what came before it stays.
PollOversized ==
    /\ RowUnpolled /\ UNCHANGED <<quarantined, passed, half, throws>>
    /\ ~Pausing /\ IsTokens /\ Big # {} /\ Len(queue) < MaxQueued
    /\ \E slices \in NewCaptures : queue' = queue \o slices
    /\ RowError
    /\ Looked

\* processRows writes the cursor at once behind a row that it quarantines.
CursorsPast(last) ==
    IF last < First THEN cursors
    ELSE [cursors EXCEPT ![ReadGen] = [end |-> last + 1, seen |-> pages]]

\* A poll throws when the slices up to e are inserted or quarantined; those that were
\* inserted after the last quarantined row are without their cursor.
FailsAfter(ends, e) ==
    LET done == {r \in Filtered : r.id <= e}
        kept == {r \in done : r.kind = "big" /\ ~IsTokens}
        last == Max({First - 1} \cup Ids(kept))
    IN  /\ \E slices \in {Slices(g, done, ends) : g \in {ReadGen}} :
              /\ queue' = queue \o slices
              /\ half' = (half \/ \E i \in DOMAIN slices : slices[i].end > last + 1)
        /\ quarantined' = quarantined \cup {r.n : r \in kept}
        /\ passed' = passed \cup {r.n : r \in {q \in PlannedOut : q.id <= last}}
        /\ cursors' = Handled(CursorsPast(last))
        /\ IF last < First THEN UNCHANGED <<shrunk, disturbed>> ELSE Looked

PollFails ==
    /\ RowUnpolled
    /\ ~Pausing /\ Selected # {} /\ throws < MaxThrows /\ throws' = throws + 1
    /\ \E ends \in Splits(Filtered) : \E e \in {First - 1} \cup ends :
          FailsAfter({i \in ends : i <= e}, e)

\* The daemon dies in a poll of gemini, which writes to the daemon's own database;
\* a worker's goes with the worker.
PollDies ==
    /\ RowUnpolled /\ UNCHANGED <<cursors, quarantined, passed, shrunk, disturbed>>
    /\ ~Pausing /\ IsTokens /\ Selected # {}
    /\ throws < MaxThrows /\ throws' = throws + 1
    /\ \E slices \in NewCaptures : \E n \in 1..Len(slices) :
          queue' = queue \o SubSeq(slices, 1, n)
    /\ half' = TRUE

-----------------------------------------------------------------------------
(* An upload of the oldest capture *)
RowUpload ==
    /\ queue # << >>
    /\ LET b == Head(queue) IN
          \/ /\ b.start >= endOf[b.gen]
             /\ held' = held \cup b.body /\ endOf' = [endOf EXCEPT ![b.gen] = b.end]
             /\ UNCHANGED cursors
          \/ /\ b.start < endOf[b.gen]
             /\ SetCursor(b.gen, endOf[b.gen], cursors[b.gen].seen)
             /\ UNCHANGED <<held, endOf>>
    /\ queue' = Tail(queue)
    /\ UNCHANGED <<store, rows, pages, excluded, quarantined, passed, shrunk, disturbed,
                   half, written, changes, toggles, throws>>

RowPolls == PollRefreshes \/ PollRows \/ PollOversized

RowNext ==
    \/ \E k \in RowKinds : Write(k)
    \/ Delete \/ Vacuum \/ Toggle
    \/ RowPolls \/ PollFails \/ PollDies
    \/ RowUpload

RowSpec == RowInit /\ [][RowNext]_rowVars

-----------------------------------------------------------------------------
(* Properties *)

Slots == [gen : Gens, start : 0..MaxRows, end : 0..MaxRows + 1,
          body : SUBSET (1..MaxRows)]

RowTypeOK ==
    /\ store \in Stores /\ pages \in 0..MaxRows
    /\ rows \subseteq [id : 0..MaxRows, n : 1..MaxRows, kind : RowKinds]
    /\ \A r, q \in rows : r.id = q.id => r = q
    /\ \A g \in Gens : cursors[g] = NoCursor
                       \/ cursors[g] \in [end : 0..MaxRows + 1, seen : -1..MaxRows]
    /\ ToSet(queue) \subseteq Slots
    /\ held \cup quarantined \cup passed \subseteq 1..MaxRows
    /\ excluded \in BOOLEAN
    /\ {shrunk, disturbed, half} \subseteq BOOLEAN
    /\ written \in 0..MaxRows /\ changes \in 0..MaxChanges
    /\ toggles \in 0..MaxToggles /\ throws \in 0..MaxThrows

\* A conversation row that has its place before the cursor is held by the backend or
\* by a waiting capture, was left out while its project was excluded, or is on record
\* as too large: whatever the application replaced, deleted and renumbered, unless a
\* poll could not tell, or captures lost their cursor to an exception.
NoRowSkipped ==
    half \/ disturbed \/ DetectVacuum
    \/ \A r \in rows : r.kind \in {"talk", "secret", "big"} /\ r.id < Floor => ~Unread(r)

=============================================================================
