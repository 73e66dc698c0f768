---------------------------- MODULE BufferViews ----------------------------
(***************************************************************************)
(* buffer.db as others see it: services/buffer/{db,batches,receipts,prune, *)
(* resync,quarantine,daemon-state,stats,logs-queries,doctor-queries}.ts.   *)
(* The daemon opens and migrates the database and writes its rows; `setup` *)
(* clears the failures from a process of its own; status, doctor and logs  *)
(* each compose what they show of several queries, and every one of them   *)
(* sees the database of another moment.                                    *)
(*                                                                         *)
(* A query that counts rows or adds up their bytes is modelled by the set  *)
(* of the records it counts.  Text, paths, prompts and attempts are left   *)
(* out; the collectors and the backend are those of UploadPipeline.        *)
(***************************************************************************)
EXTENDS Integers, FiniteSets, Functions

LOCAL INSTANCE Sequences

CONSTANTS
    MaxRecords,         \* bound: captures
    MaxTicks,           \* bound: the last drain cycle; each is a tick of the clock, from 2 on
    ReceiptRetention,   \* ticks a receipt or an audit is kept
    FailedRetention,    \* ticks a failed capture is kept
    MaxUpsets           \* bound: deaths of the daemon and runs of setup

ASSUME ViewsAssumption == /\ MaxRecords \in Nat \ {0} /\ MaxTicks \in Nat \ {0, 1}
                          /\ {ReceiptRetention, FailedRetention, MaxUpsets} \subseteq Nat

VARIABLES
    schema,     \* the tables and columns there are
    batches,    \* upload_batches: record -> [status, created, failedAt]; failedAt 0: null
    receipts,   \* upload_receipts: record -> time of delivery
    resyncs,    \* resync_events: record -> time of recovery
    success,    \* buffer_metadata.upload_last_success_at; 0: none
    stateRow,   \* daemon_state: the last upload error, as the tick of its drain, and the source
                \* captures; 0: null
    inserted,   \* captures so far
    tick, upsets,
    writer,     \* the daemon: see NoWriter
    reader,     \* the command that reads: see NoReader
    unseen,     \* history: failed captures that no successful drain has followed
    said        \* history: what the cycles last had to say for stateRow

tables == <<schema, batches, receipts, resyncs, success, stateRow>>
viewVars == <<tables, inserted, tick, upsets, writer, reader, unseen, said>>

RecordIds == 1 .. MaxRecords

\* What initializeSchema goes through, in its order: the tables, with their indexes
\* and the columns of their oldest version, and the columns added later that a query
\* of a command names (the receipts' nine stand for one).
SchemaPieces == <<"batches", "failed_at", "cursors", "receipts", "display", "metadata", "state",
                  "quarantine", "resync">>
Tables == {"batches", "cursors", "receipts", "metadata", "state", "quarantine", "resync"}
Latest == Range(SchemaPieces)

\* `at` is the piece that comes next, "looked" that it was found missing; `drain`
\* where the drain cycle stands, `shipped`, `fatal` and `error` its DrainResult,
\* `deleting` the capture it has audited, `copy` the rows a loop has read and not yet
\* written back.
NoWriter == [at |-> 0, looked |-> FALSE, drain |-> "idle", shipped |-> FALSE, fatal |-> FALSE,
             error |-> 0, deleting |-> 0, copy |-> <<>>]
IsOpen == writer.at > Len(SchemaPieces)
\* A function that awaited something between its two steps.
BusyNever == FALSE
\* The daemon's one thread does nothing else between these two steps of a function.
Busy == writer.copy # <<>> \/ writer.deleting # 0

\* `next` is the query that comes next, `asked` the capture looked for, `since` and
\* `shown` what the last queries gave, `whole` that none failed.  History, since the
\* first of the queries that belong together: the records that stayed in their place,
\* those stored throughout, those delivered, and whether no drain recorded a success.
NoReader == [cmd |-> "none", next |-> 1, asked |-> 0, since |-> 0, shown |-> {}, whole |-> TRUE,
             steady |-> {}, through |-> {}, delivered |-> {}, calm |-> TRUE]

\* A database that is not there, one of an older version, or one that has been used.
ViewsInit ==
    /\ tick = 2 /\ resyncs = <<>> /\ upsets = 0
    /\ writer = NoWriter /\ reader = NoReader
    /\ \/ schema = {} /\ batches = <<>> /\ receipts = <<>> /\ success = 0
       \/ /\ schema \in {{"batches", "cursors", "receipts", "metadata"}, Latest}
          /\ batches \in [{1} -> [status : {"failed"}, created : {0}, failedAt : {0}]]
          /\ receipts = <<>> /\ success \in {0, 1}
       \/ /\ schema = Latest
          /\ batches \in [{1} -> [status : {"failed"}, created : {1}, failedAt : {1}]]
          /\ receipts = <<>> /\ success = 0
       \/ schema = Latest /\ batches = <<>> /\ receipts \in [{1} -> {1}] /\ success = 1
    /\ stateRow = [error |-> 0, sources |-> 0] /\ said = stateRow
    /\ inserted = Cardinality(DOMAIN batches \cup DOMAIN receipts)
    /\ unseen = IF success = 0 THEN DOMAIN batches ELSE {}

-----------------------------------------------------------------------------
(* The rows. *)

InStatus(s) == {r \in DOMAIN batches : batches[r].status = s}
With(f, r, v) == [x \in DOMAIN f \cup {r} |-> IF x = r THEN v ELSE f[x]]
Minus(f, S) == [x \in DOMAIN f \ S |-> f[x]]
Expired(f, age) == {x \in DOMAIN f : f[x] < tick - age}
Stored == DOMAIN batches \cup DOMAIN receipts
Place(r) == <<IF r \in DOMAIN batches THEN batches[r].status ELSE "none",
              r \in DOMAIN receipts, r \in DOMAIN resyncs>>

\* What a write means to the command that is reading meanwhile.
Observe ==
    reader' = IF reader.cmd = "none" THEN reader
              ELSE [reader EXCEPT !.steady = {r \in @ : Place(r)' = Place(r)},
                                  !.through = @ \cap Stored',
                                  !.delivered = @ \cup (reader.through \cap (DOMAIN receipts' \ DOMAIN receipts)),
                                  !.calm = @ /\ (reader.cmd = "doctor" => success' = success)]

-----------------------------------------------------------------------------
(* Opening: each table is created if it is not there, each later column is   *)
(* looked for and then added; a column that another process has added        *)
(* meanwhile makes the ALTER, and with it the start of the daemon, fail.     *)

\* The next piece that is missing: a statement that finds its piece there changes nothing.
Missing(i, pieces) == CHOOSE j \in i + 1 .. Len(SchemaPieces) + 1 :
                         /\ j \in DOMAIN SchemaPieces => SchemaPieces[j] \notin pieces
                         /\ \A k \in i + 1 .. j - 1 : SchemaPieces[k] \in pieces
GoesOn(pieces) == writer' = [writer EXCEPT !.looked = FALSE, !.at = Missing(@, pieces)]

Starts == writer.at = 0 /\ GoesOn(schema)
          /\ UNCHANGED <<tables, inserted, tick, upsets, unseen, said>>

CreateTable ==
    /\ writer.at \in DOMAIN SchemaPieces /\ SchemaPieces[writer.at] \in Tables
    /\ schema' = schema \cup {SchemaPieces[writer.at]} /\ GoesOn(schema')
    /\ UNCHANGED <<batches, receipts, resyncs, success, stateRow, inserted, tick, upsets, unseen, said>>

LookForColumn ==
    /\ writer.at \in DOMAIN SchemaPieces /\ SchemaPieces[writer.at] \notin Tables /\ ~writer.looked
    /\ IF SchemaPieces[writer.at] \in schema THEN GoesOn(schema)
       ELSE writer' = [writer EXCEPT !.looked = TRUE]
    /\ UNCHANGED <<tables, inserted, tick, upsets, unseen, said>>

AddColumn ==
    /\ writer.looked
    /\ IF SchemaPieces[writer.at] \in schema
       THEN writer' = NoWriter /\ UNCHANGED schema
       ELSE schema' = schema \cup {SchemaPieces[writer.at]} /\ GoesOn(schema')
    /\ UNCHANGED <<batches, receipts, resyncs, success, stateRow, inserted, tick, upsets, unseen, said>>

-----------------------------------------------------------------------------
(* The capture cycle: its captures, and its part of daemon_state. *)

NewBatch == [status |-> "pending", created |-> tick, failedAt |-> 0]
InsertBatch ==
    /\ IsOpen /\ ~Busy /\ inserted < MaxRecords
    /\ inserted' = inserted + 1
    /\ batches' = With(batches, inserted', NewBatch)
    /\ UNCHANGED <<schema, receipts, resyncs, success, stateRow, tick, upsets, writer, unseen, said>>

CaptureReadsState ==
    /\ IsOpen /\ ~Busy /\ said.sources # inserted
    /\ writer' = [writer EXCEPT !.copy = With(@, "capture", stateRow)]
    /\ UNCHANGED <<tables, inserted, tick, upsets, unseen, said>>

\* persistSourceCaptures puts everything else back as it was read.
CaptureWritesState ==
    /\ "capture" \in DOMAIN writer.copy
    /\ stateRow' = [writer.copy["capture"] EXCEPT !.sources = inserted]
    /\ said' = [said EXCEPT !.sources = inserted]
    /\ writer' = [writer EXCEPT !.copy = Minus(@, {"capture"})]
    /\ UNCHANGED <<schema, batches, receipts, resyncs, success, inserted, tick, upsets, unseen>>

-----------------------------------------------------------------------------
(* The drain cycle: uploads, then prune, then its part of daemon_state, then *)
(* the time of the last success.                                             *)

DrainBegins ==
    /\ IsOpen /\ ~Busy /\ writer.drain = "idle" /\ tick < MaxTicks
    /\ tick' = tick + 1
    /\ writer' = [writer EXCEPT !.drain = "uploading", !.shipped = FALSE, !.fatal = FALSE, !.error = 0]
    /\ UNCHANGED <<tables, inserted, upsets, unseen, said>>

Uploading(r) == writer.drain = "uploading" /\ ~Busy /\ r \in InStatus("pending")

InsertReceipt(r) == With(receipts, r, tick)
\* One transaction writes the receipt and deletes the capture.
MarkDelivered ==
    \E r \in RecordIds :
        /\ Uploading(r)
        /\ receipts' = InsertReceipt(r) /\ batches' = Minus(batches, {r})
        /\ writer' = [writer EXCEPT !.shipped = TRUE]
        /\ UNCHANGED <<schema, resyncs, success, stateRow, inserted, tick, upsets, unseen, said>>

MarkFailed ==
    \E r \in RecordIds :
        /\ Uploading(r)
        /\ batches' = [batches EXCEPT ![r].status = "failed", ![r].failedAt = tick]
        /\ writer' = [writer EXCEPT !.fatal = TRUE, !.error = tick]
        /\ unseen' = unseen \cup {r}
        /\ UNCHANGED <<schema, receipts, resyncs, success, stateRow, inserted, tick, upsets, said>>

RetriableFailure ==
    \E r \in RecordIds :
        /\ Uploading(r) /\ writer' = [writer EXCEPT !.error = tick]
        /\ UNCHANGED <<tables, inserted, tick, upsets, unseen, said>>

\* A regression is audited and its capture then deleted, each on its own.
RecordResync ==
    \E r \in RecordIds :
        /\ Uploading(r)
        /\ resyncs' = With(resyncs, r, tick) /\ writer' = [writer EXCEPT !.deleting = r]
        /\ UNCHANGED <<schema, batches, receipts, success, stateRow, inserted, tick, upsets, unseen, said>>

DeleteBatch ==
    /\ writer.deleting # 0
    /\ batches' = Minus(batches, {writer.deleting})
    /\ writer' = [writer EXCEPT !.deleting = 0, !.shipped = TRUE]
    /\ UNCHANGED <<schema, receipts, resyncs, success, stateRow, inserted, tick, upsets, unseen, said>>

\* What is given up goes by when it was captured, not by when it failed.
GivenUp == {r \in InStatus("failed") : batches[r].created < tick - FailedRetention}

PruneBuffer ==
    /\ writer.drain = "uploading" /\ ~Busy
    /\ receipts' = Minus(receipts, Expired(receipts, ReceiptRetention))
    /\ resyncs' = Minus(resyncs, Expired(resyncs, ReceiptRetention))
    /\ batches' = Minus(batches, GivenUp) /\ unseen' = unseen \ GivenUp
    /\ writer' = [writer EXCEPT !.drain = "pruned"]
    /\ UNCHANGED <<schema, success, stateRow, inserted, tick, upsets, said>>

DrainReadsState ==
    /\ writer.drain = "pruned" /\ ~Busy
    /\ writer' = [writer EXCEPT !.copy = With(@, "drain", stateRow)]
    /\ UNCHANGED <<tables, inserted, tick, upsets, unseen, said>>

DrainWritesState ==
    /\ "drain" \in DOMAIN writer.copy
    /\ stateRow' = [writer.copy["drain"] EXCEPT !.error = writer.error]
    /\ said' = [said EXCEPT !.error = writer.error]
    /\ writer' = [writer EXCEPT !.drain = "stated", !.copy = Minus(@, {"drain"})]
    /\ UNCHANGED <<schema, batches, receipts, resyncs, success, inserted, tick, upsets, unseen>>

\* persistDrainMetrics that took no notice of the captures that failed.
RecordsAnySuccess == writer.shipped
RecordsSuccess == writer.shipped /\ ~writer.fatal
PersistDrainMetrics ==
    /\ writer.drain = "stated" /\ ~Busy
    /\ success' = IF RecordsSuccess THEN tick ELSE success
    /\ unseen' = IF writer.shipped /\ ~writer.fatal THEN {} ELSE unseen
    /\ writer' = [writer EXCEPT !.drain = "idle", !.shipped = FALSE, !.fatal = FALSE, !.error = 0]
    /\ UNCHANGED <<schema, batches, receipts, resyncs, stateRow, inserted, tick, upsets, said>>

-----------------------------------------------------------------------------
(* The daemon dies; setup opens, and so migrates, the database it finds and  *)
(* clears the failures.                                                      *)

WriterDies ==
    /\ writer.at # 0 /\ upsets < MaxUpsets
    /\ upsets' = upsets + 1 /\ writer' = NoWriter
    /\ UNCHANGED <<tables, inserted, tick, unseen, said>>

ClearFailedState ==
    /\ (schema # {} \/ writer.at # 0) /\ upsets < MaxUpsets
    /\ upsets' = upsets + 1
    /\ schema' = Latest
    /\ batches' = Minus(batches, InStatus("failed")) /\ resyncs' = <<>>
    /\ stateRow' = [stateRow EXCEPT !.error = 0]
    /\ unseen' = {}
    /\ UNCHANGED <<receipts, success, inserted, tick, writer, said>>

Writes ==
    \/ Starts \/ CreateTable \/ LookForColumn \/ AddColumn
    \/ InsertBatch \/ CaptureReadsState \/ CaptureWritesState
    \/ DrainBegins \/ MarkDelivered \/ MarkFailed \/ RetriableFailure \/ RecordResync \/ DeleteBatch
    \/ PruneBuffer \/ DrainReadsState \/ DrainWritesState \/ PersistDrainMetrics
    \/ WriterDies \/ ClearFailedState

-----------------------------------------------------------------------------
(* The commands.  A plan is the queries of a command in its order, each with *)
(* what it is for: the answers of queries for the same thing belong together.*)

StatusPlan ==
    << <<"count_batches", "totals">>, <<"count_receipts", "totals">>,
       <<"source_batches", "sources">>, <<"source_receipts", "sources">>,
       <<"uploaded", "bytes">>, <<"captured", "bytes">> >>
DoctorPlan ==
    << <<"last_success", "failures">>, <<"count_failed", "failures">>,
       <<"last_success", "errors">>, <<"errors", "errors">>, <<"others", "others">> >>
LookupPlan == << <<"find_receipt", "lookup">>, <<"find_batch", "lookup">> >>
Plan(cmd) == CASE cmd = "status" -> StatusPlan [] cmd = "doctor" -> DoctorPlan [] OTHER -> LookupPlan

\* The tables and columns that a query, and those up to the next one of its plan, name.
Needs(q) == CASE q \in {"count_batches", "find_batch"} -> {"batches"}
              [] q = "count_receipts" -> {"receipts", "batches", "quarantine"}
              [] q = "source_batches" -> {"batches"}
              [] q = "source_receipts" -> {"receipts", "metadata", "state", "cursors"}
              [] q \in {"uploaded", "find_receipt"} -> {"receipts", "display"}
              [] q = "captured" -> {"batches", "receipts", "display", "resync", "metadata"}
              [] q = "last_success" -> {"metadata"}
              [] q = "count_failed" -> {"batches", "failed_at", "quarantine", "receipts"}
              [] q = "errors" -> {"batches", "failed_at"}
              [] q = "others" -> {"state", "metadata", "resync", "cursors"}

Added(v, S) == [v EXCEPT !.shown = @ \cup S]

CountBatches(v) == Added(v, InStatus("pending") \cup InStatus("failed"))
CountReceipts(v) == Added(v, DOMAIN receipts)
SourceBatches(v) == Added(v, InStatus("pending") \cup InStatus("failed"))
SourceReceipts(v) == Added(v, DOMAIN receipts)
UploadedBytes(v) == Added(v, DOMAIN receipts)
CapturedBytes(v) == Added(v, DOMAIN batches)

\* doctor counts the failures that came after the last success it has read.
FailedAfter(since) == {r \in InStatus("failed") : since = 0 \/ batches[r].failedAt > since}
LastSuccess(v) == [v EXCEPT !.since = success]
CountFailed(v) == Added(v, FailedAfter(v.since))
FailedErrors(v) == Added(v, FailedAfter(v.since))

\* logs --id looks among the batches when there is no receipt.
FindReceipt(v) == Added(v, DOMAIN receipts \cap {v.asked})
FindBatch(v) == IF v.shown # {} THEN v ELSE Added(v, DOMAIN batches \cap {v.asked})

\* What doctor reads of the daemon's state, the audits and the cursors counts no capture.
Others(v) == v

Answer(q, v) == CASE q = "count_batches" -> CountBatches(v)
                  [] q = "count_receipts" -> CountReceipts(v)
                  [] q = "source_batches" -> SourceBatches(v)
                  [] q = "source_receipts" -> SourceReceipts(v)
                  [] q = "uploaded" -> UploadedBytes(v)
                  [] q = "captured" -> CapturedBytes(v)
                  [] q = "last_success" -> LastSuccess(v)
                  [] q = "count_failed" -> CountFailed(v)
                  [] q = "errors" -> FailedErrors(v)
                  [] q = "find_receipt" -> FindReceipt(v)
                  [] q = "find_batch" -> FindBatch(v)
                  [] q = "others" -> Others(v)

\* doctor goes on with what the next queries are for when one fails, the others end.
Begins(plan, i) == i = 1 \/ plan[i][2] # plan[i - 1][2]
Resumes(v) == {j \in v.next + 1 .. Len(Plan(v.cmd)) : v.cmd = "doctor" /\ Begins(Plan(v.cmd), j)}
Skip(v) == CHOOSE j \in Resumes(v) \cup {Len(Plan(v.cmd)) + 1} : \A k \in Resumes(v) : j <= k

Finished == reader.cmd # "none" /\ reader.next > Len(Plan(reader.cmd))

\* The history begins anew with the first of the queries that belong together.
Begun(v) == IF ~Begins(Plan(v.cmd), v.next) THEN v
            ELSE [v EXCEPT !.shown = {}, !.through = Stored, !.delivered = {},
                           !.steady = RecordIds, !.calm = TRUE, !.whole = TRUE]

\* The query that comes next, of a command that is at `v`.
QueryNext(v) ==
    LET q == Plan(v.cmd)[v.next][1] IN
    reader' = IF Needs(q) \subseteq schema THEN [Answer(q, Begun(v)) EXCEPT !.next = @ + 1]
              ELSE [v EXCEPT !.next = Skip(v), !.whole = FALSE]

Opens ==
    /\ reader.cmd = "none" /\ schema # {}
    /\ \/ QueryNext([NoReader EXCEPT !.cmd = "status"])
       \/ QueryNext([NoReader EXCEPT !.cmd = "doctor"])
       \/ \E r \in RecordIds : QueryNext([NoReader EXCEPT !.cmd = "lookup", !.asked = r])
    /\ UNCHANGED <<tables, inserted, tick, upsets, writer, unseen, said>>

Queries ==
    /\ reader.cmd # "none" /\ ~Finished /\ QueryNext(reader)
    /\ UNCHANGED <<tables, inserted, tick, upsets, writer, unseen, said>>

Closes ==
    /\ Finished /\ reader' = NoReader
    /\ UNCHANGED <<tables, inserted, tick, upsets, writer, unseen, said>>

\* What is written between a command's last answer and its end is of no account to it.
ViewsNext == (Writes /\ ~Finished /\ Observe) \/ Opens \/ Queries \/ Closes

ViewsSpec == ViewsInit /\ [][ViewsNext]_viewVars

-----------------------------------------------------------------------------
(* What the commands may say. *)

\* Every variable keeps to the values named where it is declared.
ViewsTypeOK ==
    /\ schema \subseteq Latest /\ inserted \in 0 .. MaxRecords /\ tick \in 1 .. MaxTicks /\ upsets \in 0 .. MaxUpsets
    /\ DOMAIN batches \subseteq 1 .. inserted /\ DOMAIN receipts \subseteq 1 .. inserted
    /\ \A r \in DOMAIN batches : batches[r] \in [status : {"pending", "failed"}, created : 0 .. tick, failedAt : 0 .. tick]
    /\ Range(receipts) \cup Range(resyncs) \cup {success} \subseteq 0 .. tick
    /\ {stateRow, said} \cup Range(writer.copy) \subseteq [error : 0 .. tick, sources : 0 .. MaxRecords]
    /\ writer.at \in 0 .. Len(SchemaPieces) + 1 /\ writer.drain \in {"idle", "uploading", "pruned", "stated"}
    /\ DOMAIN writer.copy \subseteq {"capture", "drain"} /\ unseen \subseteq InStatus("failed")
    /\ reader.shown \cup reader.through \subseteq 1 .. inserted /\ reader.asked \in 0 .. MaxRecords

\* All queries for `what` have answered, and no other since.
Gave(what) ==
    LET plan == Plan(reader.cmd) IN
    /\ reader.whole /\ reader.next > 1 /\ plan[reader.next - 1][2] = what
    /\ Finished \/ Begins(plan, reader.next)

\* status leaves no stored capture out of its totals, nor out of those of the sources,
\* although captures fail and are delivered while it reads; of the bytes captured it
\* may miss what was delivered meanwhile, and nothing else.
StatusTrue ==
    /\ Gave("totals") \/ Gave("sources") => reader.through \subseteq reader.shown
    /\ Gave("bytes") => reader.through \subseteq reader.shown \cup reader.delivered

\* doctor's failures are those that no successful drain has followed, of the records
\* that stay where they are while it reads, unless a drain records a success meanwhile.
DoctorTrue ==
    (Gave("failures") \/ Gave("errors")) /\ reader.calm
    => reader.shown \cap reader.steady = unseen \cap reader.steady

\* logs --id finds a stored capture, unless it is delivered between its two queries.
LookupTrue ==
    Gave("lookup") /\ reader.asked \in reader.through \ reader.delivered => reader.shown # {}

\* What a command puts together of several queries was so while it read.
FramesTrue == reader.cmd # "none" => StatusTrue /\ DoctorTrue /\ LookupTrue

\* The one row of daemon_state that both loops write holds what the last capture cycle
\* said of its sources and what the last drain said of its uploads, unless setup has
\* cleared that: neither loop puts an older value of the other's part back.
StateRowCurrent == stateRow.sources = said.sources /\ stateRow.error \in {0, said.error}

=============================================================================
