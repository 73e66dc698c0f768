----------------------------- MODULE MCDataPath -----------------------------
(***************************************************************************)
(* The collectors beside claude-code's, what inspect says of all of them,  *)
(* and the database as the other commands read it, in one run: a behaviour *)
(* is one of LineCollectors, RowCollector, ConsentSurface or BufferViews,  *)
(* as `subject` says, and the variables of the others stay as they are.    *)
(***************************************************************************)
EXTENDS LineCollectors, RowCollector, ConsentSurface, BufferViews

VARIABLE subject    \* the module this behaviour is of: "line", "row", "consent", "views"

MCInit ==
    /\ LineInit /\ RowInit /\ ConsentInit /\ ViewsInit
    /\ subject \in {"line", "row", "consent", "views"}
    /\ subject # "line" => app = "codex" /\ list = "none" /\ hint = "named" /\ fallback = 0
    /\ subject # "row" => store = "global" /\ ~excluded
    /\ subject # "consent" => agent = "cursor"
    /\ subject # "views" => schema = {}

MCNext ==
    /\ UNCHANGED subject
    /\ \/ subject = "line" /\ LineNext /\ UNCHANGED <<rowVars, consentVars, viewVars>>
       \/ subject = "row" /\ RowNext /\ UNCHANGED <<lineVars, consentVars, viewVars>>
       \/ subject = "consent" /\ ConsentNext /\ UNCHANGED <<lineVars, rowVars, viewVars>>
       \/ subject = "views" /\ ViewsNext /\ UNCHANGED <<lineVars, rowVars, consentVars>>

\* The fairness of LineSpec, for its own behaviours.
MCFairness ==
    /\ WF_lineVars(subject = "line" /\ Polls)
    /\ WF_lineVars(subject = "line" /\ Upload)

MCSpec == MCInit /\ [][MCNext]_<<lineVars, rowVars, consentVars, viewVars, subject>> /\ MCFairness

\* Every variable of the four modules keeps to the values named where it is declared.
DataTypeOK == LineTypeOK /\ RowTypeOK /\ ConsentTypeOK /\ ViewsTypeOK

=============================================================================
