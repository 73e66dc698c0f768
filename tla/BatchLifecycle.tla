--------------------------- MODULE BatchLifecycle ---------------------------
(***************************************************************************)
(* What the uploader promises of each capture: the batch-lifecycle state   *)
(* machine, one instance per capture, of which the drain cycle advances at *)
(* most one at a time.  UploadPipeline is shown to implement it.           *)
(***************************************************************************)
CONSTANT Ids    \* capture ids

VARIABLE stage  \* the state of each capture's machine, "none" before it exists

Stages == {"none", "pending", "uploading", "verifying_auth", "retriable_pending",
           "delivered", "recovered", "failed", "pruned"}

TypeOK == stage \in [Ids -> Stages]

Init == stage = [id \in Ids |-> "none"]

Move(id, from, to) == stage[id] = from /\ stage' = [stage EXCEPT ![id] = to]

\* Every capture of S that is in one of the states of from moves to the state to.
MoveAll(S, from, to) ==
  /\ \A id \in S : stage[id] \in from
  /\ stage' = [id \in Ids |-> IF id \in S THEN to ELSE stage[id]]

InFlight == {id \in Ids : stage[id] \in {"uploading", "verifying_auth"}}

\* A capture cycle commits its captures together.
Commit(S) == MoveAll(S, {"none"}, "pending")

PickUp(id) == InFlight = {} /\ Move(id, "pending", "uploading")

Accepted(id)       == Move(id, "uploading", "delivered")
Regressed(id)      == Move(id, "uploading", "recovered")
Rejected(id)       == Move(id, "uploading", "failed")
AuthError(id)      == Move(id, "uploading", "verifying_auth")
Unavailable(id)    == Move(id, "uploading", "retriable_pending")
KeyInvalid(id)     == Move(id, "verifying_auth", "failed")
KeyNotInvalid(id)  == Move(id, "verifying_auth", "retriable_pending")

\* The drain cycle ends: what it could not upload waits for the next one.
ReturnToQueue(S) == MoveAll(S, {"retriable_pending"}, "pending")

\* Rows past their retention time go, and failed ones when the user runs setup.
Prune(S) == MoveAll(S, {"delivered", "failed"}, "pruned")

\* The daemon dies.  Of the machines only the rows of the buffer are left, and an
\* unfinished upload is again a pending row.
Exit(S) == MoveAll(S, {"uploading", "verifying_auth", "retriable_pending"}, "pending")

Next == \/ \E S \in SUBSET Ids : Commit(S) \/ ReturnToQueue(S) \/ Exit(S) \/ Prune(S)
        \/ \E id \in Ids :
             \/ PickUp(id) \/ Accepted(id) \/ Regressed(id) \/ Rejected(id)
             \/ AuthError(id) \/ Unavailable(id) \/ KeyInvalid(id)
             \/ KeyNotInvalid(id)

Spec == Init /\ [][Next]_stage
=============================================================================
