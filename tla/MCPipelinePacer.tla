-------------------------- MODULE MCPipelinePacer --------------------------
(***************************************************************************)
(* The upload pipeline, and the pacer in front of its uploads, in one run: *)
(* a behaviour is one of UploadPipeline or of Pacer, as `subject` says,    *)
(* and the other module's variables stay as they are.                      *)
(***************************************************************************)
EXTENDS MCUploadPipeline, Pacer

\* The module this behaviour is of: "pipeline" or "pacer".
VARIABLE subject

MCInit == subject \in {"pipeline", "pacer"} /\ Init /\ PacerInit

MCNext ==
    /\ UNCHANGED subject
    /\ \/ subject = "pipeline" /\ Next /\ UNCHANGED pacerVars
       \/ subject = "pacer" /\ PacerNext /\ UNCHANGED vars

\* The fairness of FairSpec and of PacerSpec, each for its own behaviours.
MCFairness ==
    /\ WF_vars(subject = "pipeline" /\ Boot)
    /\ WF_vars(subject = "pipeline" /\ Capture)
    /\ WF_vars(subject = "pipeline" /\ Drain)
    /\ WF_pacerVars(subject = "pacer" /\ AcquireStep)
    /\ WF_pacerVars(subject = "pacer" /\ PacerTick)

MCSpec == MCInit /\ [][MCNext]_<<vars, pacerVars, subject>> /\ MCFairness

\* Every variable of the two modules keeps to the values named where it is declared.
TypesOK == TypeOK /\ PacerTypeOK

=============================================================================
