------------------------ MODULE MCPipelineDiagnosis ------------------------
(***************************************************************************)
(* The upload pipeline, and the commands that look at the daemon, in one   *)
(* run: a behaviour is one of UploadPipeline or of Diagnosis, as `subject` *)
(* says, and the other module's variables stay as they are.                *)
(***************************************************************************)
EXTENDS MCUploadPipeline, Diagnosis

\* The module this behaviour is of: "pipeline" or "diagnosis".
VARIABLE subject

MCInit ==
    /\ subject \in {"pipeline", "diagnosis"}
    /\ Init /\ DiagInit
    /\ subject # "diagnosis" => tool = "status" /\ facts = Healthy

MCNext ==
    /\ UNCHANGED subject
    /\ \/ subject = "pipeline" /\ Next /\ UNCHANGED diagVars
       \/ subject = "diagnosis" /\ DiagNext /\ UNCHANGED vars

\* DiagFairness, for its own behaviours: HelpArrives is the run's only liveness.
MCFairness ==
    /\ WF_diagVars(subject = "diagnosis" /\ tool = "doctor" /\ Minute)
    /\ WF_diagVars(subject = "diagnosis" /\ tool = "doctor" /\ StopHalts)
    /\ WF_diagVars(subject = "diagnosis" /\ tool = "doctor" /\ Doctor)

MCSpec == MCInit /\ [][MCNext]_<<vars, diagVars, subject>> /\ MCFairness

\* Every variable of the two modules keeps to the values named where it is declared.
TypesOK == TypeOK /\ DiagTypeOK

=============================================================================
