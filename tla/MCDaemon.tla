------------------------------ MODULE MCDaemon ------------------------------
(***************************************************************************)
(* Four modules about the running daemon, in one run: a behaviour is one   *)
(* of DaemonLoops, CaptureDispatch, SentinelWatcher or MachineShadows, as  *)
(* `subject` says, and the other modules' variables stay as they are.      *)
(***************************************************************************)
EXTENDS DaemonLoops, CaptureDispatch, SentinelWatcher, MachineShadows

VARIABLE subject    \* "loops", "dispatch", "watcher" or "shadow"

MCInit ==
    /\ Init /\ DispatchInit /\ WatcherInit /\ ShadowInit
    /\ subject \in {"loops", "dispatch", "watcher", "shadow"}
    /\ subject # "dispatch" => ~compiled /\ broken = {}
    \* Bound: of the broken sources those that reject the cycle, each in one binary.
    /\ broken # {} => compiled = (broken \subseteq WorkerSources)
    \* Bound: with no broken source, the compiled one: it has every step of the other.
    /\ subject = "dispatch" /\ broken = {} => compiled
    /\ subject # "watcher" => \A k \in Sentinels : file[k] = "absent"
    /\ subject # "shadow" => kind = "daemon"

MCNext ==
    /\ UNCHANGED subject
    /\ \/ /\ subject = "loops" /\ Next
          /\ UNCHANGED <<dispatchVars, watcherVars, shadowVars>>
       \/ /\ subject = "dispatch" /\ DispatchNext
          /\ UNCHANGED <<vars, watcherVars, shadowVars>>
       \/ /\ subject = "watcher" /\ WatcherNext
          /\ UNCHANGED <<vars, dispatchVars, shadowVars>>
       \/ /\ subject = "shadow" /\ ShadowNext
          /\ UNCHANGED <<vars, dispatchVars, watcherVars>>

\* The fairness of FairSpec and of DispatchFairness, each for its own behaviours.
MCFairness ==
    /\ \A l \in Loops : WF_vars(subject = "loops" /\ LoopStep(l))
    /\ \A l \in Supervised : WF_vars(subject = "loops" /\ Restart(l))
    /\ WF_vars(subject = "loops" /\ Recovery) /\ WF_vars(subject = "loops" /\ Exit)
    /\ WF_dispatchVars(subject = "dispatch" /\ BeginCycle)
    /\ WF_dispatchVars(subject = "dispatch" /\ CycleGoesOn)
    /\ \A s \in Sources : WF_dispatchVars(subject = "dispatch" /\ PollStep(s))
    /\ WF_dispatchVars(subject = "dispatch" /\ DrainGoesOn)

MCSpec == MCInit /\ [][MCNext]_<<vars, dispatchVars, watcherVars, shadowVars, subject>>
          /\ MCFairness

\* Every variable of the modules keeps to the values named where it is declared.
DaemonTypeOK == TypeOK /\ DispatchTypeOK /\ WatcherTypeOK /\ ShadowTypeOK

=============================================================================
