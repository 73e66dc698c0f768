------------------------- MODULE MCServiceLifecycle -------------------------
(***************************************************************************)
(* The four modules about the daemon as a service, in one run: a           *)
(* behaviour is one of RescueWatchdog, CoordinatedUpgrade, ProfileLayout   *)
(* or ConfigFile, as `subject` says, and the variables of the other        *)
(* modules stay as they are.                                               *)
(***************************************************************************)
EXTENDS RescueWatchdog, CoordinatedUpgrade, ProfileLayout, ConfigFile

VARIABLE subject    \* the module this behaviour is of: "rescue", "upgrade", "layout" or "config"

MCInit ==
    /\ RescueInit /\ UpgradeInit /\ LayoutInit /\ ConfigInit
    /\ subject \in {"rescue", "upgrade", "layout", "config"}
    /\ subject # "rescue" => platform = "systemd"
    /\ subject # "upgrade" => os = "systemd" /\ source = "brew" /\ ~devConfig
    /\ subject # "layout" => ~installed
    /\ subject # "config" => toml = NoConfig

MCNext ==
    /\ UNCHANGED subject
    /\ \/ subject = "rescue" /\ RescueNext /\ UNCHANGED <<upgradeVars, layoutVars, configVars>>
       \/ subject = "upgrade" /\ UpgradeNext /\ UNCHANGED <<rescueVars, layoutVars, configVars>>
       \/ subject = "layout" /\ LayoutNext /\ UNCHANGED <<rescueVars, upgradeVars, configVars>>
       \/ subject = "config" /\ ConfigNext /\ UNCHANGED <<rescueVars, upgradeVars, layoutVars>>

\* RescueFairness, UpgradeFairness and LayoutFairness, each for its own behaviours.
MCFairness ==
    /\ WF_rescueVars(subject = "rescue" /\ RescueStep)
    /\ WF_rescueVars(subject = "rescue" /\ BootStep)
    /\ WF_rescueVars(subject = "rescue" /\ CommandEnds)
    /\ WF_rescueVars(subject = "rescue" /\ Tick)
    /\ WF_upgradeVars(subject = "upgrade" /\ UpgradeStep)
    /\ WF_upgradeVars(subject = "upgrade" /\ ProdStarts)
    /\ WF_upgradeVars(subject = "upgrade" /\ DevEnds)
    /\ WF_layoutVars(subject = "layout" /\ Starts("prod"))
    /\ WF_layoutVars(subject = "layout" /\ StartStep("prod"))
    /\ WF_layoutVars(subject = "layout" /\ StartStep("dev"))
    /\ WF_layoutVars(subject = "layout" /\ LockAges)

MCSpec == MCInit /\ [][MCNext]_<<rescueVars, upgradeVars, layoutVars, configVars, subject>> /\ MCFairness

\* Every variable of the four modules keeps to the values named where it is declared.
ServiceTypeOK == RescueTypeOK /\ UpgradeTypeOK /\ LayoutTypeOK /\ ConfigTypeOK

=============================================================================
