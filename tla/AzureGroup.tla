----------------------------- MODULE AzureGroup -----------------------------
(***************************************************************************)
(* The Azure Container Apps adapter: a dedicated, tagged resource group    *)
(* and the ARM deployment in it.  Deployments and deletions are accepted   *)
(* at once and go on by themselves while the adapter polls.                *)
(***************************************************************************)
EXTENDS TargetOperation

VARIABLES
    group,      \* whose tags the resource group has, None when it is not there
    arm,        \* the ARM deployment in it
    deleting    \* the group is being deleted

cloud == <<group, arm, deleting>>

AzureSteps == {"group", "deploy", "poll", "delete", "gone"}

CloudTypeOK ==
    /\ group \in Owners \cup {None}
    /\ arm \in {"none", "running", "succeeded", "failed"}
    /\ deleting \in BOOLEAN

CloudInit ==
    /\ group \in IF target = "azure" THEN {None, Foreign} ELSE {None}
    /\ arm = "none"
    /\ deleting = FALSE

\* The group answers with a 404, or the call fails.
GroupCheck(d) ==
    /\ target = "azure" /\ call[d] = "check"
    /\ \/ group = None /\ Go(d, "group")
       \/ (group # None \/ "fails" \in Faults) /\ Fail(d)
    /\ UNCHANGED cloud

\* A PUT creates the group with its tags, or gives a group that is there them.
CreateGroup(d) ==
    /\ call[d] = "group"
    /\ Request(~deleting, group' = d /\ UNCHANGED <<arm, deleting>>,
               UNCHANGED cloud, Go(d, "deploy"), Fail(d))

StartDeployment(d) ==
    /\ call[d] = "deploy"
    /\ Request(group # None /\ ~deleting,
               arm' = "running" /\ UNCHANGED <<group, deleting>>,
               UNCHANGED cloud, Go(d, "poll"), Fail(d))

\* waitForDeployment gives up after 30 minutes.
Poll(d) ==
    /\ call[d] = "poll"
    /\ \/ arm = "succeeded" /\ Succeed(d)
       \/ (arm = "failed" \/ "fails" \in Faults) /\ Fail(d)
    /\ UNCHANGED cloud

\* Verify looks at the application in the group, and not at its tags.
Serving == group # None /\ arm = "succeeded" /\ ~deleting

AzureDeployed(d) == group = d /\ Serving

AzureVerify(d) ==
    /\ target = "azure" /\ call[d] = "verify"
    /\ \/ Serving /\ Go(d, "commit")
       \/ (~Serving \/ "fails" \in Faults) /\ Fail(d)
    /\ UNCHANGED cloud

\* Recover of an install; Apply and Recover of an uninstall.
InspectGroup(d) ==
    /\ target = "azure" /\ call[d] \in {"undo", "remove"}
    /\ \/ group = None /\ Succeed(d)
       \/ group = d /\ Go(d, "delete")
       \/ (group \in Owners \ {d} \/ "fails" \in Faults) /\ Fail(d)
    /\ UNCHANGED cloud

\* Mutant: the deletion counts as done once it is accepted.
MutDeleteGroup(d) ==
    /\ call[d] = "delete"
    /\ Request(group # None, deleting' = TRUE /\ UNCHANGED <<group, arm>>,
               UNCHANGED cloud, Succeed(d), Fail(d))

DeleteGroup(d) ==
    /\ call[d] = "delete"
    /\ Request(group # None, deleting' = TRUE /\ UNCHANGED <<group, arm>>,
               UNCHANGED cloud, Go(d, "gone"), Fail(d))

AwaitGone(d) ==
    /\ call[d] = "gone"
    /\ \/ group = None /\ Succeed(d)
       \/ "fails" \in Faults /\ Fail(d)
    /\ UNCHANGED cloud

AzureStep(d) ==
    \/ GroupCheck(d) \/ CreateGroup(d) \/ StartDeployment(d) \/ Poll(d) \/ AzureVerify(d)
    \/ InspectGroup(d) \/ DeleteGroup(d) \/ AwaitGone(d)

-----------------------------------------------------------------------------
(* Azure Resource Manager.                                                 *)

DeploymentSettles ==
    /\ arm = "running"
    /\ arm' \in {"succeeded", "failed"}
    /\ UNCHANGED <<group, deleting, operation>>

GroupGone ==
    /\ deleting
    /\ group' = None /\ arm' = "none" /\ deleting' = FALSE
    /\ UNCHANGED operation

GroupStrangersLeave ==
    /\ group = Foreign /\ arm = "none"
    /\ group' = None
    /\ UNCHANGED <<arm, deleting, operation>>
=============================================================================
