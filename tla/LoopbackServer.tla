--------------------------- MODULE LoopbackServer ---------------------------
(***************************************************************************)
(* The handlers of the loopback server and what one run of it remembers:   *)
(* the releases it verified and the plans whose preflight it saw succeed.  *)
(* Requests are answered concurrently; the process may stop at any step    *)
(* and be started again, with the files as they are.                       *)
(***************************************************************************)
EXTENDS BundleStager

VARIABLES
    verified,   \* by target: the artifact verified for the version
    ready       \* the plans with a successful live preflight

session == <<verified, ready>>

vars == <<req, lifecycle, cache, stages, session>>

TypeOK ==
    /\ RequestTypeOK /\ CacheTypeOK /\ StageTypeOK
    /\ verified \in [Targets -> Artifacts \cup {None}]
    /\ ready \subseteq Plans

Init ==
    /\ RequestInit /\ CacheInit /\ StageInit
    /\ verified = [t \in Targets |-> None]
    /\ ready = {}

-----------------------------------------------------------------------------
(* Requests that are accepted; one that is not changes nothing.            *)

VerifiedPlan(p) == verified[p.target] = p.artifact

\* plan.Preflight hashes the cached archive.
ArtifactReady(p) == VerifiedPlan(p) /\ archive[p.artifact] = "good"

\* No recovery is asked for beside an operation of the same process, nor the
\* other way round: what that does is in Coordinator.
Answering(t, kinds) == \E r \in Requests : req[r] # None /\ Target(r) = t /\ req[r].kind \in kinds

Operate(r, k, p) == ~Answering(p.target, {"recover"}) /\ Ask(r, k, p, "begin")

VerifyRelease(r, p) == Ask(r, "verify", p, "lookup")

StageBundle(r, p) == VerifiedPlan(p) /\ Ask(r, "stage", p, "stage")

PreflightTarget(r, p) == ArtifactReady(p) /\ Ask(r, "preflight", p, "stage")

InstallTargetPrerequisites(r, p) == ArtifactReady(p) /\ Ask(r, "prerequisites", p, "probe")

\* Only what neither an operation nor an installation is recorded for.
InspectRemnant(r, p) ==
    /\ p.target = "local-wsl-compose" /\ ArtifactReady(p)
    /\ op[p.target] = None /\ p.target \notin installed
    /\ Ask(r, "cleanup", p, "remnant")

\* Only a local installation can be changed.
RunOperation(r, p) ==
    /\ VerifiedPlan(p) /\ p \in ready
    /\ \/ Operate(r, "install", p)
       \/ p.target = "local-compose" /\ Operate(r, "change", p)

\* What is removed needs no release: its plan is the recorded one.
UninstallInstallation(r, p) == p.target \in installed /\ Operate(r, "uninstall", p)

RecoverActiveOperation(r, p) ==
    /\ op[p.target] # None /\ ~Answering(p.target, Changes \cup {"recover"})
    /\ Ask(r, "recover", p, "recover")

Request(r, p) ==
    \/ VerifyRelease(r, p) \/ StageBundle(r, p)
    \/ PreflightTarget(r, p) \/ InstallTargetPrerequisites(r, p) \/ InspectRemnant(r, p)
    \/ RunOperation(r, p) \/ UninstallInstallation(r, p) \/ RecoverActiveOperation(r, p)

NewRequest ==
    /\ \E r \in Requests, p \in Plans : Request(r, p)
    /\ UNCHANGED <<lifecycle, cache, stages, session>>

-----------------------------------------------------------------------------
(* The rest of their handlers.                                             *)

\* verifySupplyChain accepts the release or not.
RecordVerified(r) ==
    /\ At(r, "record")
    /\ verified' \in {verified, [verified EXCEPT ![Target(r)] = Artifact(r)]}
    /\ Answer(r)
    /\ UNCHANGED ready

\* The adapter's report, and the first half of annotateLifecycleTarget.
Probe(r) ==
    /\ At(r, "probe") /\ StoreFree
    /\ \/ op[Target(r)] = None /\ Goto(r, "annotate")
       \/ Answer(r)
    /\ UNCHANGED session

\* The second half: the report of what is already installed is not ready.
Annotate(r) ==
    /\ At(r, "annotate") /\ StoreFree
    /\ ready' = IF Target(r) \in installed THEN ready ELSE ready \cup {req[r].plan}
    /\ Answer(r)
    /\ UNCHANGED verified

\* The adapter finds no remnant, or refuses it, or removes it.
CleanupTargetRemnant(r) ==
    /\ At(r, "remnant")
    /\ ready' \in {ready, ready \ {req[r].plan}}
    /\ Answer(r)
    /\ UNCHANGED verified

HandlerStep(r) == RecordVerified(r) \/ Probe(r) \/ Annotate(r) \/ CleanupTargetRemnant(r)

RequestStep(r) ==
    \/ HandlerStep(r) /\ UNCHANGED <<lifecycle, cache, stages>>
    \/ /\ \/ OperationStep(r) /\ UNCHANGED <<cache, stages>>
          \/ CacheStep(r) /\ UNCHANGED stages
          \/ StagerStep(r)
       /\ UNCHANGED session

Restart ==
    /\ req' = [r \in Requests |-> None]
    /\ stager' = None
    /\ verified' = [t \in Targets |-> None]
    /\ ready' = {}
    /\ UNCHANGED <<lifecycle, cache, staged>>

\* Files are damaged while nothing is done with them.
Damage ==
    /\ \A r \in Requests : req[r] = None
    /\ \E a \in Artifacts :
          \/ archive[a] = "good" /\ archive' = [archive EXCEPT ![a] = "bad"] /\ UNCHANGED staged
          \/ /\ staged[a].files = "whole" /\ staged' = [staged EXCEPT ![a].files = "changed"]
             /\ UNCHANGED archive
    /\ image' \in {image, IF image = "good" THEN "bad" ELSE image}
    /\ UNCHANGED <<req, lifecycle, stager, session>>

Next ==
    \/ NewRequest
    \/ \E r \in Requests : RequestStep(r)
    \/ Restart \/ Damage

Spec == Init /\ [][Next]_vars

-----------------------------------------------------------------------------
(* Properties.                                                             *)

\* What Apply reads are files of an archive that was verified, although it is
\* handed a path, reads it long after, and other requests remove and stage what
\* is at that path (README, "Before an adapter can consume a release, Ranch Hand
\* rehashes the cached archive").
OnlyVerifiedIsUsed ==
    [][\A r \in Requests :
          /\ At(r, "identity") \/ At(r, "apply")
          /\ req'[r] # None /\ req'[r].at \in {"image", "verify"}
          => staged[Artifact(r)].files \in {"part", "whole"}]_vars

\* A plan stays ready whatever happens to its target, and an install may be
\* asked for twice; still none is applied over an active installation, and
\* nothing else is where there is none (server.go, "It will not start a
\* duplicate installation").
StaleReadinessIsHarmless ==
    \A t \in Targets :
        op[t] # None /\ op[t].phase = "applying" => (op[t].kind = "install" <=> t \notin installed)

\* What an operator does first to update, restore, roll back or repair a
\* recorded installation - verify the release, make a plan and have a successful
\* preflight of it - makes that plan ready, which the handlers of those
\* operations ask for (docs/operator-guide.md, "After a local installation is
\* recorded, Ranch Hand can" and "first verify and create a plan for the desired
\* target release").  The report of annotateLifecycleTarget says otherwise.
RecordedCanBeChanged ==
    [][\A r \in Requests :
          Annotate(r) /\ Target(r) = "local-compose" /\ Target(r) \in installed
          => req[r].plan \in ready']_vars
=============================================================================
