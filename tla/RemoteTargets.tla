--------------------------- MODULE RemoteTargets ----------------------------
(***************************************************************************)
(* Deployments that are configured with the same names on one target,      *)
(* whatever it is, with strangers' resources of those names, failing and   *)
(* unanswered requests, and crashes of the process between any two.        *)
(***************************************************************************)
EXTENDS ComposeDirectory, AzureGroup, CloudflareWorker

vars == <<operation, host, cloud, account>>

TypeOK ==
    /\ OperationTypeOK(ComposeSteps \cup AzureSteps \cup CloudflareSteps)
    /\ HostTypeOK /\ CloudTypeOK /\ AccountTypeOK

Init == OperationInit /\ HostInit /\ CloudInit /\ AccountInit

AdapterStep(d) ==
    \/ ComposeStep(d) /\ UNCHANGED <<cloud, account>>
    \/ AzureStep(d) /\ UNCHANGED <<host, account>>
    \/ CloudflareStep(d) /\ UNCHANGED <<host, cloud>>
    \/ Commit(d) /\ UNCHANGED <<host, cloud, account>>

OperatorStep(d) ==
    /\ \/ Recover(d) /\ UNCHANGED host
       \/ CleanupTargetRemnant(d)
       \/ \E kind \in {"install", "uninstall"} : Begin(d, kind) /\ UNCHANGED host
    /\ UNCHANGED <<cloud, account>>

\* The process stops; the target goes on.
Crash ==
    /\ "crash" \in Faults
    /\ call' = [d \in Deployments |-> "none"]
    /\ UNCHANGED <<target, op, installed, host, cloud, account>>

ArmStep == (DeploymentSettles \/ GroupGone) /\ UNCHANGED <<host, account>>

Strangers ==
    \/ (HostStrangersLeave \/ \E d \in Deployments : OperatorEdits(d)) /\ UNCHANGED <<cloud, account>>
    \/ GroupStrangersLeave /\ UNCHANGED <<host, account>>
    \/ AccountStrangersLeave /\ UNCHANGED <<host, cloud>>

Next ==
    \/ \E d \in Deployments : AdapterStep(d) \/ OperatorStep(d)
    \/ Crash \/ ArmStep \/ Strangers

Spec == Init /\ [][Next]_vars

\* The requests of recovery: to look, to take away what runs, to take away what
\* is left.
RecoveryRequests ==
    {{"undo", "remove"}, {"find-worker", "no-worker"},
     {"down", "delete", "delete-worker"},
     {"erase", "wipe", "rmdir", "gone", "delete-database"}}

\* One is answered, with what is there.
RecoveryAnswered(d, steps) ==
    /\ op[d] # NoOp /\ op[d].phase = "recovering" /\ call[d] \in steps
    /\ AdapterStep(d)
    /\ ~(op'[d] # NoOp /\ call'[d] = "none")
    /\ files.marker # None => call'[d] \notin {"wipe", "rmdir"}

\* Calls go on, the operator asks for recovery again and again, and a request
\* of it does not fail, nor the process stop at it, each time; Azure ends what
\* it has accepted.
Fairness ==
    /\ \A d \in Deployments :
          /\ WF_vars(AdapterStep(d))
          /\ SF_vars(Recover(d) /\ UNCHANGED <<host, cloud, account>>)
          /\ \A steps \in RecoveryRequests : SF_vars(RecoveryAnswered(d, steps))
    /\ WF_vars(ArmStep)

FairSpec == Spec /\ Fairness

-----------------------------------------------------------------------------
(* Properties.                                                             *)

\* Whose resources are there under the configured names, and whose evidence.
Evidence == {container, volume, files.marker, group, database, marked, worker}

\* Whose anything is there.
Present == HostOwners \cup Evidence

TargetDeployed(d) ==
    CASE Compose               -> Deployed(d)
      [] target = "azure"      -> AzureDeployed(d)
      [] target = "cloudflare" -> WorkerDeployed(d)

\* A step of d's calls leaves what others have: all that is d's may go.
Untouched(d) ==
    LET kept(was, is) == was \in {None, d} \/ is = was IN
    /\ kept(container, container') /\ kept(volume, volume')
    /\ kept(files.marker, files'.marker) /\ kept(files.other, files'.other)
    /\ ~NoResources => \A f \in FileNames : kept(files[f], files'[f])
    /\ kept(group, group') /\ kept(group, IF deleting' = deleting THEN group ELSE None)
    /\ kept(database, database') /\ kept(marked, marked') /\ kept(worker, worker')

\* What carries the evidence of another owner - a label, a tag, a binding, a
\* marker, or a place in a directory whose project has resources - is not
\* touched by the calls of a deployment, whatever they fail at (README, "an
\* unowned or differently owned group is never deleted"; docs/uninstall.md).
\* Only a directory with neither container nor volume is not protected.
OthersUntouched ==
    [][\A d \in Deployments : call'[d] # call[d] => Untouched(d)]_vars

\* What the inventory says is there: an active deployment with everything it
\* was committed with (an edited file counts as there), and no resource and no
\* evidence of one that was removed or undone.
InventoryIsDeployed ==
    \A d \in Deployments : op[d] = NoOp =>
        IF ~installed[d] THEN d \notin Evidence
        ELSE CASE Compose -> /\ container = d /\ up /\ volume = d /\ files.marker = d
                             /\ \A f \in DeploymentFiles : files[f] \in {d, Foreign}
               [] OTHER   -> TargetDeployed(d)

\* A failed install has left none of the files it transferred when its lock is
\* gone, though it may have stopped before they had a marker (CHANGELOG.md,
\* "Extended failed-install cleanup to the partial pre-marker transfer state",
\* which is what remote_mutator_test.go checks; ADR-0005, which is older, has
\* such a recovery stop and the files kept).
TransferCleared ==
    \A d \in Deployments :
        Compose /\ op[d] = NoOp /\ ~installed[d] => \A f \in DeploymentFiles : files[f] # d

\* What recovery looks for first.
Accepted(d) ==
    CASE Compose               -> HostAccepts(d)
      [] target = "azure"      -> group \in {None, d}
      [] target = "cloudflare" -> IF database = None THEN worker = None ELSE marked = d /\ worker \in {None, d}

\* Recovery asks for evidence that the operation did not come to write, that it
\* removed itself, or that it took for missing.
EvidenceLost(d) ==
    CASE Compose               -> HostEvidenceLost(d)
      [] target = "azure"      -> FALSE
      [] target = "cloudflare" -> database = d /\ marked # d /\ worker = None

\* Recovery never refuses what an operation left behind, wherever it stopped,
\* unless others have something of those names or the evidence is lost.  Files
\* transferred before the marker are accepted without one, as for
\* TransferCleared.
OnlyLostEvidenceIsRefused ==
    \A d \in Deployments :
        op[d] # NoOp /\ call[d] = "none" /\ Present \subseteq {None, d} =>
            Accepted(d) \/ EvidenceLost(d)

\* An operation ends, unless others have something of those names or the
\* evidence is lost.
OperationsEnd ==
    \A d \in Deployments :
        op[d] # NoOp ~> (op[d] = NoOp \/ ~(Present \subseteq {None, d}) \/ EvidenceLost(d))
=============================================================================
