-------------------------- MODULE TargetOperation ---------------------------
(***************************************************************************)
(* An install or an uninstall of a target that is not local Docker: a      *)
(* remote Linux or WSL Compose directory, an Azure resource group or a     *)
(* Cloudflare Worker.  Several deployments may be configured with the same *)
(* names, each under a lock of its own: a deployment is identified by its  *)
(* whole configuration.  Of the coordinator the phases are left in which   *)
(* it calls the adapter; Coordinator shows that it keeps to them.          *)
(***************************************************************************)
CONSTANTS
    Deployments,
    Foreign,    \* the owner of what is not Ranch Hand's
    None,
    NoOp,
    Faults,     \* "fails", "lost", "misread", "crash"
    Overlap     \* may two adapter calls be under way at once?

ASSUME OwnersAssumption == Foreign \notin Deployments /\ None \notin Deployments \cup {Foreign}
ASSUME TargetFaultsAssumption == Faults \subseteq {"fails", "lost", "misread", "crash"}
ASSUME OverlapAssumption == Overlap \in BOOLEAN

VARIABLES
    target,     \* what the names are names of
    op,         \* by deployment: the operation that holds its lock
    call,       \* the next request of the adapter call, "none" between calls
    installed   \* whether there is an active installation.json

operation == <<target, op, call, installed>>

Owners == Deployments \cup {Foreign}

Targets == {"remote", "wsl", "azure", "cloudflare"}

Compose == target \in {"remote", "wsl"}

Operations == [kind : {"install", "uninstall"},
               phase : {"staged", "applied", "recovering"}]

ASSUME NoOpAssumption == NoOp \notin Operations

OperationTypeOK(steps) ==
    /\ target \in Targets
    /\ op \in [Deployments -> Operations \cup {NoOp}]
    /\ call \in [Deployments -> steps \cup {"none", "check", "verify", "commit", "undo", "remove"}]
    /\ installed \in [Deployments -> BOOLEAN]

OperationInit ==
    /\ target \in Targets
    /\ op = [d \in Deployments |-> NoOp]
    /\ call = [d \in Deployments |-> "none"]
    /\ installed = [d \in Deployments |-> FALSE]

-----------------------------------------------------------------------------
Go(d, step) ==
    /\ call' = [call EXCEPT ![d] = step]
    /\ UNCHANGED <<target, op, installed>>

Close(d) ==
    /\ op' = [op EXCEPT ![d] = NoOp]
    /\ call' = [call EXCEPT ![d] = "none"]

RecoverStep(kind) == IF kind = "install" THEN "undo" ELSE "remove"

Recovering(d) ==
    /\ op' = [op EXCEPT ![d].phase = "recovering"]
    /\ call' = [call EXCEPT ![d] = RecoverStep(op[d].kind)]
    /\ UNCHANGED <<target, installed>>

\* The adapter call returns an error: a failed Apply or Verify is recovered, a
\* failed Recover waits for the operator, and a clean-up is just reported.
Fail(d) == IF op[d] = NoOp \/ op[d].phase = "recovering" THEN Go(d, "none") ELSE Recovering(d)

\* The adapter call returns without an error.
Succeed(d) ==
    IF op[d] = NoOp THEN Go(d, "none")
    ELSE IF op[d].phase = "recovering"
      THEN /\ Close(d)
           /\ installed' = [installed EXCEPT ![d] = FALSE]
           /\ UNCHANGED target
      ELSE /\ op' = [op EXCEPT ![d].phase = "applied"]
           /\ call' = [call EXCEPT ![d] = IF op[d].kind = "install" THEN "verify" ELSE "commit"]
           /\ UNCHANGED <<target, installed>>

MayCall(d) == call[d] = "none" /\ (Overlap \/ \A e \in Deployments : call[e] = "none")

Begin(d, kind) ==
    /\ op[d] = NoOp /\ MayCall(d)
    /\ (kind = "install") <=> ~installed[d]
    /\ op' = [op EXCEPT ![d] = [kind |-> kind, phase |-> "staged"]]
    /\ call' = [call EXCEPT ![d] = IF kind = "install" THEN "check" ELSE "remove"]
    /\ UNCHANGED <<target, installed>>

Commit(d) ==
    /\ call[d] = "commit"
    /\ installed' = [installed EXCEPT ![d] = op[d].kind = "install"]
    /\ Close(d)
    /\ UNCHANGED target

\* RecoverActive on what a crash or a failed recovery left behind.
Recover(d) == op[d] # NoOp /\ MayCall(d) /\ Recovering(d)

\* A request is answered, has its effect without being answered, or fails.
Request(possible, effect, idle, next, fail) ==
    \/ possible /\ effect /\ next
    \/ possible /\ "lost" \in Faults /\ effect /\ fail
    \/ (~possible \/ "fails" \in Faults) /\ idle /\ fail
=============================================================================
