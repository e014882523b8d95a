--------------------------- MODULE RollbackPool ----------------------------
(***************************************************************************)
(* The rollback pool of a local Docker deployment and its pruning, beside  *)
(* the operations of LocalDocker, a running application and the owner of   *)
(* whatever already had the deployment's names: the whole local system.    *)
(***************************************************************************)
EXTENDS LocalDocker, FiniteSets

CONSTANT Pruning   \* "never", "alone" (nothing begins meanwhile) or "any"

ASSUME PruningAssumption == Pruning \in {"never", "alone", "any"}

VARIABLE prune     \* a pruning under way

vars == <<engine, archive, store, op, call, prune>>

Prunings == [at : {"none", "list", "check", "container", "volume"},
             todo : SUBSET BackupIds, id : Volumes \cup {NoVolume}]

NoPruning == [at |-> "none", todo |-> {}, id |-> NoVolume]

TypeOK == EngineTypeOK /\ AdapterTypeOK /\ prune \in Prunings

Init == EngineInit /\ AdapterInit /\ prune = NoPruning

-----------------------------------------------------------------------------
(* The rollback pool and its pruning.                                      *)

\* The recorded backups whose rollback container is there.
Pool == { b \in recorded : Named(b) # NoVolume }

\* A listed container is stopped, of its backup's version and with its volume.
PoolEntry(b) ==
    LET v == Named(b) IN
    /\ OwnedContainer(v) /\ ~container[v].running
    /\ container[v].version = archive[b].version
    /\ OwnedVolume(v)

PruneStep(step) == prune' = [prune EXCEPT !.at = step]

PruneEnds == prune' = NoPruning

\* The server finds no active operation.
PruneBegin ==
    /\ Pruning # "never" /\ prune = NoPruning
    /\ op = NoOp
    /\ PruneStep("list")
    /\ UNCHANGED <<engine, archive, store, op, call>>

\* Then it reads the inventory, and keeps the newest entries.
PruneList ==
    /\ prune.at = "list"
    /\ IF installed # NoVersion /\ \A b \in Pool : PoolEntry(b)
         THEN \E keep \in 0..Cardinality(Pool) :
                LET old == { b \in Pool : Cardinality({ x \in Pool : x > b }) >= keep }
                IN  prune' = IF old = {} THEN NoPruning
                             ELSE [at |-> "check", todo |-> old, id |-> NoVolume]
         ELSE PruneEnds
    /\ UNCHANGED <<engine, archive, store, op, call>>

\* An inspection fails, or its answer does not arrive.
PruneFails ==
    /\ "fails" \in Faults /\ prune.at \in {"list", "check"}
    /\ PruneEnds
    /\ UNCHANGED <<engine, archive, store, op, call>>

NextToPrune == CHOOSE b \in prune.todo : \A x \in prune.todo : x <= b

PruneCheck ==
    /\ prune.at = "check"
    /\ IF PoolEntry(NextToPrune)
         THEN prune' = [prune EXCEPT !.at = "container", !.id = Named(NextToPrune)]
         ELSE PruneEnds
    /\ UNCHANGED <<engine, archive, store, op, call>>

\* Without force: a running container is not removed.
PruneContainer ==
    /\ prune.at = "container"
    /\ Request(Exists(prune.id) /\ ~container[prune.id].running,
               RemoveContainer(prune.id), PruneStep("volume"), PruneEnds)
    /\ UNCHANGED <<archive, store, op, call>>

PruneNext ==
    LET rest == prune.todo \ {NextToPrune} IN
    prune' = IF rest = {} THEN NoPruning ELSE [at |-> "check", todo |-> rest, id |-> NoVolume]

PruneVolume ==
    /\ prune.at = "volume"
    /\ \/ volume[prune.id] = "absent" /\ Request(TRUE, UNCHANGED engine, PruneNext, PruneEnds)
       \/ /\ volume[prune.id] # "absent"
          /\ Request(volume[prune.id] = "owned" /\ ~Exists(prune.id),
                     RemoveVolume(prune.id), PruneNext, PruneEnds)
    /\ UNCHANGED <<archive, store, op, call>>

-----------------------------------------------------------------------------
(* The system.                                                             *)

\* The process stops; the engine goes on.
Crash ==
    /\ "crash" \in Faults
    /\ call' = Nothing /\ prune' = NoPruning
    /\ UNCHANGED <<engine, archive, store, op>>

PruningStep ==
    \/ PruneBegin \/ PruneList \/ PruneFails
    \/ PruneCheck \/ PruneContainer \/ PruneVolume

\* The operator asks for an operation.
OperatorBegins ==
    /\ Pruning = "alone" => prune = NoPruning
    /\ \E kind \in RunKinds, to \in Versions, selected \in BackupIds \cup {NoBackup} :
          Begin(kind, to, selected)

Next ==
    \/ (OperatorBegins \/ Recover \/ AdapterStep) /\ UNCHANGED prune
    \/ PruningStep
    \/ (ApplicationWrites \/ StrangersLeave) /\ UNCHANGED <<archive, store, op, call, prune>>
    \/ Crash

Spec == Init /\ [][Next]_vars

\* A request of a recovery is answered.
RecoveryAnswered(steps) ==
    /\ op # NoOp /\ op.phase = "recovering" /\ call.at \in steps
    /\ AdapterStep /\ UNCHANGED prune
    /\ ~(op' # NoOp /\ call' = Nothing)

\* The requests of recovery.  One recovery makes only one of the inspections;
\* a removal or a renaming is not repeated once it is done.
RecoveryRequests ==
    {{"revert-inspect", "undo-inspect"},
     {"revert-container", "revert-rename", "undo-container"},
     {"revert-volume"}, {"revert-start"}, {"revert-ready"}}

\* Calls go on, and the operator asks for recovery again and again; the engine
\* and the process do not fail at the same request of it each time (ADR-0009).
Fairness ==
    /\ WF_vars((AdapterStep \/ Recover) /\ UNCHANGED prune)
    /\ \A steps \in RecoveryRequests : SF_vars(RecoveryAnswered(steps))

FairSpec == Spec /\ Fairness

-----------------------------------------------------------------------------
(* Properties.                                                             *)

\* Resources that only share a name with the deployment are never changed by
\* an operation or a pruning, whatever fails (README, "an unowned same-named
\* container remains protected").
StrangersUntouched ==
    [][(call' # call \/ prune' # prune) =>
          /\ container'[Foreign] = container[Foreign]
          /\ volume[Data] = "foreign" => volume'[Data] = "foreign"]_vars

\* When nobody holds the deployment, what the inventory says is there: one
\* container of the recorded version on a volume of its own that holds data,
\* or none.
InventoryIsDeployed ==
    op = NoOp =>
        LET v == Named(Server) IN
        IF installed = NoVersion THEN ~OwnedContainer(v)
        ELSE /\ OwnedContainer(v) /\ OwnedVolume(v)
             /\ container[v].version = installed
             /\ content[v] # Empty

\* From the moment a replacement may touch the target until it ends, the
\* container it replaces is there with its volume, as the server or under the
\* name of the safety backup (ADR-0007: the preserved container and its
\* untouched volume are what recovery brings back).
PriorIsPreserved ==
    op # NoOp /\ Replaces(op.kind) /\ op.phase # "prepared" =>
        /\ OwnedContainer(op.prior) /\ OwnedVolume(op.prior)
        /\ container[op.prior].version = op.from
        /\ container[op.prior].name \in {Server, op.safety}
        /\ content[op.prior] # Empty

\* Recovery never refuses what the operation itself left behind: its ownership
\* and version checks accept every state in which a replacement can stop,
\* recovery itself included.
ReplacementRecoverable ==
    op # NoOp /\ Replaces(op.kind) /\ op.phase # "prepared" /\ call = Nothing => RevertAllowed

\* The same of a removal, which docs/uninstall.md offers for every active
\* deployment: its first check accepts the server that is in place.
RemovalAccepted ==
    op # NoOp /\ op.kind = "uninstall" /\ call = Nothing /\ ~Exists(Foreign) =>
        Named(Server) \in {Data, NoVolume}

\* A replacement is only started on the data of the right archive: the
\* selected one for a restore or rollback, its own safety backup otherwise.
ReplacementIsSeeded ==
    call.at = "replace-start" /\ op # NoOp =>
        content[op.safety] = IF op.kind \in {"restore", "rollback"}
                               THEN archive[op.selected].content
                               ELSE archive[op.safety].content

\* An operation that is recovered leaves the very container it found, running
\* on its own volume, and nothing of the replacement; an undone install or a
\* completed uninstall leaves no server.
RecoveryRestores ==
    [][op # NoOp /\ op.phase = "recovering" /\ op' = NoOp =>
          IF Replaces(op.kind)
            THEN /\ container'[op.prior] = [name |-> Server, version |-> op.from, running |-> TRUE]
                 /\ volume'[op.safety] = "absent" /\ container'[op.safety] = NoContainer
            ELSE \A v \in Volumes : container'[v] # NoContainer => container'[v].name # Server]_vars

\* An operation that is committed left what it promised: the new version on
\* the new volume, with the replaced container kept, stopped, in the pool.
CommitDelivers ==
    [][op # NoOp /\ op.phase = "applied" /\ op' = NoOp /\ Replaces(op.kind) =>
          /\ container'[op.safety].name = Server
          /\ container'[op.safety].version = op.to
          /\ container'[op.prior] = [name |-> op.safety, version |-> op.from, running |-> FALSE]]_vars

\* An install or a replacement that was interrupted ends, however often the
\* engine fails and the process stops, unless the name belongs to a stranger.
OperationsEnd ==
    (op # NoOp /\ op.kind # "uninstall") ~>
        (op = NoOp \/ op.kind = "uninstall" \/ Exists(Foreign))

-----------------------------------------------------------------------------
(* The adapter keeps the contract of AdapterContract.                      *)

ContractStage ==
    IF op = NoOp THEN "idle"
    ELSE CASE op.phase = "prepared" -> "untouched"
           [] op.phase = "staged"   -> "changing"
           [] op.phase = "applied"  -> "delivered"
           [] OTHER                 -> "undoing"

Goal == IF op = NoOp \/ op.kind = "uninstall" THEN NoVersion ELSE op.to

\* The version of a container and the content of its volume.
Deployed(v) ==
    IF OwnedContainer(v) THEN [version |-> container[v].version, content |-> content[v]]
                         ELSE NoArchive

Served ==
    IF ContractStage \in {"changing", "undoing"} THEN NoArchive ELSE Deployed(Named(Server))

Spare ==
    IF op # NoOp /\ op.phase # "prepared" /\ Replaces(op.kind) THEN Deployed(op.prior)
                                                              ELSE NoArchive

Contract == INSTANCE AdapterContract WITH
    stage <- ContractStage, goal <- Goal, served <- Served, spare <- Spare

\* Seen from the coordinator, what is served changes only by an Apply or a
\* Recover that says so; until then it is set aside with all its data, writes
\* made beside the operation included, and recovery serves it again.
ImplementsContract == Contract!Spec
=============================================================================
