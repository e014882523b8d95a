---------------------------- MODULE LocalDocker ----------------------------
(***************************************************************************)
(* The local Docker adapter: Backup, Apply, Verify and Recover as          *)
(* sequences of Docker Engine requests, between any two of which the       *)
(* process may stop.  The coordinator that calls the adapter is reduced to *)
(* the phases of the operation it holds the lock for; Coordinator shows    *)
(* that these are what it keeps to.                                        *)
(***************************************************************************)
EXTENDS DockerEngine

CONSTANTS RunKinds,   \* the operation kinds that are requested
          NoOp

NoBackup == 0

VARIABLES
    archive,    \* backup archives, recorded or not
    recorded,   \* the backup records of the store
    installed,  \* the version of installation.json
    op,         \* the operation that holds the deployment lock
    call        \* the adapter call under way and its next request

store == <<recorded, installed>>

-----------------------------------------------------------------------------
(* Types.                                                                  *)

Kinds == {"install", "update", "backup", "restore", "repair", "rollback",
          "uninstall"}

ASSUME KindsAssumption == RunKinds \subseteq Kinds

Archives == [version : Versions, content : Contents]

NoArchive == [version |-> NoVersion, content |-> Empty]

\* `prior' is the container that served when the operation began.
Operations == [kind : Kinds, from : Versions \cup {NoVersion}, to : Versions,
               selected : BackupIds \cup {NoBackup},
               safety : BackupIds \cup {NoBackup},
               prior : Volumes \cup {NoVolume},
               phase : {"prepared", "staged", "applied", "recovering"}]

ASSUME NoOpAssumption == NoOp \notin Operations

BackupSteps == {"backup-inspect", "backup-stop", "backup-archive",
                "backup-restart", "backup-ready"}
InstallSteps == {"install-inspect", "install-volume", "install-create", "install-start"}
ReplaceSteps == {"replace-inspect", "replace-volume", "replace-stop",
                 "replace-rename", "replace-create", "replace-fill", "replace-start"}
RemoveSteps == {"remove-inspect", "remove-container", "remove-volume"}
UndoSteps == {"undo-inspect", "undo-container"}
RevertSteps == {"revert-inspect", "revert-container", "revert-volume",
                "revert-rename", "revert-start", "revert-ready"}

\* The inspected container, whether it was running, and whether Backup has
\* its artifact or Recover found the preserved container.
Calls == [at : BackupSteps \cup InstallSteps \cup ReplaceSteps \cup RemoveSteps
               \cup UndoSteps \cup RevertSteps \cup {"none", "stage", "verify", "commit"},
          id : Volumes \cup {NoVolume}, running : BOOLEAN, found : BOOLEAN]

Nothing == [at |-> "none", id |-> NoVolume, running |-> FALSE, found |-> FALSE]

AdapterTypeOK ==
    /\ archive \in [BackupIds -> Archives \cup {NoArchive}]
    /\ recorded \in SUBSET BackupIds
    /\ installed \in Versions \cup {NoVersion}
    /\ op \in Operations \cup {NoOp}
    /\ call \in Calls

AdapterInit ==
    /\ archive = [b \in BackupIds |-> NoArchive]
    /\ recorded = {}
    /\ installed = NoVersion
    /\ op = NoOp
    /\ call = Nothing

-----------------------------------------------------------------------------
(* The operation that calls the adapter.                                   *)

TakesBackup(kind) == kind \in {"update", "backup", "restore", "rollback", "repair"}

Replaces(kind) == kind \in {"update", "restore", "rollback", "repair"}

Go(step) == call' = [call EXCEPT !.at = step] /\ UNCHANGED <<op, archive, store>>

GoOn(step, v) ==
    /\ call' = [call EXCEPT !.at = step, !.id = v,
                            !.running = v # NoVolume /\ container[v].running]
    /\ UNCHANGED <<op, archive, store>>

Enter(step) == call' = [Nothing EXCEPT !.at = step]

ApplyStep(kind) ==
    CASE kind = "install"   -> "install-inspect"
      [] kind = "uninstall" -> "remove-inspect"
      [] OTHER              -> "replace-inspect"

\* Mutant: a repair is recovered as if it were an install.
MutRecoverStep(kind) ==
    CASE kind \in {"install", "repair"} -> "undo-inspect"
      [] kind = "uninstall"             -> "remove-inspect"
      [] OTHER                          -> "revert-inspect"

RecoverStep(kind) ==
    CASE kind = "install"   -> "undo-inspect"
      [] kind = "uninstall" -> "remove-inspect"
      [] OTHER              -> "revert-inspect"

Close == op' = NoOp /\ call' = Nothing

\* The adapter call returns an error: a failed Backup closes the operation, a
\* failed Apply or Verify is recovered, a failed Recover stays to be retried.
Fail ==
    /\ CASE op.phase = "prepared"   -> Close
         [] op.phase = "recovering" -> call' = Nothing /\ UNCHANGED op
         [] OTHER -> op' = [op EXCEPT !.phase = "recovering"] /\ Enter(RecoverStep(op.kind))
    /\ UNCHANGED <<archive, store>>

\* Apply or Recover returns without an error.
Succeed ==
    /\ IF op.phase = "recovering"
         THEN /\ Close
              /\ installed' = IF op.kind = "uninstall" THEN NoVersion ELSE installed
         ELSE /\ op' = [op EXCEPT !.phase = "applied"]
              /\ Enter(IF op.kind = "uninstall" THEN "commit" ELSE "verify")
              /\ UNCHANGED installed
    /\ UNCHANGED <<archive, recorded>>

Unused == BackupIds \ recorded

FreshBackup == CHOOSE b \in Unused : \A x \in Unused : b <= x

VersionsFit(kind, from, to, selected) ==
    /\ (kind = "install") <=> (from = NoVersion)
    /\ kind \in {"backup", "restore", "repair", "uninstall"} => from = to
    /\ kind \in {"update", "rollback"} => from # to
    /\ IF kind \in {"restore", "rollback"}
         THEN selected \in recorded /\ archive[selected].version = to
         ELSE selected = NoBackup

Begin(kind, to, selected) ==
    /\ op = NoOp
    /\ VersionsFit(kind, installed, to, selected)
    /\ TakesBackup(kind) => Unused # {}
    /\ op' = [kind |-> kind, from |-> installed, to |-> to, selected |-> selected,
              safety |-> IF TakesBackup(kind) THEN FreshBackup ELSE NoBackup,
              prior |-> IF installed = NoVersion THEN NoVolume ELSE Named(Server),
              phase |-> IF kind = "uninstall" THEN "staged" ELSE "prepared"]
    /\ Enter(CASE TakesBackup(kind)   -> "backup-inspect"
               [] kind = "uninstall" -> "remove-inspect"
               [] OTHER              -> "stage")
    /\ UNCHANGED <<engine, archive, store>>

\* The bundle is staged and the staged phase written, or the operation closed.
Stage ==
    /\ call.at = "stage"
    /\ \/ op' = [op EXCEPT !.phase = "staged"] /\ Enter(ApplyStep(op.kind))
       \/ Close
    /\ UNCHANGED <<engine, archive, store>>

Commit ==
    /\ call.at = "commit"
    /\ installed' = CASE op.kind = "uninstall" -> NoVersion
                      [] op.kind = "backup"    -> installed
                      [] OTHER                 -> op.to
    /\ Close
    /\ UNCHANGED <<engine, archive, recorded>>

\* RecoverActive on the operation a stopped process left behind.
Recover ==
    /\ op # NoOp /\ call = Nothing
    /\ IF op.phase = "prepared"
         THEN Close
         ELSE op' = [op EXCEPT !.phase = "recovering"] /\ Enter(RecoverStep(op.kind))
    /\ UNCHANGED <<engine, archive, store>>

-----------------------------------------------------------------------------
(* Backup.                                                                 *)

BackupInspect ==
    /\ call.at = "backup-inspect"
    /\ LET v == Named(Server) IN
       \/ /\ OwnedContainer(v) /\ OwnedVolume(v)
          /\ container[v].version = op.from
          /\ GoOn(IF container[v].running THEN "backup-stop" ELSE "backup-archive", v)
       \/ ~(OwnedContainer(v) /\ OwnedVolume(v) /\ container[v].version = op.from) /\ Fail
       \/ "fails" \in Faults /\ Fail
    /\ UNCHANGED engine

\* The restart is only deferred once the stop was answered.
BackupStop ==
    /\ call.at = "backup-stop"
    /\ Request(container[call.id].running, Stop(call.id), Go("backup-archive"), Fail)

\* The adapter call returns its artifact, and the backup is recorded.
BackupDone ==
    /\ recorded' = recorded \cup {op.safety}
    /\ Enter(IF op.kind = "backup" THEN "commit" ELSE "stage")
    /\ UNCHANGED <<op, archive, installed>>

BackupArchive ==
    /\ call.at = "backup-archive"
    /\ \/ /\ archive' = [archive EXCEPT ![op.safety] =
                            [version |-> op.from, content |-> content[call.id]]]
          /\ call' = [call EXCEPT !.at = IF call.running THEN "backup-restart"
                                                         ELSE "backup-ready",
                                  !.found = TRUE]
          /\ UNCHANGED <<op, store>>
       \/ /\ "fails" \in Faults
          /\ IF call.running THEN Go("backup-restart") ELSE Fail
    /\ UNCHANGED engine

BackupRestart ==
    /\ call.at = "backup-restart"
    /\ Request(~container[call.id].running, Start(call.id), Go("backup-ready"), Fail)

\* A stopped container stays stopped, a restarted one must become ready.
BackupReady ==
    /\ call.at = "backup-ready"
    /\ \/ call.found /\ BackupDone
       \/ ~call.found /\ Fail
       \/ call.running /\ "fails" \in Faults /\ Fail
    /\ UNCHANGED engine

-----------------------------------------------------------------------------
(* Apply of an install.                                                    *)

InstallInspect ==
    /\ call.at = "install-inspect"
    /\ \/ Named(Server) = NoVolume /\ Go("install-volume")
       \/ (Named(Server) # NoVolume \/ "fails" \in Faults) /\ Fail
    /\ UNCHANGED engine

\* ensureManagedVolume keeps a volume that an earlier install left behind.
InstallVolume ==
    /\ call.at = "install-volume"
    /\ \/ /\ volume[Data] = "owned"
          /\ Request(TRUE, UNCHANGED engine, Go("install-create"), Fail)
       \/ /\ volume[Data] # "owned"
          /\ Request(volume[Data] = "absent", CreateVolume(Data), Go("install-create"), Fail)

InstallCreate ==
    /\ call.at = "install-create"
    /\ Request(Named(Server) = NoVolume, CreateContainer(Data, op.to),
               Go("install-start"), Fail)

InstallStart ==
    /\ call.at = "install-start"
    /\ Request(~container[Data].running, Start(Data), Succeed, Fail)

-----------------------------------------------------------------------------
(* Apply of an update, restore, rollback or repair.                        *)

\* Mutant: every replacement is seeded from its safety backup.
MutSource(o) == o.safety

\* The backup a replacement is seeded from.
Source(o) == IF o.kind \in {"restore", "rollback"} THEN o.selected ELSE o.safety

ReplaceAllowed(v) ==
    /\ archive[op.safety].version = op.from
    /\ archive[Source(op)].version = IF op.kind = "update" THEN op.from ELSE op.to
    /\ OwnedContainer(v) /\ container[v].running
    /\ container[v].version = op.from
    /\ OwnedVolume(v)

ReplaceInspect ==
    /\ call.at = "replace-inspect"
    /\ LET v == Named(Server) IN
       \/ ReplaceAllowed(v) /\ GoOn("replace-volume", v)
       \/ (~ReplaceAllowed(v) \/ "fails" \in Faults) /\ Fail
    /\ UNCHANGED engine

\* Mutant: the container to replace is not stopped.
MutReplaceVolume ==
    /\ call.at = "replace-volume"
    /\ Request(volume[op.safety] = "absent", CreateVolume(op.safety),
               Go("replace-rename"), Fail)

ReplaceVolume ==
    /\ call.at = "replace-volume"
    /\ Request(volume[op.safety] = "absent", CreateVolume(op.safety),
               Go("replace-stop"), Fail)

ReplaceStop ==
    /\ call.at = "replace-stop"
    /\ Request(container[call.id].running, Stop(call.id), Go("replace-rename"), Fail)

ReplaceRename ==
    /\ call.at = "replace-rename"
    /\ Request(Named(op.safety) = NoVolume, Rename(call.id, op.safety),
               Go("replace-create"), Fail)

ReplaceCreate ==
    /\ call.at = "replace-create"
    /\ Request(Named(Server) = NoVolume, CreateContainer(op.safety, op.to),
               Go("replace-fill"), Fail)

\* Mutant: the archive is unpacked over the volume that is replaced.
MutReplaceFill ==
    /\ call.at = "replace-fill"
    /\ Request(TRUE,
               /\ content' = [content EXCEPT ![call.id] = archive[Source(op)].content]
               /\ UNCHANGED <<container, volume>>,
               Go("replace-start"), Fail)

ReplaceFill ==
    /\ call.at = "replace-fill"
    /\ Request(TRUE,
               /\ content' = [content EXCEPT ![op.safety] = archive[Source(op)].content]
               /\ UNCHANGED <<container, volume>>,
               Go("replace-start"), Fail)

ReplaceStart ==
    /\ call.at = "replace-start"
    /\ Request(~container[op.safety].running, Start(op.safety), Succeed, Fail)

-----------------------------------------------------------------------------
(* Verify.                                                                 *)

\* Both health endpoints answer, with that version.
Ready(version) ==
    LET v == Named(Server) IN
    OwnedContainer(v) /\ container[v].running /\ container[v].version = version

Verify ==
    /\ call.at = "verify"
    /\ \/ Ready(op.to) /\ Go("commit")
       \/ (~Ready(op.to) \/ "fails" \in Faults) /\ Fail
    /\ UNCHANGED engine

-----------------------------------------------------------------------------
(* Apply and Recover of an uninstall: removeOwnedDeployment.               *)

RemoveInspect ==
    /\ call.at = "remove-inspect"
    /\ LET v == Named(Server) IN
       \/ v = NoVolume /\ Go("remove-volume")
       \/ OwnedContainer(v) /\ v = Data /\ GoOn("remove-container", v)
       \/ v # NoVolume /\ ~(OwnedContainer(v) /\ v = Data) /\ Fail
       \/ "fails" \in Faults /\ Fail
    /\ UNCHANGED engine

RemoveServer ==
    /\ call.at = "remove-container"
    /\ Request(Exists(call.id), RemoveContainer(call.id), Go("remove-volume"), Fail)

RemoveData ==
    /\ call.at = "remove-volume"
    /\ \/ volume[Data] = "absent" /\ Request(TRUE, UNCHANGED engine, Succeed, Fail)
       \/ volume[Data] = "foreign" /\ UNCHANGED engine /\ Fail
       \/ /\ volume[Data] = "owned"
          /\ Request(~Exists(Data), RemoveVolume(Data), Succeed, Fail)

-----------------------------------------------------------------------------
(* Recover of an install.                                                  *)

\* Mutant: the owner of the container is not checked.
MutUndoInspect ==
    /\ call.at = "undo-inspect"
    /\ IF Named(Server) = NoVolume THEN Succeed ELSE GoOn("undo-container", Named(Server))
    /\ UNCHANGED engine

UndoInspect ==
    /\ call.at = "undo-inspect"
    /\ LET v == Named(Server) IN
       \/ v = NoVolume /\ Succeed
       \/ OwnedContainer(v) /\ GoOn("undo-container", v)
       \/ v # NoVolume /\ ~OwnedContainer(v) /\ Fail
       \/ "fails" \in Faults /\ Fail
    /\ UNCHANGED engine

UndoContainer ==
    /\ call.at = "undo-container"
    /\ Request(Exists(call.id), RemoveContainer(call.id), Succeed, Fail)

-----------------------------------------------------------------------------
(* Recover of a replacement: recoverReplacement.                           *)

\* Nothing is preserved: the active container must be the one before.
ActiveIsPrior ==
    LET active == Named(Server) IN
    OwnedContainer(active) /\ container[active].version = op.from

\* Mutant: beside a preserved container there must be a replacement.
MutPreservedIsPrior ==
    LET preserved == Named(op.safety)
        active == Named(Server)
    IN  /\ OwnedContainer(preserved) /\ container[preserved].version = op.from
        /\ OwnedContainer(active)
        /\ active = op.safety /\ container[active].version = op.to

\* A preserved container is there, and the active one, if any, is the
\* replacement this operation made.
PreservedIsPrior ==
    LET preserved == Named(op.safety)
        active == Named(Server)
    IN  /\ OwnedContainer(preserved) /\ container[preserved].version = op.from
        /\ active # NoVolume =>
              /\ OwnedContainer(active)
              /\ active = op.safety /\ container[active].version = op.to

RevertAllowed ==
    IF Named(op.safety) = NoVolume THEN ActiveIsPrior ELSE PreservedIsPrior

RevertInspect ==
    /\ call.at = "revert-inspect"
    /\ LET preserved == Named(op.safety)
           active == Named(Server)
           id == IF preserved = NoVolume THEN active ELSE preserved
       IN  \/ /\ RevertAllowed
              /\ call' = [at |-> IF preserved # NoVolume /\ active # NoVolume
                                  THEN "revert-container" ELSE "revert-volume",
                          id |-> id, running |-> container[id].running,
                          found |-> preserved # NoVolume]
              /\ UNCHANGED <<op, archive, store>>
           \/ (~RevertAllowed \/ "fails" \in Faults) /\ Fail
    /\ UNCHANGED engine

\* Mutant: the preserved container is removed in place of the replacement.
MutRevertContainer ==
    /\ call.at = "revert-container"
    /\ Request(Exists(call.id), RemoveContainer(call.id), Go("revert-volume"), Fail)

RevertContainer ==
    /\ call.at = "revert-container"
    /\ Request(Exists(op.safety), RemoveContainer(op.safety), Go("revert-volume"), Fail)

\* Mutant: the volume of the replacement is left behind.
MutRevertVolume ==
    /\ call.at = "revert-volume"
    /\ Go(IF call.found THEN "revert-rename" ELSE "revert-start")
    /\ UNCHANGED engine

RevertVolume ==
    /\ call.at = "revert-volume"
    /\ LET next == IF call.found THEN "revert-rename" ELSE "revert-start" IN
       \/ /\ volume[op.safety] = "absent"
          /\ Request(TRUE, UNCHANGED engine, Go(next), Fail)
       \/ /\ volume[op.safety] # "absent"
          /\ Request(volume[op.safety] = "owned" /\ ~Exists(op.safety),
                     RemoveVolume(op.safety), Go(next), Fail)

RevertRename ==
    /\ call.at = "revert-rename"
    /\ Request(Exists(call.id) /\ Named(Server) = NoVolume, Rename(call.id, Server),
               Go("revert-start"), Fail)

\* Mutant: the container is started whether it runs or not.
MutRevertStart ==
    /\ call.at = "revert-start"
    /\ Request(~container[call.id].running, Start(call.id), Go("revert-ready"), Fail)

\* startAndVerify goes by what was inspected.
RevertStart ==
    /\ call.at = "revert-start"
    /\ \/ call.running /\ UNCHANGED engine /\ Go("revert-ready")
       \/ /\ ~call.running
          /\ Request(Exists(call.id) /\ ~container[call.id].running, Start(call.id),
                     Go("revert-ready"), Fail)

RevertReady ==
    /\ call.at = "revert-ready"
    /\ \/ Ready(op.from) /\ Succeed
       \/ (~Ready(op.from) \/ "fails" \in Faults) /\ Fail
    /\ UNCHANGED engine
-----------------------------------------------------------------------------
BackupStep == BackupInspect \/ BackupStop \/ BackupArchive \/ BackupRestart \/ BackupReady

InstallStep == InstallInspect \/ InstallVolume \/ InstallCreate \/ InstallStart

ReplaceStep ==
    \/ ReplaceInspect \/ ReplaceVolume \/ ReplaceStop \/ ReplaceRename
    \/ ReplaceCreate \/ ReplaceFill \/ ReplaceStart

RemoveStep == RemoveInspect \/ RemoveServer \/ RemoveData

UndoStep == UndoInspect \/ UndoContainer

RevertStep ==
    \/ RevertInspect \/ RevertContainer \/ RevertVolume \/ RevertRename
    \/ RevertStart \/ RevertReady

AdapterStep ==
    \/ Stage \/ Commit \/ Verify
    \/ BackupStep \/ InstallStep \/ ReplaceStep \/ RemoveStep \/ UndoStep \/ RevertStep
=============================================================================
