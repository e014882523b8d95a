---------------------------- MODULE Coordinator ----------------------------
(***************************************************************************)
(* operations.Coordinator over the lifecycle store: the sessions (HTTP     *)
(* requests) that run an operation or recover the active one, each calling *)
(* the store and a target adapter in turn.  The store's handlers are those *)
(* of LifecycleStore, step by step.  The adapters are reduced to what the  *)
(* coordinator relies on: Apply and Recover change the deployment in more  *)
(* than one step, may fail at any of them, and leave it as they promise    *)
(* when they succeed.                                                      *)
(***************************************************************************)
EXTENDS LifecycleStore

CONSTANTS RunKinds   \* the operation kinds that are requested

ASSUME RunKindsAssumption == RunKinds \subseteq Kinds

VARIABLES
    session,   \* what each caller is doing
    target     \* the deployment: the version in place, and whether an
               \* adapter changed it without finishing

cvars == <<vars, session, target>>

\* Where a session is: the store call whose reply it awaits, or the adapter
\* call it is in.
Places == {"idle",
           "began", "backup", "backup-recorded", "backup-complete", "stage",
           "staged", "apply", "apply-done", "applied", "verify", "verified",
           "closing",
           "safe-close", "begin-recovery", "recovery-started", "recover",
           "recover-done"}

NoRequest == [op |-> NoOp, kind |-> "none", from |-> NoVersion,
              to |-> NoVersion, input |-> NoBackup]

Sessions == [at : Places, role : {"none", "run", "recover"},
             request : Requests \cup {NoRequest},
             safety : BackupIds \cup {NoBackup}]

IdleSession == [at |-> "idle", role |-> "none", request |-> NoRequest,
                safety |-> NoBackup]

CoordinatorTypeOK ==
    /\ TypeOK
    /\ session \in [Callers -> Sessions]
    /\ target \in [version : Versions \cup {NoVersion}, dirty : BOOLEAN]

CoordinatorInit ==
    /\ Init
    /\ session = [s \in Callers |-> IdleSession]
    /\ target = [version |-> NoVersion, dirty |-> FALSE]

-----------------------------------------------------------------------------
(* Helpers.                                                                *)

At(s, place) == session[s].at = place

Op(s) == session[s].request.op

Kind(s) == session[s].request.kind

Ok(s) == reply[s] = "ok"

\* The session waits for a call that has returned.
Replied(s, place) == At(s, place) /\ reply[s] # "none"

Move(s, place) == session' = [session EXCEPT ![s].at = place]

Finish(s) == session' = [session EXCEPT ![s] = IdleSession]

\* The session calls Store.Transition and waits at place for its reply.
Advance(s, next, ref, place) ==
    /\ Transition(s, Op(s), next, ref)
    /\ Move(s, place)
    /\ UNCHANGED target

\* The store is not called.
Local == UNCHANGED vars

-----------------------------------------------------------------------------
(* Run.                                                                    *)

\* A restore or rollback reads the backup it starts from before it begins.
SelectedBackupMatches(q) ==
    TakesInput(q.kind) =>
        /\ q.input # NoBackup
        /\ backups[q.input] # NoBackupRecord
        /\ backups[q.input].version = q.to
        /\ q.kind = "restore" <=> q.to = q.from

\* What the server lets through (server.runOperation, uninstallInstallation):
\* the versions that go with each kind.
RequestFormed(q) ==
    /\ q.kind \in {"backup", "restore", "repair", "uninstall"} => q.from = q.to
    /\ q.kind \in {"update", "rollback"} => q.from # q.to

\* Identities are drawn at random: any unused one stands for all.
FreshOp(o) == o = CHOOSE x \in Ops : journal[x] = NoJournal

FreshBackup(b) == b = CHOOSE x \in BackupIds : backups[x] = NoBackupRecord

RunStart(s, q) ==
    /\ At(s, "idle")
    /\ q.kind \in RunKinds
    /\ RequestFormed(q)
    /\ journal[q.op] = NoJournal /\ FreshOp(q.op)
    /\ SelectedBackupMatches(q)
    /\ Begin(s, q)
    /\ session' = [session EXCEPT ![s] = [at |-> "began", role |-> "run",
                                          request |-> q, safety |-> NoBackup]]
    /\ UNCHANGED target

RunBegun(s) ==
    /\ Replied(s, "began")
    /\ \/ ~Ok(s) /\ Finish(s) /\ Local /\ UNCHANGED target
       \/ /\ Ok(s) /\ Kind(s) = "uninstall"
          /\ Advance(s, "staged", NoBackup, "staged")
       \/ /\ Ok(s) /\ Kind(s) # "uninstall"
          /\ Move(s, IF TakesBackup(Kind(s)) THEN "backup" ELSE "stage")
          /\ Local /\ UNCHANGED target

\* Mutator.Backup returns, and its artifact is recorded or the operation closed.
RunBackup(s) ==
    /\ At(s, "backup")
    /\ \/ \E b \in BackupIds :
             /\ backups[b] = NoBackupRecord /\ FreshBackup(b)
             /\ RecordBackup(s, Op(s), b)
             /\ session' = [session EXCEPT ![s].at = "backup-recorded",
                                           ![s].safety = b]
             /\ UNCHANGED target
       \/ Advance(s, "failed", NoBackup, "closing")

RunBackupRecorded(s) ==
    /\ Replied(s, "backup-recorded")
    /\ IF Ok(s) THEN Advance(s, "backup-complete", session[s].safety, "backup-complete")
                ELSE Advance(s, "failed", NoBackup, "closing")

RunBackupComplete(s) ==
    /\ Replied(s, "backup-complete")
    /\ \/ ~Ok(s) /\ Finish(s) /\ Local /\ UNCHANGED target
       \/ Ok(s) /\ Kind(s) = "backup" /\ Advance(s, "committed", NoBackup, "closing")
       \/ Ok(s) /\ Kind(s) # "backup" /\ Move(s, "stage") /\ Local /\ UNCHANGED target

\* The bundle stager returns.
RunStage(s) ==
    /\ At(s, "stage")
    /\ \/ Advance(s, "staged", NoBackup, "staged")
       \/ Advance(s, "failed", NoBackup, "closing")

\* Mutant: Apply is called whether or not the staged phase was written.
MutRunStaged(s) ==
    Replied(s, "staged") /\ Move(s, "apply") /\ Local /\ UNCHANGED target

\* The target is changed only once the staged phase is durable.
RunStaged(s) ==
    /\ Replied(s, "staged")
    /\ IF Ok(s) THEN Move(s, "apply") ELSE Finish(s)
    /\ Local /\ UNCHANGED target

\* Coordinator.recover, entered when an adapter call or a transition failed.
EnterRecovery(s) ==
    Advance(s, "recovery-started", session[s].safety, "recovery-started")

RunApplied(s) ==
    /\ Replied(s, "applied")
    /\ \/ ~Ok(s) /\ EnterRecovery(s)
       \/ Ok(s) /\ Kind(s) = "uninstall" /\ Advance(s, "verified", NoBackup, "verified")
       \/ Ok(s) /\ Kind(s) # "uninstall" /\ Move(s, "verify") /\ Local /\ UNCHANGED target

\* Mutator.Verify returns.
RunVerify(s) ==
    /\ At(s, "verify")
    /\ \/ Advance(s, "verified", NoBackup, "verified")
       \/ EnterRecovery(s)

RunVerified(s) ==
    /\ Replied(s, "verified")
    /\ IF Ok(s) THEN Advance(s, "committed", NoBackup, "closing")
                ELSE EnterRecovery(s)

\* The last transition returned; its error is only reported.
Closed(s) ==
    /\ Replied(s, "closing")
    /\ Finish(s) /\ Local /\ UNCHANGED target

-----------------------------------------------------------------------------
(* The adapters.  An Apply or a Recover that is under way shows in target. *)

Disturb(s, place) ==
    /\ At(s, place)
    /\ target' = [target EXCEPT !.dirty = TRUE]
    /\ Local /\ UNCHANGED session

\* What a successful Apply puts in place.
Goal(s) == IF Kind(s) = "uninstall" THEN NoVersion ELSE session[s].request.to

\* What a successful Recover puts back: the version before, or nothing for an
\* install that is undone and an uninstall that is completed.
Origin(s) == IF Kind(s) = "uninstall" THEN NoVersion ELSE session[s].request.from

ApplyDisturbs(s) == Disturb(s, "apply")

ApplySucceeds(s) ==
    /\ At(s, "apply")
    /\ target' = [version |-> Goal(s), dirty |-> FALSE]
    /\ Move(s, "apply-done")
    /\ Local

RunApplyDone(s) ==
    /\ At(s, "apply-done")
    /\ Advance(s, "applied", NoBackup, "applied")

\* Mutant: the error of Apply is dropped.
MutApplyFails(s) == At(s, "apply") /\ Advance(s, "applied", NoBackup, "applied")

ApplyFails(s) == At(s, "apply") /\ EnterRecovery(s)

RecoverDisturbs(s) == Disturb(s, "recover")

RecoverSucceeds(s) ==
    /\ At(s, "recover")
    /\ target' = [version |-> Origin(s), dirty |-> FALSE]
    /\ Move(s, "recover-done")
    /\ Local

\* Mutant: an operation that cannot be recovered is closed as failed.
MutRecoverFails(s) == At(s, "recover") /\ Advance(s, "failed", NoBackup, "closing")

\* The operation stays locked in recovery-started for a later attempt.
RecoverFails(s) ==
    /\ At(s, "recover")
    /\ Finish(s) /\ Local /\ UNCHANGED target

RecoverDone(s) ==
    /\ At(s, "recover-done")
    /\ Advance(s, "recovered", NoBackup, "closing")

-----------------------------------------------------------------------------
(* RecoverActive.                                                          *)

\* Mutant: the operation's input is taken for the version it started from.
MutJournalRequest(o) ==
    [op |-> o, kind |-> journal[o].kind, from |-> journal[o].input,
     to |-> journal[o].to, input |-> journal[o].input]

JournalRequest(o) ==
    [op |-> o, kind |-> journal[o].kind, from |-> journal[o].from,
     to |-> journal[o].to, input |-> journal[o].input]

\* Mutant: the selected backup is recovered instead of the safety backup.
MutSafetyBackup(j) == j.input

\* The backup named by the backup-complete event, NoBackup when there is none.
SafetyBackup(j) ==
    LET named == { i \in DOMAIN j.events : j.events[i].phase = "backup-complete" }
    IN  IF named = {} THEN NoBackup
        ELSE j.events[CHOOSE i \in named : \A k \in named : k <= i].ref

BackupLoads(b) == b # NoBackup => backups[b] # NoBackupRecord

\* Mutant: an operation already in recovery-started is not retried.
MutRecoverActive(s) ==
    /\ At(s, "idle") /\ call = Idle
    /\ Readable(lock)
    /\ Phase(journal[lock]) \in {"staged", "applied", "verified"}
    /\ session' = [session EXCEPT ![s] =
          [at |-> "begin-recovery", role |-> "recover",
           request |-> JournalRequest(lock), safety |-> SafetyBackup(journal[lock])]]
    /\ Local /\ UNCHANGED target

\* Store.Active is read here and acted upon in the next steps.
RecoverActive(s) ==
    /\ At(s, "idle") /\ call = Idle
    /\ Readable(lock)
    /\ LET j == journal[lock]
           go(place) == session' = [session EXCEPT ![s] =
                           [at |-> place, role |-> "recover",
                            request |-> JournalRequest(lock),
                            safety |-> SafetyBackup(j)]]
       IN \/ Phase(j) \in {"prepared", "backup-complete"} /\ go("safe-close")
          \/ /\ Phase(j) \in {"staged", "applied", "verified", "recovery-started"}
             /\ BackupLoads(j.input) /\ BackupLoads(SafetyBackup(j))
             /\ go(IF Phase(j) = "recovery-started" THEN "recover"
                                                    ELSE "begin-recovery")
    /\ Local /\ UNCHANGED target

SafeClose(s) ==
    /\ At(s, "safe-close")
    /\ Advance(s, "failed", NoBackup, "closing")

BeginRecovery(s) ==
    /\ At(s, "begin-recovery")
    /\ EnterRecovery(s)

\* Run falls back to closing the operation when recovery cannot be recorded;
\* RecoverActive returns.
RecoveryStarted(s) ==
    /\ Replied(s, "recovery-started")
    /\ \/ Ok(s) /\ Move(s, "recover") /\ Local /\ UNCHANGED target
       \/ /\ ~Ok(s) /\ session[s].role = "run"
          /\ Advance(s, "failed", NoBackup, "closing")
       \/ /\ ~Ok(s) /\ session[s].role = "recover"
          /\ Finish(s) /\ Local /\ UNCHANGED target

-----------------------------------------------------------------------------
(* The system.                                                             *)

\* A handler of the store takes its next step.
StoreStep == HandlerStep /\ UNCHANGED <<session, target>>

\* The process stops with all its sessions; the deployment stays as it is.
ProcessCrash ==
    /\ Crash
    /\ session' = [s \in Callers |-> IdleSession]
    /\ UNCHANGED target

\* The steps a session takes by itself once it was requested.
SessionStep(s) ==
    \/ RunBegun(s) \/ RunBackup(s) \/ RunBackupRecorded(s) \/ RunBackupComplete(s)
    \/ RunStage(s) \/ RunStaged(s) \/ RunApplyDone(s) \/ RunApplied(s)
    \/ RunVerify(s) \/ RunVerified(s) \/ Closed(s)
    \/ ApplySucceeds(s) \/ ApplyFails(s)
    \/ RecoverSucceeds(s) \/ RecoverFails(s) \/ RecoverDone(s)
    \/ SafeClose(s) \/ BeginRecovery(s) \/ RecoveryStarted(s)

CoordinatorNext ==
    \/ StoreStep
    \/ ProcessCrash
    \/ \E s \in Callers :
          \/ \E q \in ValidRequests : RunStart(s, q)
          \/ RecoverActive(s)
          \/ SessionStep(s)
          \/ ApplyDisturbs(s) \/ RecoverDisturbs(s)

CoordinatorSpec == CoordinatorInit /\ [][CoordinatorNext]_cvars

\* A recovery calls the store and the journal is written.
RecoveryIsWritten(s) ==
    /\ SafeClose(s) \/ BeginRecovery(s) \/ RecoverDone(s)
    /\ journal' # journal

\* Handlers and sessions run on, and the operator asks for recovery again and
\* again as long as an operation is listed (ADR-0009: "a later attempt can
\* retry").  The target, the disk and the process do not fail at the same point
\* of a recovery for ever.
Fairness ==
    /\ WF_cvars(StoreStep)
    /\ \A s \in Callers :
          /\ WF_cvars(SessionStep(s))
          /\ SF_cvars(RecoverActive(s))
          /\ SF_cvars(RecoverSucceeds(s))
          /\ SF_cvars(RecoveryIsWritten(s))

FairCoordinatorSpec == CoordinatorSpec /\ Fairness

-----------------------------------------------------------------------------
(* Properties.                                                             *)

\* ADR-0009: the lock is not released while the target state is uncertain.  A
\* deployment nobody holds is exactly what the inventory says.
TargetCertain ==
    lock = NoOp => ~target.dirty /\ target.version = Installed

\* The one way out of TargetCertain is Run's fallback to failed after staging
\* (recovery could not be recorded): every commit, every recovery, every close
\* of an interrupted operation and every restart keeps them in step.
OnlyFallbackLosesTarget ==
    (lock = NoOp /\ ~(~target.dirty /\ target.version = Installed)) =>
        \E o \in Ops : /\ journal[o] # NoJournal
                       /\ Phase(journal[o]) = "failed"
                       /\ "staged" \in Seen(journal[o])
                       /\ "recovery-started" \notin Seen(journal[o])

\* Whoever is changing the target holds the deployment lock with an operation
\* whose journal tells a restart that the target may have been changed
\* (ADR-0009: prepared and backup-complete stopped before staging and apply).
MutationUnderLock ==
    \A s \in Callers :
        At(s, "apply") \/ At(s, "recover") =>
            /\ Holds(Op(s))
            /\ Phase(journal[Op(s)]) \in {"staged", "recovery-started"}

\* Recovery is given the safety backup its own operation took of the version it
\* has to bring back, whether the session that took it or a later one recovers.
RecoveryUsesOwnBackup ==
    \A s \in Callers :
        At(s, "recover") /\ TakesBackup(Kind(s)) =>
            LET b == session[s].safety IN
            /\ b # NoBackup
            /\ backups[b] = [op |-> Op(s), version |-> session[s].request.from]

\* A journal never says more than happened: when it says applied or verified,
\* what the operation was to bring is in place, and nobody changed it since.
VerifiedIsDeployed ==
    \A o \in Ops :
        Holds(o) /\ Readable(o) /\ Phase(journal[o]) \in {"applied", "verified"} =>
            /\ ~target.dirty
            /\ target.version = IF journal[o].kind = "uninstall" THEN NoVersion
                                                               ELSE journal[o].to

\* The operations that hold the lock and have not ended.
OpenOps == { o \in Ops : Holds(o) /\ Readable(o) /\ Phase(journal[o]) \notin Terminal }

\* No operation stays open for ever, however often the process crashes and
\* writes fail: it commits, is recovered or is closed.
OperationsClose == OpenOps # {} ~> OpenOps = {}
=============================================================================
