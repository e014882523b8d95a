--------------------------- MODULE LifecycleStore ---------------------------
(***************************************************************************)
(* lifecycle.Store for one deployment: the lock file "active", the         *)
(* operation journals, installation.json and the backup records, and the   *)
(* handlers of one process that write them.  Handlers of a process exclude *)
(* one another (Store.mu), so `call' is the one in progress; each of its   *)
(* steps performs one durable write, between which the process may stop.   *)
(* What is on disk survives; `call' and `reply' do not.                    *)
(***************************************************************************)
EXTENDS LifecycleJournal, FiniteSets

CONSTANTS
    Callers,   \* the goroutines (HTTP requests) that call the store
    NoCaller,
    Blank,     \* a lock file created but not yet written
    Faults     \* what may go wrong: "crash", "write" (a file write or removal
               \* fails), "clock" (the wall clock is set back)

ASSUME FaultsAssumption == Faults \subseteq {"crash", "write", "clock"}
ASSUME CallerAssumption == NoCaller \notin Callers
ASSUME BlankAssumption == Blank \notin Ops /\ Blank # NoOp

VARIABLES
    lock,      \* content of the file "active"; NoOp when it does not exist
    journal,   \* operations/<id>.json
    record,    \* installation.json
    backups,   \* backups/<id>.json
    clock,     \* wall clock
    call,      \* the handler holding Store.mu
    reply      \* what the last call of each caller returned

disk == <<lock, journal, record, backups>>
vars == <<lock, journal, record, backups, clock, call, reply>>

-----------------------------------------------------------------------------
(* Types.                                                                  *)

\* The arguments of BeginWithInputBackup, with the identity randomID gives.
Requests == [op : Ops, kind : Kinds, from : Versions \cup {NoVersion},
             to : Versions, input : BackupIds \cup {NoBackup}]

\* The next durable write of the handler in progress.
Steps == {"idle", "record", "unlock", "create", "lock", "journal", "plan"}

\* `closing' is the operation whose lock is finalized, `begin' the singleton
\* of the request a Begin goes on with.
Calls == [at : Steps, caller : Callers \cup {NoCaller},
          closing : Ops \cup {NoOp}, begin : SUBSET Requests]

Idle == [at |-> "idle", caller |-> NoCaller, closing |-> NoOp, begin |-> {}]

BackupRecords == [op : Ops, version : Versions \cup {NoVersion}]

NoBackupRecord == [op |-> NoOp, version |-> NoVersion]

TypeOK ==
    /\ lock \in Ops \cup {NoOp, Blank}
    /\ journal \in [Ops -> Journals \cup {NoJournal}]
    /\ record \in InstallationRecords \cup {NoRecord}
    /\ backups \in [BackupIds -> BackupRecords \cup {NoBackupRecord}]
    /\ clock \in Times
    /\ call \in Calls
    /\ reply \in [Callers -> {"none", "ok", "error"}]

Init ==
    /\ lock = NoOp
    /\ journal = [o \in Ops |-> NoJournal]
    /\ record = NoRecord
    /\ backups = [b \in BackupIds |-> NoBackupRecord]
    /\ clock = 0
    /\ call = Idle
    /\ reply = [c \in Callers |-> "none"]

-----------------------------------------------------------------------------
(* Reading the disk, and the three ways a handler goes on.                 *)

\* readJournal succeeds.
Readable(o) == o \in Ops /\ journal[o] # NoJournal /\ JournalValid(journal[o])

Holds(o) == o \in Ops /\ lock = o

Go(step) == call' = [call EXCEPT !.at = step] /\ UNCHANGED reply

Return(c, result) == call' = Idle /\ reply' = [reply EXCEPT ![c] = result]

\* A call that fails before any write.
Reject(c) == Return(c, "error") /\ UNCHANGED <<disk, clock>>

\* A write of the handler in progress fails and it returns the error.
WriteFails == "write" \in Faults /\ Return(call.caller, "error")

\* The deferred cleanup of Begin removes the lock again, if it can: its error
\* is ignored.
BeginWriteFails == WriteFails /\ lock' \in {NoOp, lock}

Enter(c, step, closing, begin) ==
    /\ call' = [at |-> step, caller |-> c, closing |-> closing, begin |-> begin]
    /\ reply' = [reply EXCEPT ![c] = "none"]

\* Mutant: the lock is released without finalizing the record.
MutFinalization(j) == "unlock"

\* The write that comes after a journal reached its phase.
Finalization(j) == IF ChangesInstallation(j) THEN "record" ELSE "unlock"

-----------------------------------------------------------------------------
(* BeginWithInputBackup.                                                   *)

\* What Begin requires of its arguments before it reads anything.
RequestValid(q) ==
    /\ OperationVersionsValid(q.kind, q.from)
    /\ TakesInput(q.kind) <=> q.input # NoBackup

ValidRequests == { q \in Requests : RequestValid(q) }

\* No operation is active: go on to the checks of the current state.
BeginUnlocked(c, q) ==
    /\ lock = NoOp
    /\ Enter(c, "create", NoOp, {q})
    /\ UNCHANGED <<disk, clock>>

\* Mutant: any readable operation is taken for an ended one.
MutBeginReconciles(c, q) ==
    /\ Readable(lock)
    /\ Enter(c, Finalization(journal[lock]), lock, {q})
    /\ UNCHANGED <<disk, clock>>

\* The lock of an operation that ended was left behind: finish it first.
BeginReconciles(c, q) ==
    /\ Readable(lock)
    /\ Phase(journal[lock]) \in Terminal
    /\ Enter(c, Finalization(journal[lock]), lock, {q})
    /\ UNCHANGED <<disk, clock>>

\* An operation is in progress, or the lock or its journal cannot be read.
BeginRefused(c, q) ==
    /\ lock # NoOp
    /\ ~(Readable(lock) /\ Phase(journal[lock]) \in Terminal)
    /\ Reject(c)

Begin(c, q) ==
    /\ call = Idle
    /\ journal[q.op] = NoJournal
    /\ BeginUnlocked(c, q) \/ BeginReconciles(c, q) \/ BeginRefused(c, q)

\* Mutant: the lock is taken without looking at the installation record.
MutCreateLock ==
    /\ call.at = "create" /\ lock = NoOp
    /\ lock' = Blank /\ Go("lock")
    /\ UNCHANGED <<journal, record, backups, clock>>

\* validateOperationCurrentStateLocked, then O_CREATE|O_EXCL of the lock.
CreateLock ==
    /\ call.at = "create"
    /\ \E q \in call.begin :
         \/ /\ CurrentStateAllows(record, q.kind, q.from)
            /\ lock = NoOp
            /\ lock' = Blank
            /\ Go("lock")
         \/ /\ ~CurrentStateAllows(record, q.kind, q.from)
            /\ Return(call.caller, "error") /\ UNCHANGED lock
         \/ WriteFails /\ UNCHANGED lock
    /\ UNCHANGED <<journal, record, backups, clock>>

WriteLock ==
    /\ call.at = "lock"
    /\ \/ (\E q \in call.begin : lock' = q.op) /\ Go("journal")
       \/ BeginWriteFails
    /\ UNCHANGED <<journal, record, backups, clock>>

NewJournal(q, time) ==
    [kind |-> q.kind, from |-> q.from, to |-> q.to, input |-> q.input,
     events |-> << [phase |-> "prepared", ref |-> NoBackup, time |-> time] >>]

WriteFirstJournal ==
    /\ call.at = "journal"
    /\ \/ /\ \E q \in call.begin :
               journal' = [journal EXCEPT ![q.op] = NewJournal(q, clock)]
          /\ Go("plan") /\ UNCHANGED lock
       \/ BeginWriteFails /\ UNCHANGED journal
    /\ UNCHANGED <<record, backups, clock>>

\* The plan copy beside the journal; failing it abandons a written journal.
WritePlan ==
    /\ call.at = "plan"
    /\ \/ Return(call.caller, "ok") /\ UNCHANGED lock
       \/ BeginWriteFails
    /\ UNCHANGED <<journal, record, backups, clock>>

-----------------------------------------------------------------------------
(* TransitionWithReference.                                                *)

\* Mutant: a commit does not check the phases its kind requires.
MutTransitionAllowed(j, next, ref) ==
    /\ <<Phase(j), next>> \in Transitions
    /\ next = "backup-complete" => ref # NoBackup

TransitionAllowed(j, next, ref) ==
    /\ <<Phase(j), next>> \in Transitions
    /\ next = "backup-complete" => ref # NoBackup
    /\ next = "committed" => CommitSequenceValid(j)

\* Repeating the commit of a committed journal only finalizes it.
TransitionRepeated(c, o, next) ==
    /\ Phase(journal[o]) = "committed" /\ next = "committed"
    /\ Enter(c, Finalization(journal[o]), o, {})
    /\ UNCHANGED <<disk, clock>>

TransitionWritten(c, o, next, ref) ==
    /\ TransitionAllowed(journal[o], next, ref)
    /\ LET j == AppendEvent(journal[o], next, ref, clock) IN
         /\ journal' = [journal EXCEPT ![o] = j]
         /\ IF next \in Terminal THEN Enter(c, Finalization(j), o, {})
                                 ELSE Return(c, "ok")
    /\ UNCHANGED <<lock, record, backups, clock>>

TransitionRefused(c, o, next, ref) ==
    /\ LET owned == Holds(o) /\ Readable(o)
           legal == owned /\ TransitionAllowed(journal[o], next, ref)
       IN  \/ "write" \in Faults /\ legal
           \/ ~legal /\ ~(owned /\ Phase(journal[o]) = "committed" /\ next = "committed")
    /\ Reject(c)

Transition(c, o, next, ref) ==
    /\ call = Idle
    /\ \/ /\ Holds(o) /\ Readable(o)
          /\ TransitionRepeated(c, o, next) \/ TransitionWritten(c, o, next, ref)
       \/ TransitionRefused(c, o, next, ref)

-----------------------------------------------------------------------------
(* Finalization, shared by Transition and by the reconciliation in Begin.  *)

WriteRecord ==
    /\ call.at = "record"
    /\ LET o == call.closing IN
       \/ /\ RecordAllowed(record, o, journal[o])
          /\ record' = RecordAfter(record, o, journal[o])
          /\ Go("unlock")
       \/ /\ ~RecordAllowed(record, o, journal[o])
          /\ Return(call.caller, "error") /\ UNCHANGED record
       \/ WriteFails /\ UNCHANGED record
    /\ UNCHANGED <<lock, journal, backups, clock>>

\* removeLock; a Begin goes on, a Transition returns.
RemoveLock ==
    /\ call.at = "unlock"
    /\ \/ /\ lock = call.closing
          /\ lock' = NoOp
          /\ IF call.begin = {} THEN Return(call.caller, "ok") ELSE Go("create")
       \/ /\ lock # call.closing
          /\ Return(call.caller, "error") /\ UNCHANGED lock
       \/ WriteFails /\ UNCHANGED lock
    /\ UNCHANGED <<journal, record, backups, clock>>

-----------------------------------------------------------------------------
(* RecordBackup: one file, named by a fresh identity.                      *)

TakesBackup(kind) == kind \in {"update", "backup", "restore", "rollback", "repair"}

BackupAllowed(o) ==
    /\ Holds(o) /\ Readable(o)
    /\ Phase(journal[o]) = "prepared"
    /\ TakesBackup(journal[o].kind)

RecordBackup(c, o, b) ==
    /\ call = Idle
    /\ backups[b] = NoBackupRecord
    /\ \/ /\ BackupAllowed(o)
          /\ backups' = [backups EXCEPT ![b] = [op |-> o, version |-> journal[o].from]]
          /\ Return(c, "ok")
          /\ UNCHANGED <<lock, journal, record, clock>>
       \/ ("write" \in Faults \/ ~BackupAllowed(o)) /\ Reject(c)

-----------------------------------------------------------------------------
(* The process and its clock.                                              *)

\* The process stops: the handler in progress and its caller are gone.
Crash ==
    /\ "crash" \in Faults
    /\ call' = Idle
    /\ reply' = [c \in Callers |-> "none"]
    /\ UNCHANGED <<disk, clock>>

Tick ==
    /\ \E t \in Times : (t > clock \/ "clock" \in Faults) /\ clock' = t
    /\ UNCHANGED <<disk, call, reply>>

\* The steps a handler takes on its own once it was called.
HandlerStep ==
    \/ CreateLock \/ WriteLock \/ WriteFirstJournal \/ WritePlan
    \/ WriteRecord \/ RemoveLock

\* The references the coordinator passes with a transition.
References(p) ==
    CASE p = "backup-complete"  -> BackupIds
      [] p = "recovery-started" -> BackupIds \cup {NoBackup}
      [] OTHER                  -> {NoBackup}

Next ==
    \/ \E c \in Callers, q \in ValidRequests : Begin(c, q)
    \/ \E c \in Callers, o \in Ops, p \in Phases : \E b \in References(p) :
          Transition(c, o, p, b)
    \/ \E c \in Callers, o \in Ops, b \in BackupIds : RecordBackup(c, o, b)
    \/ HandlerStep
    \/ Crash
    \/ Tick

Spec == Init /\ [][Next]_vars

-----------------------------------------------------------------------------
(* Properties.                                                             *)

\* Every journal the store wrote can be read back: what Transition accepts and
\* writes is what Journal.Validate accepts.
JournalsReadable == \A o \in Ops : journal[o] # NoJournal => Readable(o)

\* A journal that owes the inventory its effect can always be projected onto
\* it, however late the finalization is retried (ADR-0006): nothing that
\* happened since Begin checked fromVersion has made recordInstallationLocked
\* refuse it, so the lock of a finished operation can always be released.
FinalizationPossible ==
    \A o \in Ops :
        Holds(o) /\ Readable(o) /\ ChangesInstallation(journal[o])
            => RecordAllowed(record, o, journal[o])

\* The inventory is earned: the recorded operation is committed, or is an
\* uninstall whose recovery completed, and the record says what that journal
\* says, whatever failed writes and restarts lie between.
InventoryEarned ==
    record # NoRecord =>
        LET j == journal[record.lastOp] IN
        /\ Readable(record.lastOp)
        /\ \/ Phase(j) = "committed" /\ j.kind # "backup"
           \/ Phase(j) = "recovered" /\ j.kind = "uninstall"
        /\ record.lastKind = j.kind
        /\ record.lastEvent = Len(j.events)
        /\ IF j.kind = "uninstall" THEN record.state = "uninstalled" /\ record.version = j.from
                                   ELSE record.state = "active" /\ record.version = j.to

\* No operation that went past its first phase is ever forgotten: until it
\* ends, the deployment lock names it (ADR-0002, "never silently discard an
\* incomplete journal").
OpenOperationsLocked ==
    \A o \in Ops :
        journal[o] # NoJournal /\ Phase(journal[o]) \notin Terminal \cup {"prepared"}
            => lock = o

\* The lock of an operation that owes the inventory its effect is released
\* only after the record names that operation (ADR-0006, "before the
\* operation lock is released").
ReleasedAfterRecorded ==
    [][\A o \in Ops : (lock = o /\ lock' # o) =>
          \/ journal[o] = NoJournal
          \/ ~ChangesInstallation(journal[o])
          \/ record # NoRecord /\ record.lastOp = o]_vars

\* The lock that is left when no handler runs names an operation that can be
\* inspected and recovered (ADR-0009, "Interrupted work is visible and
\* recoverable without [...] editing Ranch Hand state files").
InterruptedWorkVisible == call = Idle /\ lock # NoOp => Readable(lock)

-----------------------------------------------------------------------------
(* The store implements the transactions of LifecycleTransactions.         *)

NoTransaction == [op |-> NoOp, kind |-> "none", from |-> NoVersion, to |-> NoVersion]

\* The operation that owns the deployment: the lock names it and it exists.
Owned == lock \in Ops /\ journal[lock] # NoJournal

Transaction ==
    IF Owned THEN [op |-> lock, kind |-> journal[lock].kind,
                   from |-> journal[lock].from, to |-> journal[lock].to]
             ELSE NoTransaction

Status ==
    IF ~Owned \/ AlreadyRecorded(record, lock) THEN "done"
    ELSE LET j == journal[lock] IN
         CASE Phase(j) = "prepared"    -> "started"
           [] Phase(j) \in Phases \ (Terminal \cup {"prepared"}) -> "running"
           [] ChangesInstallation(j)   -> "pending"
           [] OTHER                    -> "done"

Installed == IF IsActive(record) THEN record.version ELSE NoVersion

Abstract == INSTANCE LifecycleTransactions WITH
    transaction <- Transaction, status <- Status, installed <- Installed

\* Seen from outside, operations are transactions that run one at a time from
\* the installed version and change the inventory exactly once.
ImplementsTransactions == Abstract!Spec
=============================================================================
