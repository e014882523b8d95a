-------------------------- MODULE LifecycleJournal --------------------------
(***************************************************************************)
(* The durable records of one deployment and the pure rules over them:     *)
(* internal/lifecycle/journal.go and installations.go, without any file    *)
(* access.  A plan is reduced to the version it releases, a digest or a    *)
(* hash to the thing it identifies: the plan and the hash chain of a       *)
(* journal read back are the ones written, since only the store writes     *)
(* them and it replaces whole files.                                       *)
(***************************************************************************)
EXTENDS Naturals, Sequences

CONSTANTS
    Ops,         \* operation identities (randomID)
    Versions,    \* immutable release versions
    BackupIds,   \* identities of backup records
    MaxTime,     \* bound of the wall clock
    NoOp,        \* no operation identity
    NoVersion,   \* the empty fromVersion
    NoBackup,    \* the empty backup identity
    NoJournal,   \* the journal file does not exist
    NoRecord     \* installation.json does not exist

ASSUME MaxTimeAssumption == MaxTime \in Nat
ASSUME SentinelAssumption ==
    /\ NoOp \notin Ops
    /\ NoVersion \notin Versions
    /\ NoBackup \notin BackupIds

Times == 0..MaxTime

-----------------------------------------------------------------------------
(* Kinds, phases and the phase graph.                                      *)

Kinds == {"install", "update", "backup", "restore", "repair", "rollback",
          "uninstall"}

Phases == {"prepared", "backup-complete", "staged", "applied", "verified",
           "committed", "recovery-started", "recovered", "failed"}

Terminal == {"committed", "recovered", "failed"}

Transitions ==
    UNION { {"prepared"} \X {"backup-complete", "staged", "applied", "failed"},
            {"backup-complete"} \X {"staged", "applied", "committed", "failed"},
            {"staged"} \X {"applied", "recovery-started", "failed"},
            {"applied"} \X {"verified", "recovery-started", "failed"},
            {"verified"} \X {"committed", "recovery-started", "failed"},
            {"recovery-started"} \X {"recovered", "failed"} }

\* Kinds that name the backup they start from.
TakesInput(kind) == kind \in {"restore", "rollback"}

\* Every kind but install names the version it starts from.
OperationVersionsValid(kind, from) == (kind = "install") <=> (from = NoVersion)

\* The phases a kind must have gone through before it may commit.
RequiredPhases ==
    [kind \in Kinds |->
       CASE kind = "install"   -> {"staged", "applied", "verified"}
         [] kind = "update"    -> {"backup-complete", "staged", "applied", "verified"}
         [] kind = "backup"    -> {"backup-complete"}
         [] kind = "uninstall" -> {"applied"}
         [] OTHER              -> {"backup-complete", "applied", "verified"}]

-----------------------------------------------------------------------------
(* Journals.                                                               *)

Events == [phase : Phases, ref : BackupIds \cup {NoBackup}, time : Times]

Journals == [kind : Kinds, from : Versions \cup {NoVersion}, to : Versions,
             input : BackupIds \cup {NoBackup}, events : Seq(Events)]

ASSUME JournalSentinelAssumption == NoJournal \notin Journals

Phase(j) == j.events[Len(j.events)].phase

UpdatedAt(j) == j.events[Len(j.events)].time

StartedAt(j) == j.events[1].time

Seen(j) == { j.events[i].phase : i \in DOMAIN j.events }

CommitSequenceValid(j) == RequiredPhases[j.kind] \subseteq Seen(j)

\* Journal.Validate: what every read of a journal file requires of it.
JournalValid(j) ==
    /\ Len(j.events) > 0
    /\ OperationVersionsValid(j.kind, j.from)
    /\ TakesInput(j.kind) <=> j.input # NoBackup
    /\ \A i \in 2..Len(j.events) :
          /\ j.events[i-1].time <= j.events[i].time
          /\ <<j.events[i-1].phase, j.events[i].phase>> \in Transitions
    /\ \A i \in DOMAIN j.events :
          j.events[i].phase = "backup-complete" => j.events[i].ref # NoBackup
    /\ Phase(j) = "committed" => CommitSequenceValid(j)

AppendEvent(j, phase, ref, time) ==
    [j EXCEPT !.events = Append(@, [phase |-> phase, ref |-> ref, time |-> time])]

\* Mutant: every recovered operation is projected, not only an uninstall.
MutChangesInstallation(j) ==
    Phase(j) \in {"committed", "recovered"} /\ j.kind # "backup"

\* A phase whose journal must be projected onto the installation record.
ChangesInstallation(j) ==
    \/ Phase(j) = "committed" /\ j.kind # "backup"
    \/ Phase(j) = "recovered" /\ j.kind = "uninstall"

-----------------------------------------------------------------------------
(* The installation record: the projection of the committed operations.    *)
(* A final event hash is the position of the event in its own journal.     *)

InstallationRecords ==
    [state : {"active", "uninstalled"}, version : Versions,
     installedAt : Times, updatedAt : Times,
     lastOp : Ops, lastKind : Kinds, lastEvent : Nat]

ASSUME RecordSentinelAssumption == NoRecord \notin InstallationRecords

IsActive(r) == r # NoRecord /\ r.state = "active"

RecordValid(r) ==
    /\ r.installedAt <= r.updatedAt
    /\ r.state = "uninstalled" => r.lastKind = "uninstall"
    /\ r.state = "active" => r.lastKind \notin {"backup", "uninstall"}

\* Mutant: an install does not look for an active installation.
MutCurrentStateAllows(r, kind, from) ==
    kind = "install" \/ (IsActive(r) /\ r.version = from)

\* validateOperationCurrentStateLocked: may an operation of this kind, from
\* this version, begin on the recorded installation?
CurrentStateAllows(r, kind, from) ==
    IF kind = "install" THEN ~IsActive(r) ELSE IsActive(r) /\ r.version = from

AlreadyRecorded(r, o) == r # NoRecord /\ r.lastOp = o

\* Mutant: an uninstall clears the recorded version.
MutProjectedRecord(r, o, j) ==
    [state       |-> IF j.kind = "uninstall" THEN "uninstalled" ELSE "active",
     version     |-> IF j.kind = "uninstall" THEN NoVersion ELSE j.to,
     installedAt |-> IF j.kind = "install" THEN StartedAt(j) ELSE r.installedAt,
     updatedAt   |-> UpdatedAt(j),
     lastOp |-> o, lastKind |-> j.kind, lastEvent |-> Len(j.events)]

\* The record that operation o with journal j leaves behind on top of r.
ProjectedRecord(r, o, j) ==
    LET removal == j.kind = "uninstall" IN
    [state       |-> IF removal THEN "uninstalled" ELSE "active",
     version     |-> IF removal THEN r.version ELSE j.to,
     installedAt |-> IF j.kind = "install" THEN StartedAt(j) ELSE r.installedAt,
     updatedAt   |-> UpdatedAt(j),
     lastOp      |-> o,
     lastKind    |-> j.kind,
     lastEvent   |-> Len(j.events)]

\* recordInstallationLocked succeeds: either the record is already the
\* projection of this very journal, or the journal may advance it.
RecordAllowed(r, o, j) ==
    /\ JournalValid(j)
    /\ ChangesInstallation(j)
    /\ IF AlreadyRecorded(r, o)
         THEN r.lastEvent = Len(j.events)
         ELSE /\ CurrentStateAllows(r, j.kind, j.from)
              /\ RecordValid(ProjectedRecord(r, o, j))

RecordAfter(r, o, j) ==
    IF AlreadyRecorded(r, o) THEN r ELSE ProjectedRecord(r, o, j)
=============================================================================
