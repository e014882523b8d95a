---------------------- MODULE LifecycleStoreRefinement ----------------------
(***************************************************************************)
(* LifecycleStore implements LifecycleTransactions, for any number of      *)
(* operations, versions, backups and callers, any faults and any clock.    *)
(***************************************************************************)
EXTENDS LifecycleStoreProofs

\* The transaction that the journal of o stands for.
TransactionOf(o) == [op |-> o, kind |-> journal[o].kind,
                     from |-> journal[o].from, to |-> journal[o].to]

\* The status of an operation that owns the deployment and whose effect has
\* not been recorded, by the phase of its journal j.
StatusOf(j) ==
    CASE Phase(j) = "prepared"    -> "started"
      [] Phase(j) \in Phases \ (Terminal \cup {"prepared"}) -> "running"
      [] ChangesInstallation(j)   -> "pending"
      [] OTHER                    -> "done"

LEMMA OwnedState ==
    ASSUME NEW o \in Ops, lock = o, journal[o] # NoJournal
    PROVE  /\ Transaction = TransactionOf(o)
           /\ Status = IF AlreadyRecorded(record, o) THEN "done" ELSE StatusOf(journal[o])
BY DEF Transaction, TransactionOf, Status, StatusOf, Owned

LEMMA FreeState ==
    ASSUME lock \notin Ops \/ journal[lock] = NoJournal
    PROVE  Transaction = NoTransaction /\ Status = "done"
BY DEF Transaction, Status, Owned

\* The four statuses.
LEMMA StatusByPhase ==
    ASSUME NEW j \in Journals, Phase(j) \in Phases
    PROVE  /\ Phase(j) = "prepared" => StatusOf(j) = "started"
           /\ Phase(j) \in Phases \ (Terminal \cup {"prepared"}) => StatusOf(j) = "running"
           /\ Phase(j) \in Terminal =>
                 StatusOf(j) = IF ChangesInstallation(j) THEN "pending" ELSE "done"
<1>1. CASE Phase(j) = "prepared"
  BY <1>1 DEF StatusOf, Terminal, ChangesInstallation
<1>2. CASE Phase(j) \in Phases \ (Terminal \cup {"prepared"})
  BY <1>2 DEF StatusOf, Terminal, ChangesInstallation
<1>3. CASE Phase(j) \in Terminal /\ ChangesInstallation(j)
  BY <1>3 DEF StatusOf, Terminal, ChangesInstallation
<1>4. CASE Phase(j) \in Terminal /\ ~ChangesInstallation(j)
  BY <1>4 DEF StatusOf, Terminal, ChangesInstallation
<1> QED
  BY <1>1, <1>2, <1>3, <1>4

-----------------------------------------------------------------------------
(* Each way a step changes the disk is a step of a transaction, or none.   *)

AbstractStep == [Abstract!Next]_(Abstract!vars)

LEMMA RestRefines == Rest \/ Acquire => AbstractStep
<1>1. CASE Rest
  BY <1>1 DEF Rest, Transaction, Status, Installed, Owned, AbstractStep, Abstract!vars
<1>2. CASE Acquire
  <2>1. Transaction = NoTransaction /\ Status = "done"
    BY <1>2, FreeState DEF Acquire
  <2>2. Transaction' = NoTransaction /\ Status' = "done"
    BY <1>2 DEF Acquire, Transaction, Status, Owned, NoTransaction
  <2>3. Installed' = Installed
    BY <1>2 DEF Acquire, Installed
  <2> QED
    BY <2>1, <2>2, <2>3 DEF AbstractStep, Abstract!vars
<1> QED
  BY <1>1, <1>2

\* Opening a journal starts a transaction.
LEMMA OpenRefines ==
    ASSUME TypeOK, InventoryEarned, NEW q \in ValidRequests, Open(q)
    PROVE  AbstractStep
<1> DEFINE t == [op |-> q.op, kind |-> q.kind, from |-> q.from, to |-> q.to]
<1>1. /\ q \in Requests /\ q.op \in Ops /\ journal[q.op] = NoJournal
      /\ journal'[q.op] = NewJournal(q, clock)
      /\ journal'[q.op] \in Journals /\ Phase(journal'[q.op]) = "prepared"
  BY OpenedJournal
<1>2. lock = q.op /\ lock' = q.op /\ record' = record
  BY DEF Open
<1>3. Transaction = NoTransaction /\ Status = "done"
  BY <1>1, <1>2, FreeState
<1>4. journal'[q.op] # NoJournal
  BY <1>1, JournalSentinelAssumption
<1>5. Transaction' = t
  BY <1>1, <1>2, <1>4 DEF Transaction, Owned, NewJournal
<1>6. ~AlreadyRecorded(record, q.op)
  BY <1>1 DEF InventoryEarned, Readable, AlreadyRecorded
<1>7. Status' = "started"
  <2>1. Status' = StatusOf(journal'[q.op])
    BY <1>1, <1>2, <1>4, <1>6 DEF Status, StatusOf, Owned
  <2> QED
    BY <1>1, <2>1, StatusByPhase DEF Phases
<1>8. (q.kind = "install") <=> (q.from = NoVersion)
  BY DEF ValidRequests, RequestValid, OperationVersionsValid
<1>9. q.from = Installed /\ Installed' = Installed
  BY <1>2, <1>8 DEF Open, CurrentStateAllows, Installed
<1>10. t \in Abstract!Transactions
  BY <1>1 DEF Abstract!Transactions, Abstract!Kinds, Kinds, Requests
<1>11. Abstract!Start(t)
  BY <1>3, <1>5, <1>7, <1>8, <1>9 DEF Abstract!Start
<1> QED
  BY <1>10, <1>11 DEF AbstractStep, Abstract!Next

\* A new phase lets the transaction run, or ends it.
LEMMA ExtendRefines ==
    ASSUME TypeOK, InventoryEarned, NEW o \in Ops, NEW p \in Phases,
           NEW b \in BackupIds \cup {NoBackup}, Extend(o, p, b)
    PROVE  AbstractStep
<1> DEFINE j == journal[o]
           k == journal'[o]
<1>1. /\ j \in Journals /\ k \in Journals
      /\ Phase(k) = p /\ <<Phase(j), p>> \in Transitions
      /\ k.kind = j.kind /\ k.from = j.from /\ k.to = j.to
  BY ExtendedJournal
<1>2. lock = o /\ lock' = o /\ record' = record
  BY DEF Extend
<1>3. j # NoJournal /\ k # NoJournal
  BY <1>1, JournalSentinelAssumption
<1>4. Phase(j) \in Phases \ Terminal /\ p # "prepared"
  BY <1>1 DEF Transitions, Phases, Terminal
<1>5. ~AlreadyRecorded(record, o)
  BY <1>4 DEF InventoryEarned, AlreadyRecorded, Terminal
<1>6. Transaction = TransactionOf(o) /\ Status = StatusOf(j)
  BY <1>2, <1>3, <1>5, OwnedState
<1>7. Transaction' = TransactionOf(o) /\ Status' = StatusOf(k)
  BY <1>1, <1>2, <1>3, <1>5 DEF Transaction, TransactionOf, Status, StatusOf, Owned
<1>8. Installed' = Installed
  BY <1>2 DEF Installed
<1>9. Status = IF Phase(j) = "prepared" THEN "started" ELSE "running"
  BY <1>1, <1>4, <1>6, StatusByPhase
<1>10. CASE p \notin Terminal
  <2>1. Status' = "running"
    BY <1>1, <1>4, <1>7, <1>10, StatusByPhase
  <2> QED
    BY <1>6, <1>7, <1>8, <1>9, <2>1
    DEF AbstractStep, Abstract!vars, Abstract!Next, Abstract!Run
<1>11. CASE p \in Terminal /\ ChangesInstallation(k)
  <2>1. Status' = "pending"
    BY <1>1, <1>7, <1>11, StatusByPhase
  <2>2. j.kind # "backup" /\ Phase(j) # "prepared"
    BY <1>1, <1>11 DEF ChangesInstallation, Transitions
  <2>3. Transaction.kind # "backup"
    BY <1>6, <2>2 DEF TransactionOf
  <2>4. Abstract!End
    BY <1>6, <1>7, <1>8, <1>9, <2>1, <2>2, <2>3 DEF Abstract!End
  <2> QED
    BY <2>4 DEF AbstractStep, Abstract!Next
<1>12. CASE p \in Terminal /\ ~ChangesInstallation(k)
  <2>1. Status' = "done"
    BY <1>1, <1>7, <1>12, StatusByPhase
  <2>2. Abstract!End
    BY <1>6, <1>7, <1>8, <1>9, <2>1 DEF Abstract!End
  <2> QED
    BY <2>2 DEF AbstractStep, Abstract!Next
<1> QED
  BY <1>10, <1>11, <1>12

\* Recording the effect settles the transaction; repeating it does nothing.
LEMMA ProjectRefines == ASSUME TypeOK, Project PROVE AbstractStep
<1> DEFINE j == journal[lock]
<1>1. /\ lock \in Ops /\ lock' = lock /\ j \in Journals /\ journal' = journal
      /\ RecordAllowed(record, lock, j)
      /\ record' = RecordAfter(record, lock, j)
  BY DEF Project
<1>2. CASE AlreadyRecorded(record, lock)
  <2>1. record' = record
    BY <1>1, <1>2 DEF RecordAfter
  <2> QED
    BY <1>1, <2>1 DEF Transaction, Status, Installed, Owned, AbstractStep, Abstract!vars
<1>3. CASE ~AlreadyRecorded(record, lock)
  <2>1. j # NoJournal /\ ChangesInstallation(j) /\ Phase(j) \in Terminal
    BY <1>1, JournalSentinelAssumption DEF RecordAllowed, ChangesInstallation, Terminal
  <2>2. Transaction = TransactionOf(lock) /\ Status = StatusOf(j)
    BY <1>1, <1>3, <2>1, OwnedState
  <2>3. Status = "pending"
    BY <1>1, <2>1, <2>2, StatusByPhase DEF Phases, Terminal
  <2>4. record' \in InstallationRecords /\ record' = ProjectedRecord(record, lock, j)
    BY <1>1, <1>3, ProjectionType DEF TypeOK, RecordAfter
  <2>5. AlreadyRecorded(record', lock)
    BY <2>4, RecordSentinelAssumption DEF AlreadyRecorded, ProjectedRecord
  <2>6. Transaction' = Transaction
    BY <1>1 DEF Transaction, Owned
  <2>7. Status' = "done"
    BY <1>1, <2>5 DEF Status
  <2>8. Installed' = IF j.kind = "uninstall" THEN NoVersion ELSE j.to
    BY <2>4, RecordSentinelAssumption DEF Installed, IsActive, ProjectedRecord
  <2>9. Abstract!Settle
    BY <2>2, <2>3, <2>6, <2>7, <2>8 DEF Abstract!Settle, TransactionOf
  <2> QED
    BY <2>9 DEF AbstractStep, Abstract!Next
<1> QED
  BY <1>2, <1>3

\* Removing the lock releases the deployment.
LEMMA ReleaseRefines == ASSUME TypeOK, Release PROVE AbstractStep
<1> DEFINE j == journal[lock]
<1>1. lock \in Ops /\ lock' = NoOp /\ j \in Journals /\ record' = record
  BY DEF Release
<1>2. j # NoJournal
  BY <1>1, JournalSentinelAssumption
<1>3. /\ Transaction = TransactionOf(lock)
      /\ Status = IF AlreadyRecorded(record, lock) THEN "done" ELSE StatusOf(j)
  BY <1>1, <1>2, OwnedState
<1>4. Transaction # NoTransaction
  BY <1>1, <1>3, SentinelAssumption DEF TransactionOf, NoTransaction
<1>5. Status \in {"done", "started"}
  BY <1>1, <1>3, StatusByPhase DEF Release, Phases, Terminal
<1>6. Transaction' = NoTransaction /\ Status' = "done"
  BY <1>1, SentinelAssumption DEF Transaction, Status, Owned, NoTransaction
<1>7. Installed' = Installed
  BY <1>1 DEF Installed
<1>8. Abstract!Release
  BY <1>4, <1>5, <1>6, <1>7 DEF Abstract!Release
<1> QED
  BY <1>8 DEF AbstractStep, Abstract!Next

\* Operations are transactions that run one at a time from the installed
\* version and change the inventory exactly once.
THEOREM StoreImplementsTransactions == Spec => ImplementsTransactions
<1> DEFINE Inv == TypeOK /\ CallOK /\ InventoryEarned
<1>1. Init => Inv
  BY MaxTimeAssumption
  DEF Init, TypeOK, CallOK, InventoryEarned, Idle, Calls, Steps, BackupRecords, Times
<1>2. Inv /\ [Next]_vars => Inv'
  BY TypeStep, CallStep, StepsOfTheDisk, InventoryStep
<1>3. Init => Abstract!Init
  BY SentinelAssumption
  DEF Init, Abstract!Init, Transaction, Status, Installed, Owned, IsActive
<1>4. Inv /\ [Next]_vars => [Abstract!Next]_(Abstract!vars)
  BY StepsOfTheDisk, RestRefines, OpenRefines, ExtendRefines, ProjectRefines,
     ReleaseRefines
  DEF DiskStep, AbstractStep
<1> HIDE DEF Inv
<1> QED
  BY <1>1, <1>2, <1>3, <1>4, PTL DEF Spec, ImplementsTransactions, Abstract!Spec
=============================================================================
