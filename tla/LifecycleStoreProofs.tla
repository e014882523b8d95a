------------------------ MODULE LifecycleStoreProofs ------------------------
(***************************************************************************)
(* Theorems about LifecycleStore, for any number of operations, versions,  *)
(* backups and callers, any faults and any clock.                          *)
(***************************************************************************)
EXTENDS LifecycleStore, TLAPS

-----------------------------------------------------------------------------
(* Journals.                                                               *)

\* Appending an event keeps a journal a journal, makes its phase and its time
\* those of the event, and leaves the rest alone.
LEMMA AppendedJournal ==
    ASSUME NEW j \in Journals, NEW p \in Phases,
           NEW b \in BackupIds \cup {NoBackup}, NEW t \in Times
    PROVE  LET k == AppendEvent(j, p, b, t) IN
           /\ k \in Journals
           /\ Len(k.events) = Len(j.events) + 1
           /\ Phase(k) = p
           /\ UpdatedAt(k) = t
           /\ k.kind = j.kind /\ k.from = j.from /\ k.to = j.to /\ k.input = j.input
           /\ \A i \in 1..Len(j.events) : k.events[i] = j.events[i]
<1> DEFINE e == [phase |-> p, ref |-> b, time |-> t]
           k == AppendEvent(j, p, b, t)
<1>1. e \in Events
  BY DEF Events
<1>2. j.events \in Seq(Events)
  BY DEF Journals
<1>3. k.events = Append(j.events, e)
  BY DEF AppendEvent, Journals
<1>4. k.kind = j.kind /\ k.from = j.from /\ k.to = j.to /\ k.input = j.input
  BY DEF AppendEvent, Journals
<1>5. Append(j.events, e) \in Seq(Events)
  BY <1>1, <1>2
<1>6. k \in Journals
  BY <1>5 DEF AppendEvent, Journals
<1>7. /\ Len(k.events) = Len(j.events) + 1
      /\ k.events[Len(k.events)] = e
      /\ \A i \in 1..Len(j.events) : k.events[i] = j.events[i]
  BY <1>1, <1>2, <1>3
<1> QED
  BY <1>4, <1>6, <1>7 DEF Phase, UpdatedAt

\* The first journal of an operation.
LEMMA FirstJournal ==
    ASSUME NEW q \in Requests, NEW t \in Times
    PROVE  /\ NewJournal(q, t) \in Journals
           /\ Len(NewJournal(q, t).events) = 1
           /\ Phase(NewJournal(q, t)) = "prepared"
<1> DEFINE e == [phase |-> "prepared", ref |-> NoBackup, time |-> t]
<1>1. e \in Events
  BY DEF Events, Phases
<1>2. <<e>> \in Seq(Events) /\ Len(<<e>>) = 1 /\ <<e>>[1] = e
  BY <1>1
<1>3. NewJournal(q, t).events = <<e>>
  BY DEF NewJournal
<1>4. NewJournal(q, t) \in Journals
  BY <1>2 DEF NewJournal, Journals, Requests
<1> QED
  BY <1>2, <1>3, <1>4 DEF Phase

\* A projection is an installation record.
LEMMA ProjectionType ==
    ASSUME NEW r \in InstallationRecords \cup {NoRecord}, NEW o \in Ops,
           NEW j \in Journals, RecordAllowed(r, o, j)
    PROVE  RecordAfter(r, o, j) \in InstallationRecords
<1>1. CASE AlreadyRecorded(r, o)
  BY <1>1 DEF RecordAfter, AlreadyRecorded
<1>2. CASE ~AlreadyRecorded(r, o)
  <2>1. Len(j.events) \in Nat /\ Len(j.events) > 0 /\ j.events \in Seq(Events)
    BY DEF RecordAllowed, JournalValid, Journals
  <2>2. StartedAt(j) \in Times /\ UpdatedAt(j) \in Times
    <3> DEFINE n == Len(j.events)
    <3>1. j.events[1] \in Events /\ j.events[n] \in Events
      BY <2>1
    <3>2. \A e \in Events : e.time \in Times
      BY DEF Events
    <3> QED
      BY <3>1, <3>2 DEF StartedAt, UpdatedAt
  <2>3. j.kind \in Kinds /\ j.to \in Versions
    BY DEF Journals
  <2>4. j.kind # "install" => r \in InstallationRecords
    BY <1>2 DEF RecordAllowed, CurrentStateAllows, IsActive
  <2>5. j.kind = "uninstall" => j.kind # "install"
    OBVIOUS
  <2>6. ProjectedRecord(r, o, j) \in InstallationRecords
    BY <2>1, <2>2, <2>3, <2>4, <2>5 DEF ProjectedRecord, InstallationRecords
  <2> QED
    BY <1>2, <2>6 DEF RecordAfter
<1> QED
  BY <1>1, <1>2

-----------------------------------------------------------------------------
(* The handlers.                                                           *)

\* A journal that reads is a journal.
LEMMA ReadableType ==
    ASSUME TypeOK, NEW o, Readable(o)
    PROVE  o \in Ops /\ journal[o] \in Journals /\ JournalValid(journal[o])
BY DEF Readable, TypeOK

LEMMA EnterType ==
    ASSUME TypeOK, NEW c \in Callers, NEW step \in Steps,
           NEW closing \in Ops \cup {NoOp}, NEW begin \in SUBSET Requests,
           Enter(c, step, closing, begin)
    PROVE  /\ call' \in Calls
           /\ reply' \in [Callers -> {"none", "ok", "error"}]
BY DEF Enter, Calls, TypeOK

LEMMA ReturnType ==
    ASSUME TypeOK, NEW c, NEW result \in {"ok", "error"}, Return(c, result)
    PROVE  /\ call' \in Calls
           /\ reply' \in [Callers -> {"none", "ok", "error"}]
BY DEF Return, Idle, Calls, Steps, TypeOK

LEMMA GoType ==
    ASSUME TypeOK, NEW step \in Steps, Go(step)
    PROVE  /\ call' \in Calls
           /\ reply' \in [Callers -> {"none", "ok", "error"}]
BY DEF Go, Calls, TypeOK

LEMMA FinalizationStep ==
    ASSUME NEW j
    PROVE  Finalization(j) \in Steps
BY DEF Finalization, Steps

-----------------------------------------------------------------------------
(* The inductive invariant: TypeOK, and what the next step of the handler  *)
(* in progress relies on.                                                  *)

\* The operation whose request a Begin goes on with does not exist yet.
NewOperation(q) == q \in ValidRequests /\ journal[q.op] = NoJournal

CallOK ==
    /\ call.at = "idle" => call.begin = {}
    /\ call.at \in {"create", "lock", "journal", "plan"} =>
          \E q \in ValidRequests : call.begin = {q}
    /\ call.at \in {"create", "lock", "journal"} =>
          \A q \in call.begin : NewOperation(q)
    /\ call.at = "create" => lock = NoOp
    /\ call.at = "lock" => lock = Blank
    /\ call.at \in {"journal", "plan"} => \A q \in call.begin : lock = q.op
    /\ call.at = "plan" => /\ journal[lock] \in Journals
                           /\ Phase(journal[lock]) = "prepared"
    /\ call.at \in {"lock", "journal"} =>
          \A q \in call.begin : CurrentStateAllows(record, q.kind, q.from)
    /\ call.at \in {"record", "unlock"} =>
          /\ call.closing \in Ops
          /\ lock = call.closing
          /\ journal[lock] \in Journals
          /\ Phase(journal[lock]) \in Terminal
          /\ call.begin = {} \/ \E q \in ValidRequests : call.begin = {q} /\ NewOperation(q)
    /\ call.at = "unlock" /\ ChangesInstallation(journal[lock]) =>
          AlreadyRecorded(record, lock)

\* No handler, failed write, crash or tick of the clock leaves the disk or the
\* call in progress in another shape.
LEMMA TypeStep == TypeOK /\ CallOK /\ [Next]_vars => TypeOK'
<1> SUFFICES ASSUME TypeOK, CallOK, [Next]_vars PROVE TypeOK'
  OBVIOUS
<1> USE DEF TypeOK
<1>1. ASSUME NEW c \in Callers, NEW q \in ValidRequests, Begin(c, q)
      PROVE  TypeOK'
  <2>1. {q} \in SUBSET Requests
    BY DEF ValidRequests
  <2>2. CASE BeginUnlocked(c, q)
    BY <2>1, <2>2, EnterType DEF BeginUnlocked, disk, Steps
  <2>3. CASE BeginReconciles(c, q)
    BY <2>1, <2>3, EnterType, FinalizationStep, ReadableType DEF BeginReconciles, disk
  <2>4. CASE BeginRefused(c, q)
    BY <2>4, ReturnType DEF BeginRefused, Reject, disk
  <2> QED
    BY <1>1, <2>2, <2>3, <2>4 DEF Begin
<1>2. ASSUME NEW c \in Callers, NEW o \in Ops, NEW p \in Phases,
             NEW b \in References(p), Transition(c, o, p, b)
      PROVE  TypeOK'
  <2>1. CASE Holds(o) /\ Readable(o) /\ TransitionRepeated(c, o, p)
    BY <2>1, EnterType, FinalizationStep DEF TransitionRepeated, disk
  <2>2. CASE Holds(o) /\ Readable(o) /\ TransitionWritten(c, o, p, b)
    <3> DEFINE j == AppendEvent(journal[o], p, b, clock)
    <3>1. b \in BackupIds \cup {NoBackup}
      BY DEF References
    <3>2. j \in Journals
      BY <2>2, <3>1, ReadableType, AppendedJournal
    <3>3. journal' \in [Ops -> Journals \cup {NoJournal}]
      BY <2>2, <3>2 DEF TransitionWritten
    <3>4. Enter(c, Finalization(j), o, {}) \/ Return(c, "ok")
      BY <2>2 DEF TransitionWritten
    <3>5. call' \in Calls /\ reply' \in [Callers -> {"none", "ok", "error"}]
      BY <3>4, EnterType, ReturnType, FinalizationStep
    <3> QED
      BY <2>2, <3>3, <3>5 DEF TransitionWritten
  <2>3. CASE TransitionRefused(c, o, p, b)
    BY <2>3, ReturnType DEF TransitionRefused, Reject, disk
  <2> QED
    BY <1>2, <2>1, <2>2, <2>3 DEF Transition
<1>3. ASSUME NEW c \in Callers, NEW o \in Ops, NEW b \in BackupIds,
             RecordBackup(c, o, b)
      PROVE  TypeOK'
  <2>1. CASE /\ BackupAllowed(o)
             /\ backups' = [backups EXCEPT ![b] = [op |-> o, version |-> journal[o].from]]
             /\ Return(c, "ok")
             /\ UNCHANGED <<lock, journal, record, clock>>
    <3>1. journal[o].from \in Versions \cup {NoVersion}
      BY <2>1, ReadableType DEF BackupAllowed, Journals
    <3>2. [op |-> o, version |-> journal[o].from] \in BackupRecords
      BY <3>1 DEF BackupRecords
    <3> QED
      BY <2>1, <3>2, ReturnType
  <2>2. CASE Reject(c)
    BY <2>2, ReturnType DEF Reject, disk
  <2> QED
    BY <1>3, <2>1, <2>2 DEF RecordBackup
<1>4. CASE CreateLock
  <2>1. Go("lock") \/ Return(call.caller, "error")
    BY <1>4 DEF CreateLock, WriteFails
  <2>2. call' \in Calls /\ reply' \in [Callers -> {"none", "ok", "error"}]
    BY <2>1, GoType, ReturnType DEF Steps
  <2> QED
    BY <1>4, <2>2 DEF CreateLock
<1>5. CASE WriteLock
  <2>1. Go("journal") \/ Return(call.caller, "error")
    BY <1>5 DEF WriteLock, BeginWriteFails, WriteFails
  <2>2. call' \in Calls /\ reply' \in [Callers -> {"none", "ok", "error"}]
    BY <2>1, GoType, ReturnType DEF Steps
  <2>3. \A q \in call.begin : q.op \in Ops
    BY DEF Calls, Requests
  <2> QED
    BY <1>5, <2>2, <2>3 DEF WriteLock, BeginWriteFails
<1>6. CASE WriteFirstJournal
  <2>1. Go("plan") \/ Return(call.caller, "error")
    BY <1>6 DEF WriteFirstJournal, BeginWriteFails, WriteFails
  <2>2. call' \in Calls /\ reply' \in [Callers -> {"none", "ok", "error"}]
    BY <2>1, GoType, ReturnType DEF Steps
  <2>3. \A q \in call.begin : NewJournal(q, clock) \in Journals
    BY FirstJournal DEF Calls
  <2> QED
    BY <1>6, <2>2, <2>3 DEF WriteFirstJournal, BeginWriteFails
<1>7. CASE WritePlan
  <2>1. Return(call.caller, "ok") \/ Return(call.caller, "error")
    BY <1>7 DEF WritePlan, BeginWriteFails, WriteFails
  <2>2. call' \in Calls /\ reply' \in [Callers -> {"none", "ok", "error"}]
    BY <2>1, ReturnType
  <2> QED
    BY <1>7, <2>2 DEF WritePlan, BeginWriteFails
<1>8. CASE WriteRecord
  <2>1. Go("unlock") \/ Return(call.caller, "error")
    BY <1>8 DEF WriteRecord, WriteFails
  <2>2. call' \in Calls /\ reply' \in [Callers -> {"none", "ok", "error"}]
    BY <2>1, GoType, ReturnType DEF Steps
  <2>3. RecordAllowed(record, call.closing, journal[call.closing]) =>
          RecordAfter(record, call.closing, journal[call.closing]) \in InstallationRecords
    BY <1>8, ProjectionType DEF CallOK, WriteRecord
  <2> QED
    BY <1>8, <2>2, <2>3 DEF WriteRecord
<1>9. CASE RemoveLock
  <2>1. Go("create") \/ Return(call.caller, "ok") \/ Return(call.caller, "error")
    BY <1>9 DEF RemoveLock, WriteFails
  <2>2. call' \in Calls /\ reply' \in [Callers -> {"none", "ok", "error"}]
    BY <2>1, GoType, ReturnType DEF Steps
  <2> QED
    BY <1>9, <2>2 DEF RemoveLock
<1>10. CASE Crash
  BY <1>10 DEF Crash, disk, Idle, Calls, Steps
<1>11. CASE Tick
  BY <1>11 DEF Tick, disk
<1>12. CASE UNCHANGED vars
  BY <1>12 DEF vars
<1> QED
  BY <1>1, <1>2, <1>3, <1>4, <1>5, <1>6, <1>7, <1>8, <1>9, <1>10, <1>11, <1>12
  DEF Next, HandlerStep

\* A handler only takes the step whose ground was laid by the one before it:
\* a Begin writes over nothing, a finalization works on an ended operation
\* whose lock is held.
LEMMA CallStep == TypeOK /\ CallOK /\ [Next]_vars => CallOK'
<1> SUFFICES ASSUME TypeOK, CallOK, [Next]_vars PROVE CallOK'
  OBVIOUS
<1> USE SentinelAssumption, BlankAssumption, JournalSentinelAssumption
<1> HIDE DEF TypeOK, CallOK
<1>0. ASSUME call' = Idle PROVE CallOK'
  BY <1>0 DEF CallOK, Idle
<1>1. ASSUME NEW c \in Callers, NEW q \in ValidRequests, Begin(c, q)
      PROVE  CallOK'
  <2>1. NewOperation(q) /\ call = Idle
    BY <1>1 DEF Begin, NewOperation
  <2>2. CASE BeginUnlocked(c, q)
    BY <2>1, <2>2 DEF BeginUnlocked, Enter, disk, CallOK, NewOperation
  <2>3. CASE BeginReconciles(c, q)
    <3>1. lock \in Ops /\ journal[lock] \in Journals /\ Phase(journal[lock]) \in Terminal
      BY <2>3, ReadableType DEF BeginReconciles
    <3>2. /\ call'.at = Finalization(journal[lock])
          /\ call'.closing = lock /\ call'.begin = {q}
          /\ UNCHANGED <<lock, journal, record>>
      BY <2>3 DEF BeginReconciles, Enter, disk
    <3> QED
      BY <2>1, <3>1, <3>2 DEF Finalization, CallOK, NewOperation
  <2>4. CASE BeginRefused(c, q)
    BY <1>0, <2>4 DEF BeginRefused, Reject, Return
  <2> QED
    BY <1>1, <2>2, <2>3, <2>4 DEF Begin
<1>2. ASSUME NEW c \in Callers, NEW o \in Ops, NEW p \in Phases,
             NEW b \in References(p), Transition(c, o, p, b)
      PROVE  CallOK'
  <2>1. CASE Holds(o) /\ Readable(o) /\ TransitionRepeated(c, o, p)
    <3>1. lock = o /\ journal[lock] \in Journals /\ Phase(journal[lock]) \in Terminal
      BY <2>1, ReadableType DEF Holds, TransitionRepeated, Terminal
    <3>2. /\ call'.at = Finalization(journal[lock])
          /\ call'.closing = lock /\ call'.begin = {}
          /\ UNCHANGED <<lock, journal, record>>
      BY <2>1, <3>1 DEF TransitionRepeated, Enter, disk
    <3> QED
      BY <3>1, <3>2 DEF Finalization, CallOK
  <2>2. CASE Holds(o) /\ Readable(o) /\ TransitionWritten(c, o, p, b)
    <3> DEFINE j == AppendEvent(journal[o], p, b, clock)
    <3>1. b \in BackupIds \cup {NoBackup}
      BY DEF References
    <3>2. j \in Journals /\ Phase(j) = p
      BY <2>2, <3>1, ReadableType, AppendedJournal DEF TypeOK
    <3>3. lock' = o /\ journal'[o] = j
      BY <2>2 DEF TransitionWritten, Holds, TypeOK
    <3>4. CASE p \in Terminal
      <4>1. /\ call'.at = Finalization(j)
            /\ call'.closing = o /\ call'.begin = {}
        BY <2>2, <3>4 DEF TransitionWritten, Enter
      <4> QED
        BY <3>2, <3>3, <3>4, <4>1 DEF Finalization, CallOK
    <3>5. CASE p \notin Terminal
      BY <1>0, <2>2, <3>5 DEF TransitionWritten, Return
    <3> QED
      BY <3>4, <3>5
  <2>3. CASE TransitionRefused(c, o, p, b)
    BY <1>0, <2>3 DEF TransitionRefused, Reject, Return
  <2> QED
    BY <1>2, <2>1, <2>2, <2>3 DEF Transition
<1>3. ASSUME NEW c \in Callers, NEW o \in Ops, NEW b \in BackupIds,
             RecordBackup(c, o, b)
      PROVE  CallOK'
  BY <1>0, <1>3 DEF RecordBackup, Reject, Return
<1>4. CASE CreateLock
  <2>1. PICK q \in ValidRequests : call.begin = {q} /\ NewOperation(q)
    BY <1>4 DEF CreateLock, CallOK
  <2>2. CASE Return(call.caller, "error")
    BY <1>0, <2>2 DEF Return
  <2>3. CASE ~Return(call.caller, "error")
    <3>1. CurrentStateAllows(record, q.kind, q.from) /\ lock' = Blank /\ Go("lock")
      BY <1>4, <2>1, <2>3 DEF CreateLock, WriteFails
    <3>2. call'.at = "lock" /\ call'.begin = {q} /\ UNCHANGED <<journal, record>>
      BY <1>4, <2>1, <3>1 DEF CreateLock, Go, TypeOK, Calls
    <3> QED
      BY <2>1, <3>1, <3>2 DEF CallOK, NewOperation
  <2> QED
    BY <2>2, <2>3
<1>5. CASE WriteLock
  <2>1. PICK q \in ValidRequests : /\ call.begin = {q}
                                   /\ NewOperation(q)
                                   /\ CurrentStateAllows(record, q.kind, q.from)
    BY <1>5 DEF WriteLock, CallOK
  <2>2. CASE BeginWriteFails
    BY <1>0, <2>2 DEF BeginWriteFails, WriteFails, Return
  <2>3. CASE ~BeginWriteFails
    <3>1. lock' = q.op /\ call'.at = "journal" /\ call'.begin = {q}
      BY <1>5, <2>1, <2>3 DEF WriteLock, Go, TypeOK, Calls
    <3>2. UNCHANGED <<journal, record>>
      BY <1>5 DEF WriteLock
    <3> QED
      BY <2>1, <3>1, <3>2 DEF CallOK, NewOperation
  <2> QED
    BY <2>2, <2>3
<1>6. CASE WriteFirstJournal
  <2>1. PICK q \in ValidRequests : call.begin = {q} /\ lock = q.op
    BY <1>6 DEF WriteFirstJournal, CallOK
  <2>2. CASE BeginWriteFails
    BY <1>0, <2>2 DEF BeginWriteFails, WriteFails, Return
  <2>3. CASE ~BeginWriteFails
    <3>1. /\ journal' = [journal EXCEPT ![q.op] = NewJournal(q, clock)]
          /\ lock' = q.op /\ call'.at = "plan" /\ call'.begin = {q}
      BY <1>6, <2>1, <2>3 DEF WriteFirstJournal, Go, TypeOK, Calls
    <3>2. q \in Requests /\ q.op \in Ops
      BY DEF ValidRequests, Requests
    <3>3. journal'[lock'] = NewJournal(q, clock)
      BY <3>1, <3>2 DEF TypeOK
    <3>4. journal'[lock'] \in Journals /\ Phase(journal'[lock']) = "prepared"
      BY <3>2, <3>3, FirstJournal DEF TypeOK
    <3> QED
      BY <2>1, <3>1, <3>4 DEF CallOK
  <2> QED
    BY <2>2, <2>3
<1>7. CASE WritePlan
  BY <1>0, <1>7 DEF WritePlan, BeginWriteFails, WriteFails, Return
<1>8. CASE WriteRecord
  <2> DEFINE o == call.closing
  <2>1. CASE Return(call.caller, "error")
    BY <1>0, <2>1 DEF Return
  <2>2. CASE ~Return(call.caller, "error")
    <3>1. /\ RecordAllowed(record, o, journal[o])
          /\ record' = RecordAfter(record, o, journal[o])
          /\ Go("unlock")
      BY <1>8, <2>2 DEF WriteRecord, WriteFails
    <3>2. /\ call'.at = "unlock" /\ call'.closing = o /\ call'.begin = call.begin
          /\ UNCHANGED <<lock, journal>>
      BY <1>8, <3>1 DEF WriteRecord, Go, TypeOK, Calls
    <3>3. o \in Ops /\ lock = o /\ journal[o] \in Journals
      BY <1>8 DEF CallOK, WriteRecord
    <3>4. AlreadyRecorded(record', o)
      <4>1. record' \in InstallationRecords
        BY <3>1, <3>3, ProjectionType DEF TypeOK
      <4>2. record'.lastOp = o
        BY <3>1 DEF RecordAfter, AlreadyRecorded, ProjectedRecord
      <4> QED
        BY <4>1, <4>2, RecordSentinelAssumption DEF AlreadyRecorded
    <3> QED
      BY <1>8, <3>2, <3>3, <3>4 DEF CallOK, NewOperation, WriteRecord
  <2> QED
    BY <2>1, <2>2
<1>9. CASE RemoveLock
  <2>1. CASE call' = Idle
    BY <1>0, <2>1
  <2>2. CASE call' # Idle
    <3>1. lock' = NoOp /\ call.begin # {} /\ Go("create")
      BY <1>9, <2>2 DEF RemoveLock, WriteFails, Return
    <3>2. call'.at = "create" /\ call'.begin = call.begin /\ UNCHANGED journal
      BY <1>9, <3>1 DEF RemoveLock, Go, TypeOK, Calls
    <3> QED
      BY <1>9, <3>1, <3>2 DEF CallOK, NewOperation, RemoveLock
  <2> QED
    BY <2>1, <2>2
<1>10. CASE Crash
  BY <1>0, <1>10 DEF Crash
<1>11. CASE Tick
  BY <1>11 DEF Tick, disk, CallOK, NewOperation
<1>12. CASE UNCHANGED vars
  BY <1>12 DEF vars, CallOK, NewOperation
<1> QED
  BY <1>1, <1>2, <1>3, <1>4, <1>5, <1>6, <1>7, <1>8, <1>9, <1>10, <1>11, <1>12
  DEF Next, HandlerStep

\* The types hold whatever the callers request and whatever fails.
THEOREM TypeCorrect == Spec => []TypeOK
<1>1. Init => TypeOK /\ CallOK
  BY MaxTimeAssumption
  DEF Init, TypeOK, CallOK, Idle, Calls, Steps, BackupRecords, Times
<1>2. TypeOK /\ CallOK /\ [Next]_vars => TypeOK' /\ CallOK'
  BY TypeStep, CallStep
<1> QED
  BY <1>1, <1>2, PTL DEF Spec

-----------------------------------------------------------------------------
(* What a step does to the disk.  The invariants relate lock, journal and  *)
(* record only, and a step changes these in one of six ways.               *)

\* Nothing changes, but the clock may move.
Rest ==
    /\ UNCHANGED <<lock, journal, record>>
    /\ clock' = clock \/ Tick

\* The lock comes to name an operation that does not exist yet, or is given up
\* by one.
Acquire ==
    /\ lock \notin Ops \/ journal[lock] = NoJournal
    /\ lock' \notin Ops \/ journal[lock'] = NoJournal
    /\ UNCHANGED <<journal, record, clock>>

Open(q) ==
    /\ lock = q.op
    /\ NewOperation(q)
    /\ CurrentStateAllows(record, q.kind, q.from)
    /\ journal' = [journal EXCEPT ![q.op] = NewJournal(q, clock)]
    /\ UNCHANGED <<lock, record, clock>>

Extend(o, p, b) ==
    /\ lock = o
    /\ Readable(o)
    /\ TransitionAllowed(journal[o], p, b)
    /\ journal' = [journal EXCEPT ![o] = AppendEvent(journal[o], p, b, clock)]
    /\ UNCHANGED <<lock, record, clock>>

Project ==
    /\ lock \in Ops
    /\ journal[lock] \in Journals
    /\ RecordAllowed(record, lock, journal[lock])
    /\ record' = RecordAfter(record, lock, journal[lock])
    /\ UNCHANGED <<lock, journal, clock>>

Release ==
    /\ lock \in Ops
    /\ lock' = NoOp
    /\ journal[lock] \in Journals
    /\ \/ Phase(journal[lock]) = "prepared"
       \/ /\ Phase(journal[lock]) \in Terminal
          /\ ChangesInstallation(journal[lock]) => AlreadyRecorded(record, lock)
    /\ UNCHANGED <<journal, record, clock>>

DiskStep ==
    \/ Rest
    \/ Acquire
    \/ \E q \in ValidRequests : Open(q)
    \/ \E o \in Ops, p \in Phases, b \in BackupIds \cup {NoBackup} : Extend(o, p, b)
    \/ Project
    \/ Release

LEMMA StepsOfTheDisk == TypeOK /\ CallOK /\ [Next]_vars => DiskStep
<1> SUFFICES ASSUME TypeOK, CallOK, [Next]_vars PROVE DiskStep
  OBVIOUS
<1> USE SentinelAssumption, BlankAssumption, JournalSentinelAssumption
<1> HIDE DEF TypeOK, CallOK
<1>1. ASSUME NEW c \in Callers, NEW q \in ValidRequests, Begin(c, q)
      PROVE  DiskStep
  BY <1>1 DEF Begin, BeginUnlocked, BeginReconciles, BeginRefused, Reject, disk,
              DiskStep, Rest
<1>2. ASSUME NEW c \in Callers, NEW o \in Ops, NEW p \in Phases,
             NEW b \in References(p), Transition(c, o, p, b)
      PROVE  DiskStep
  <2>1. b \in BackupIds \cup {NoBackup}
    BY DEF References
  <2>2. CASE Holds(o) /\ Readable(o) /\ TransitionWritten(c, o, p, b)
    <3>1. Extend(o, p, b)
      BY <2>2 DEF Extend, TransitionWritten, Holds
    <3> QED
      BY <2>1, <3>1 DEF DiskStep
  <2>3. CASE TransitionRepeated(c, o, p) \/ TransitionRefused(c, o, p, b)
    BY <2>3 DEF TransitionRepeated, TransitionRefused, Reject, disk, DiskStep, Rest
  <2> QED
    BY <1>2, <2>2, <2>3 DEF Transition
<1>3. ASSUME NEW c \in Callers, NEW o \in Ops, NEW b \in BackupIds,
             RecordBackup(c, o, b)
      PROVE  DiskStep
  BY <1>3 DEF RecordBackup, Reject, disk, DiskStep, Rest
<1>4. CASE CreateLock
  <2>1. lock = NoOp
    BY <1>4 DEF CreateLock, CallOK
  <2>2. lock' = NoOp \/ lock' = Blank
    BY <1>4, <2>1 DEF CreateLock
  <2> QED
    BY <1>4, <2>1, <2>2 DEF CreateLock, DiskStep, Acquire
<1>5. CASE WriteLock
  <2>1. lock = Blank /\ \A q \in call.begin : journal[q.op] = NoJournal
    BY <1>5 DEF WriteLock, CallOK, NewOperation
  <2>2. lock' \in {NoOp, Blank} \/ \E q \in call.begin : lock' = q.op
    BY <1>5, <2>1 DEF WriteLock, BeginWriteFails
  <2> QED
    BY <1>5, <2>1, <2>2 DEF WriteLock, DiskStep, Acquire
<1>6. CASE WriteFirstJournal
  <2>1. PICK q \in ValidRequests : /\ call.begin = {q}
                                   /\ lock = q.op
                                   /\ NewOperation(q)
                                   /\ CurrentStateAllows(record, q.kind, q.from)
    BY <1>6 DEF WriteFirstJournal, CallOK
  <2>2. CASE lock' = lock /\ journal' = [journal EXCEPT ![q.op] = NewJournal(q, clock)]
    <3>1. Open(q)
      BY <1>6, <2>1, <2>2 DEF WriteFirstJournal, Open
    <3> QED
      BY <3>1 DEF DiskStep
  <2>3. CASE lock' \in {NoOp, lock} /\ journal' = journal
    BY <1>6, <2>1, <2>3 DEF WriteFirstJournal, NewOperation, DiskStep, Acquire
  <2> QED
    BY <1>6, <2>1, <2>2, <2>3 DEF WriteFirstJournal, BeginWriteFails
<1>7. CASE WritePlan
  <2>1. /\ lock \in Ops /\ journal[lock] \in Journals
        /\ Phase(journal[lock]) = "prepared"
    <3>1. \A q \in ValidRequests : q.op \in Ops
      BY DEF ValidRequests, Requests
    <3> QED
      BY <1>7, <3>1 DEF WritePlan, CallOK
  <2> QED
    BY <1>7, <2>1 DEF WritePlan, BeginWriteFails, DiskStep, Rest, Release
<1>8. CASE WriteRecord
  <2>1. call.closing = lock /\ lock \in Ops /\ journal[lock] \in Journals
    BY <1>8 DEF WriteRecord, CallOK
  <2> QED
    BY <1>8, <2>1 DEF WriteRecord, DiskStep, Rest, Project
<1>9. CASE RemoveLock
  <2>1. /\ lock \in Ops /\ journal[lock] \in Journals
        /\ Phase(journal[lock]) \in Terminal
        /\ ChangesInstallation(journal[lock]) => AlreadyRecorded(record, lock)
    BY <1>9 DEF RemoveLock, CallOK
  <2> QED
    BY <1>9, <2>1 DEF RemoveLock, DiskStep, Rest, Release
<1>10. CASE Crash
  BY <1>10 DEF Crash, disk, DiskStep, Rest
<1>11. CASE Tick
  BY <1>11 DEF Tick, disk, DiskStep, Rest
<1>12. CASE UNCHANGED vars
  BY <1>12 DEF vars, DiskStep, Rest
<1> QED
  BY <1>1, <1>2, <1>3, <1>4, <1>5, <1>6, <1>7, <1>8, <1>9, <1>10, <1>11, <1>12
  DEF Next, HandlerStep

-----------------------------------------------------------------------------
(* Safety under any faults.                                                *)

\* What an extended journal looks like.
LEMMA ExtendedJournal ==
    ASSUME TypeOK, NEW o \in Ops, NEW p \in Phases, NEW b \in BackupIds \cup {NoBackup},
           Extend(o, p, b)
    PROVE  /\ journal[o] \in Journals /\ JournalValid(journal[o])
           /\ journal'[o] = AppendEvent(journal[o], p, b, clock)
           /\ journal'[o] \in Journals
           /\ Phase(journal'[o]) = p
           /\ <<Phase(journal[o]), p>> \in Transitions
           /\ journal'[o].kind = journal[o].kind /\ journal'[o].from = journal[o].from
           /\ journal'[o].to = journal[o].to /\ journal'[o].input = journal[o].input
           /\ \A x \in Ops : x # o => journal'[x] = journal[x]
<1>1. journal[o] \in Journals /\ JournalValid(journal[o]) /\ clock \in Times
  BY ReadableType DEF Extend, TypeOK
<1>2. journal'[o] = AppendEvent(journal[o], p, b, clock)
  BY DEF Extend, TypeOK
<1>3. \A x \in Ops : x # o => journal'[x] = journal[x]
  BY DEF Extend, TypeOK
<1>4. <<Phase(journal[o]), p>> \in Transitions
  BY DEF Extend, TransitionAllowed
<1> DEFINE k == AppendEvent(journal[o], p, b, clock)
<1>5. /\ k \in Journals /\ Phase(k) = p
      /\ k.kind = journal[o].kind /\ k.from = journal[o].from
      /\ k.to = journal[o].to /\ k.input = journal[o].input
  <2>1. \A x \in Journals, t \in Times :
          LET a == AppendEvent(x, p, b, t) IN
          /\ a \in Journals /\ Phase(a) = p
          /\ a.kind = x.kind /\ a.from = x.from /\ a.to = x.to /\ a.input = x.input
    BY AppendedJournal
  <2> QED
    BY <1>1, <2>1
<1> HIDE DEF k
<1>6. journal'[o] = k
  BY <1>2 DEF k
<1> QED
  BY <1>1, <1>2, <1>3, <1>4, <1>5, <1>6

\* What an opened journal looks like.
LEMMA OpenedJournal ==
    ASSUME TypeOK, NEW q \in ValidRequests, Open(q)
    PROVE  /\ q \in Requests /\ q.op \in Ops /\ journal[q.op] = NoJournal
           /\ journal'[q.op] = NewJournal(q, clock)
           /\ journal'[q.op] \in Journals
           /\ Phase(journal'[q.op]) = "prepared"
           /\ \A x \in Ops : x # q.op => journal'[x] = journal[x]
<1>1. q \in Requests /\ q.op \in Ops /\ journal[q.op] = NoJournal
  BY DEF ValidRequests, Requests, Open, NewOperation
<1>2. journal'[q.op] = NewJournal(q, clock) /\ \A x \in Ops : x # q.op => journal'[x] = journal[x]
  BY <1>1 DEF Open, TypeOK
<1> QED
  BY <1>1, <1>2, FirstJournal DEF TypeOK

LEMMA NothingFollowsAnEnd ==
    ASSUME NEW p \in Terminal, NEW x PROVE <<p, x>> \notin Transitions
BY DEF Terminal, Transitions

LEMMA OpenOperationsStep ==
    TypeOK /\ OpenOperationsLocked /\ DiskStep => OpenOperationsLocked'
<1> SUFFICES ASSUME TypeOK, OpenOperationsLocked, DiskStep,
                    NEW o \in Ops, journal'[o] # NoJournal,
                    Phase(journal'[o]) \notin Terminal \cup {"prepared"}
             PROVE  lock' = o
  BY DEF OpenOperationsLocked
<1> USE SentinelAssumption
<1>1. CASE Rest
  BY <1>1 DEF Rest, OpenOperationsLocked
<1>2. CASE Acquire
  BY <1>2 DEF Acquire, OpenOperationsLocked
<1>3. ASSUME NEW q \in ValidRequests, Open(q) PROVE lock' = o
  BY <1>3, OpenedJournal DEF Open, OpenOperationsLocked
<1>4. ASSUME NEW x \in Ops, NEW p \in Phases, NEW b \in BackupIds \cup {NoBackup},
             Extend(x, p, b)
      PROVE  lock' = o
  BY <1>4, ExtendedJournal DEF Extend, OpenOperationsLocked
<1>5. CASE Project
  BY <1>5 DEF Project, OpenOperationsLocked
<1>6. CASE Release
  BY <1>6 DEF Release, OpenOperationsLocked
<1> QED
  BY <1>1, <1>2, <1>3, <1>4, <1>5, <1>6 DEF DiskStep

\* An operation that went past its first phase is never forgotten.
THEOREM OpenOperationsAreLocked == Spec => []OpenOperationsLocked
<1>1. Init => TypeOK /\ CallOK /\ OpenOperationsLocked
  BY MaxTimeAssumption
  DEF Init, TypeOK, CallOK, OpenOperationsLocked, Idle, Calls, Steps, BackupRecords, Times
<1>2. TypeOK /\ CallOK /\ OpenOperationsLocked /\ [Next]_vars
        => TypeOK' /\ CallOK' /\ OpenOperationsLocked'
  BY TypeStep, CallStep, StepsOfTheDisk, OpenOperationsStep
<1> QED
  BY <1>1, <1>2, PTL DEF Spec

\* Only a handler that recorded the effect of an operation releases its lock.
THEOREM ReleasedWhenRecorded == Spec => ReleasedAfterRecorded
<1>1. Init => TypeOK /\ CallOK
  BY MaxTimeAssumption
  DEF Init, TypeOK, CallOK, Idle, Calls, Steps, BackupRecords, Times
<1>2. TypeOK /\ CallOK /\ [Next]_vars => TypeOK' /\ CallOK'
  BY TypeStep, CallStep
<1>3. TypeOK /\ CallOK /\ [Next]_vars =>
        [\A o \in Ops : (lock = o /\ lock' # o) =>
            \/ journal[o] = NoJournal
            \/ ~ChangesInstallation(journal[o])
            \/ record # NoRecord /\ record.lastOp = o]_vars
  <2> SUFFICES ASSUME TypeOK, CallOK, DiskStep, NEW o \in Ops, lock = o, lock' # o
               PROVE  \/ journal[o] = NoJournal
                      \/ ~ChangesInstallation(journal[o])
                      \/ record # NoRecord /\ record.lastOp = o
    BY StepsOfTheDisk
  <2>1. CASE Acquire
    BY <2>1 DEF Acquire
  <2>2. CASE Release
    BY <2>2 DEF Release, ChangesInstallation, AlreadyRecorded
  <2>3. CASE Rest \/ Project \/ \E q \in ValidRequests : Open(q)
    BY <2>3 DEF Rest, Project, Open
  <2>4. ASSUME NEW x \in Ops, NEW p \in Phases, NEW b \in BackupIds \cup {NoBackup},
               Extend(x, p, b)
        PROVE  FALSE
    BY <2>4 DEF Extend
  <2> QED
    BY <2>1, <2>2, <2>3, <2>4 DEF DiskStep
<1> QED
  BY <1>1, <1>2, <1>3, PTL DEF Spec, ReleasedAfterRecorded

\* The part of InventoryEarned that is said of a record r and a journal j.
Earned(r, j) ==
    /\ JournalValid(j)
    /\ ChangesInstallation(j)
    /\ r.lastKind = j.kind
    /\ r.lastEvent = Len(j.events)
    /\ IF j.kind = "uninstall" THEN r.state = "uninstalled" /\ r.version = j.from
                               ELSE r.state = "active" /\ r.version = j.to

LEMMA EarnedInventory ==
    InventoryEarned <=>
        (record # NoRecord => /\ record.lastOp \in Ops
                              /\ journal[record.lastOp] # NoJournal
                              /\ Earned(record, journal[record.lastOp]))
BY DEF InventoryEarned, Earned, Readable, ChangesInstallation

\* A projection says what its journal says.
LEMMA ProjectionEarned ==
    ASSUME NEW r \in InstallationRecords \cup {NoRecord}, NEW o \in Ops,
           NEW j \in Journals, RecordAllowed(r, o, j), ~AlreadyRecorded(r, o)
    PROVE  /\ RecordAfter(r, o, j).lastOp = o
           /\ Earned(RecordAfter(r, o, j), j)
BY DEF RecordAllowed, RecordAfter, ProjectedRecord, CurrentStateAllows, Earned

LEMMA InventoryStep == TypeOK /\ InventoryEarned /\ DiskStep => InventoryEarned'
<1> SUFFICES ASSUME TypeOK, InventoryEarned, DiskStep PROVE InventoryEarned'
  OBVIOUS
<1> DEFINE kept == record' = record
                   /\ \A o \in Ops : Phase(journal[o]) \in Terminal /\ journal[o] # NoJournal
                                        => journal'[o] = journal[o]
<1>1. ASSUME kept PROVE InventoryEarned'
  <2> SUFFICES ASSUME record # NoRecord
               PROVE  InventoryEarned'
    BY <1>1 DEF InventoryEarned
  <2>1. /\ record.lastOp \in Ops
        /\ journal[record.lastOp] # NoJournal
        /\ Earned(record, journal[record.lastOp])
    BY EarnedInventory
  <2>2. Phase(journal[record.lastOp]) \in Terminal
    BY <2>1 DEF Earned, ChangesInstallation, Terminal
  <2>3. journal'[record'.lastOp] = journal[record.lastOp] /\ record' = record
    BY <1>1, <2>1, <2>2
  <2> QED
    BY <2>1, <2>3 DEF InventoryEarned, Earned, Readable, ChangesInstallation
<1>2. CASE Rest \/ Acquire \/ Release
  BY <1>1, <1>2 DEF Rest, Acquire, Release
<1>3. ASSUME NEW q \in ValidRequests, Open(q) PROVE InventoryEarned'
  <2>1. journal[q.op] = NoJournal /\ \A x \in Ops : x # q.op => journal'[x] = journal[x]
    BY <1>3, OpenedJournal
  <2> QED
    BY <1>1, <1>3, <2>1 DEF Open
<1>4. ASSUME NEW o \in Ops, NEW p \in Phases, NEW b \in BackupIds \cup {NoBackup},
             Extend(o, p, b)
      PROVE  InventoryEarned'
  <2>1. /\ <<Phase(journal[o]), p>> \in Transitions
        /\ \A x \in Ops : x # o => journal'[x] = journal[x]
    BY <1>4, ExtendedJournal
  <2>2. Phase(journal[o]) \notin Terminal
    BY <2>1, NothingFollowsAnEnd
  <2> QED
    BY <1>1, <1>4, <2>1, <2>2 DEF Extend
<1>5. CASE Project
  <2> DEFINE j == journal[lock]
  <2>1. CASE AlreadyRecorded(record, lock)
    BY <1>1, <1>5, <2>1 DEF Project, RecordAfter
  <2>2. CASE ~AlreadyRecorded(record, lock)
    <3>1. lock \in Ops /\ j \in Journals /\ RecordAllowed(record, lock, j)
          /\ record' = RecordAfter(record, lock, j) /\ journal' = journal
      BY <1>5 DEF Project
    <3>2. record'.lastOp = lock /\ Earned(record', j)
      BY <2>2, <3>1, ProjectionEarned DEF TypeOK
    <3> QED
      BY <3>1, <3>2, JournalSentinelAssumption
      DEF InventoryEarned, Earned, Readable, ChangesInstallation
  <2> QED
    BY <2>1, <2>2
<1> QED
  BY <1>2, <1>3, <1>4, <1>5 DEF DiskStep

\* The inventory only ever says what a finished operation earned.
THEOREM InventoryIsEarned == Spec => []InventoryEarned
<1>1. Init => TypeOK /\ CallOK /\ InventoryEarned
  BY MaxTimeAssumption
  DEF Init, TypeOK, CallOK, InventoryEarned, Idle, Calls, Steps, BackupRecords, Times
<1>2. TypeOK /\ CallOK /\ InventoryEarned /\ [Next]_vars
        => TypeOK' /\ CallOK' /\ InventoryEarned'
  BY TypeStep, CallStep, StepsOfTheDisk, InventoryStep
<1> QED
  BY <1>1, <1>2, PTL DEF Spec

-----------------------------------------------------------------------------
(* Safety as long as the wall clock is not set back.                       *)

\* What TransitionAllowed accepts extends a valid journal to a valid one,
\* provided the new event is not older than the last.
LEMMA ExtensionValid ==
    ASSUME NEW j \in Journals, JournalValid(j), NEW p \in Phases,
           NEW b \in BackupIds \cup {NoBackup}, NEW t \in Times,
           TransitionAllowed(j, p, b), UpdatedAt(j) <= t
    PROVE  /\ JournalValid(AppendEvent(j, p, b, t))
           /\ StartedAt(AppendEvent(j, p, b, t)) = StartedAt(j)
           /\ UpdatedAt(AppendEvent(j, p, b, t)) = t
<1> DEFINE e == [phase |-> p, ref |-> b, time |-> t]
           k == AppendEvent(j, p, b, t)
           n == Len(j.events)
<1>1. /\ j.events \in Seq(Events) /\ n \in Nat /\ n > 0
      /\ DOMAIN j.events = 1..n
  BY DEF Journals, JournalValid
<1>2. /\ k.kind = j.kind /\ k.from = j.from /\ k.input = j.input
      /\ k.events = Append(j.events, e)
  BY DEF AppendEvent, Journals
<1>3. e \in Events
  BY DEF Events
<1>4. /\ Len(k.events) = n + 1 /\ DOMAIN k.events = 1..(n + 1)
      /\ k.events[n + 1] = e
      /\ \A i \in 1..n : k.events[i] = j.events[i]
  BY <1>1, <1>2, <1>3
<1> HIDE DEF k
<1>5. Seen(j) \subseteq Seen(k)
  BY <1>1, <1>4 DEF Seen
<1>6. Phase(k) = p /\ UpdatedAt(k) = t /\ StartedAt(k) = StartedAt(j)
  BY <1>1, <1>4 DEF Phase, UpdatedAt, StartedAt
<1>7. \A i \in 2..Len(k.events) :
          /\ k.events[i-1].time <= k.events[i].time
          /\ <<k.events[i-1].phase, k.events[i].phase>> \in Transitions
  <2> SUFFICES ASSUME NEW i \in 2..(n + 1)
               PROVE  /\ k.events[i-1].time <= k.events[i].time
                      /\ <<k.events[i-1].phase, k.events[i].phase>> \in Transitions
    BY <1>4
  <2>1. CASE i \in 2..n
    <3>1. k.events[i] = j.events[i] /\ k.events[i-1] = j.events[i-1]
      BY <1>1, <1>4, <2>1
    <3> QED
      BY <2>1, <3>1 DEF JournalValid
  <2>2. CASE i = n + 1
    <3>1. k.events[i] = e /\ k.events[i-1] = j.events[n]
      BY <1>1, <1>4, <2>2
    <3> QED
      BY <3>1 DEF UpdatedAt, TransitionAllowed, Phase
  <2> QED
    BY <1>1, <2>1, <2>2
<1>8. \A i \in DOMAIN k.events :
          k.events[i].phase = "backup-complete" => k.events[i].ref # NoBackup
  <2> SUFFICES ASSUME NEW i \in 1..(n + 1), k.events[i].phase = "backup-complete"
               PROVE  k.events[i].ref # NoBackup
    BY <1>4
  <2>1. CASE i \in 1..n
    BY <1>1, <1>4, <2>1 DEF JournalValid
  <2>2. CASE i = n + 1
    BY <1>4, <2>2 DEF TransitionAllowed
  <2> QED
    BY <1>1, <2>1, <2>2
<1>9. Phase(k) = "committed" => CommitSequenceValid(k)
  BY <1>2, <1>5, <1>6 DEF TransitionAllowed, CommitSequenceValid
<1>10. JournalValid(k)
  BY <1>1, <1>2, <1>4, <1>7, <1>8, <1>9 DEF JournalValid
<1> QED
  BY <1>6, <1>10 DEF k

\* Begin opens a journal that reads back.
LEMMA FirstJournalValid ==
    ASSUME NEW q \in ValidRequests, NEW t \in Times
    PROVE  /\ JournalValid(NewJournal(q, t))
           /\ StartedAt(NewJournal(q, t)) = t
           /\ UpdatedAt(NewJournal(q, t)) = t
<1> DEFINE j == NewJournal(q, t)
           e == [phase |-> "prepared", ref |-> NoBackup, time |-> t]
<1>1. j.events = <<e>> /\ j.kind = q.kind /\ j.from = q.from /\ j.input = q.input
  BY DEF NewJournal
<1>2. Len(j.events) = 1 /\ DOMAIN j.events = {1} /\ j.events[1] = e
  BY <1>1
<1>3. q \in Requests /\ RequestValid(q)
  BY DEF ValidRequests
<1> HIDE DEF j
<1>4. \A i \in 2..Len(j.events) : FALSE
  BY <1>2
<1>5. Phase(j) = "prepared"
  BY <1>2 DEF Phase
<1>6. JournalValid(j)
  BY <1>1, <1>2, <1>3, <1>4, <1>5 DEF JournalValid, RequestValid
<1>7. StartedAt(j) = t /\ UpdatedAt(j) = t
  BY <1>2 DEF StartedAt, UpdatedAt
<1> QED
  BY <1>6, <1>7 DEF j

\* Time passes from the first event of a journal to its last and on to now,
\* and from the last change of the inventory to now.
TimesOrdered ==
    /\ \A o \in Ops : journal[o] # NoJournal =>
          /\ JournalValid(journal[o])
          /\ StartedAt(journal[o]) <= UpdatedAt(journal[o])
          /\ UpdatedAt(journal[o]) <= clock
    /\ record # NoRecord => RecordValid(record) /\ record.updatedAt <= clock

\* The operation that holds the lock started from the recorded state and after
\* it was recorded, unless it is the one recorded.
OwnerCurrent ==
    lock \in Ops /\ journal[lock] # NoJournal /\ ~AlreadyRecorded(record, lock) =>
        /\ CurrentStateAllows(record, journal[lock].kind, journal[lock].from)
        /\ record # NoRecord => record.updatedAt <= StartedAt(journal[lock])

\* The times of journals and records are integers.
LEMMA TimesOfJournal ==
    ASSUME NEW j \in Journals, JournalValid(j)
    PROVE  StartedAt(j) \in Times /\ UpdatedAt(j) \in Times
<1> DEFINE n == Len(j.events)
<1>1. j.events \in Seq(Events) /\ n \in Nat /\ n > 0
  BY DEF Journals, JournalValid
<1>2. j.events[1] \in Events /\ j.events[n] \in Events
  BY <1>1
<1>3. \A e \in Events : e.time \in Times
  BY DEF Events
<1> QED
  BY <1>2, <1>3 DEF StartedAt, UpdatedAt

\* Nothing sets the clock back but the fault of that name.
LEMMA ClockAdvances ==
    ASSUME "clock" \notin Faults, TypeOK, DiskStep
    PROVE  clock <= clock'
<1>1. clock \in Nat
  BY MaxTimeAssumption DEF TypeOK, Times
<1>2. clock' = clock \/ Tick
  BY DEF DiskStep, Rest, Acquire, Open, Extend, Project, Release
<1>3. ASSUME Tick PROVE clock <= clock'
  <2>1. PICK t \in Times : t > clock /\ clock' = t
    BY <1>3 DEF Tick
  <2>2. t \in Nat
    BY MaxTimeAssumption DEF Times
  <2> QED
    BY <1>1, <2>1, <2>2
<1> QED
  BY <1>1, <1>2, <1>3

LEMMA TimesStep ==
    ASSUME clock <= clock', TypeOK, TypeOK', TimesOrdered, DiskStep
    PROVE  TimesOrdered'
<1>0. clock \in Nat /\ clock' \in Nat
  BY MaxTimeAssumption DEF TypeOK, Times
<1> DEFINE Journals1(x) == journal[x] # NoJournal =>
               /\ JournalValid(journal[x])
               /\ StartedAt(journal[x]) <= UpdatedAt(journal[x])
               /\ UpdatedAt(journal[x]) <= clock
           Record1 == record # NoRecord => RecordValid(record) /\ record.updatedAt <= clock
<1>1. CASE Rest
  <2>1. clock <= clock'
    OBVIOUS
  <2>2. \A x \in Ops : journal[x] # NoJournal => UpdatedAt(journal[x]) \in Nat
    BY TimesOfJournal, MaxTimeAssumption DEF TypeOK, TimesOrdered, Times
  <2>3. record # NoRecord => record.updatedAt \in Nat
    BY MaxTimeAssumption DEF TypeOK, InstallationRecords, Times
  <2>4. UNCHANGED <<journal, record>>
    BY <1>1 DEF Rest
  <2>5. ASSUME NEW x \in Ops PROVE Journals1(x)'
    BY <1>0, <2>1, <2>2, <2>4 DEF TimesOrdered
  <2>6. Record1'
    BY <1>0, <2>1, <2>3, <2>4 DEF TimesOrdered
  <2> QED
    BY <2>5, <2>6 DEF TimesOrdered
<1>2. CASE Acquire \/ Release
  BY <1>2 DEF Acquire, Release, TimesOrdered
<1>3. ASSUME NEW q \in ValidRequests, Open(q) PROVE TimesOrdered'
  <2>1. /\ q.op \in Ops /\ journal'[q.op] = NewJournal(q, clock)
        /\ \A x \in Ops : x # q.op => journal'[x] = journal[x]
    BY <1>3, OpenedJournal
  <2>2. /\ JournalValid(NewJournal(q, clock))
        /\ StartedAt(NewJournal(q, clock)) = clock
        /\ UpdatedAt(NewJournal(q, clock)) = clock
    BY FirstJournalValid DEF TypeOK
  <2>3. record' = record /\ clock' = clock
    BY <1>3 DEF Open
  <2>4. ASSUME NEW x \in Ops PROVE Journals1(x)'
    BY <1>0, <2>1, <2>2, <2>3 DEF TimesOrdered
  <2> QED
    BY <2>3, <2>4 DEF TimesOrdered
<1>4. ASSUME NEW o \in Ops, NEW p \in Phases, NEW b \in BackupIds \cup {NoBackup},
             Extend(o, p, b)
      PROVE  TimesOrdered'
  <2> DEFINE j == journal[o]
             k == AppendEvent(j, p, b, clock)
  <2>1. /\ j \in Journals /\ JournalValid(j) /\ journal'[o] = k
        /\ \A x \in Ops : x # o => journal'[x] = journal[x]
    BY <1>4, ExtendedJournal
  <2>2. TransitionAllowed(j, p, b) /\ record' = record /\ clock' = clock
    BY <1>4 DEF Extend
  <2>3. StartedAt(j) <= UpdatedAt(j) /\ UpdatedAt(j) <= clock
    BY <2>1, JournalSentinelAssumption DEF TimesOrdered
  <2>4. JournalValid(k) /\ StartedAt(k) = StartedAt(j) /\ UpdatedAt(k) = clock
    BY <2>1, <2>2, <2>3, ExtensionValid DEF TypeOK
  <2>5. StartedAt(j) \in Nat /\ UpdatedAt(j) \in Nat
    BY <2>1, TimesOfJournal, MaxTimeAssumption DEF Times
  <2> HIDE DEF j, k
  <2>6. StartedAt(k) <= UpdatedAt(k)
    BY <1>0, <2>3, <2>4, <2>5
  <2>7. ASSUME NEW x \in Ops PROVE Journals1(x)'
    BY <1>0, <2>1, <2>2, <2>4, <2>6 DEF TimesOrdered
  <2> QED
    BY <2>2, <2>7 DEF TimesOrdered
<1>5. CASE Project
  <2> DEFINE j == journal[lock]
  <2>1. /\ lock \in Ops /\ j \in Journals /\ RecordAllowed(record, lock, j)
        /\ record' = RecordAfter(record, lock, j)
        /\ UNCHANGED <<journal, clock>>
    BY <1>5 DEF Project
  <2>2. CASE AlreadyRecorded(record, lock)
    BY <2>1, <2>2 DEF RecordAfter, TimesOrdered
  <2>3. CASE ~AlreadyRecorded(record, lock)
    <3>1. record' = ProjectedRecord(record, lock, j) /\ RecordValid(record')
      BY <2>1, <2>3 DEF RecordAfter, RecordAllowed
    <3>2. record'.updatedAt = UpdatedAt(j)
      BY <3>1 DEF ProjectedRecord
    <3>3. UpdatedAt(j) <= clock
      BY <2>1, JournalSentinelAssumption DEF TimesOrdered
    <3> QED
      BY <2>1, <3>1, <3>2, <3>3 DEF TimesOrdered
  <2> QED
    BY <2>2, <2>3
<1> QED
  BY <1>1, <1>2, <1>3, <1>4, <1>5 DEF DiskStep

\* With a clock that only moves forward, every journal reads back.
THEOREM JournalsAreReadable ==
    ASSUME "clock" \notin Faults PROVE Spec => []JournalsReadable
<1>1. Init => TypeOK /\ CallOK /\ TimesOrdered
  BY MaxTimeAssumption
  DEF Init, TypeOK, CallOK, TimesOrdered, Idle, Calls, Steps, BackupRecords, Times
<1>2. TypeOK /\ CallOK /\ TimesOrdered /\ [Next]_vars => TypeOK' /\ CallOK' /\ TimesOrdered'
  BY TypeStep, CallStep, StepsOfTheDisk, ClockAdvances, TimesStep
<1>3. TimesOrdered => JournalsReadable
  BY DEF TimesOrdered, JournalsReadable, Readable
<1> QED
  BY <1>1, <1>2, <1>3, PTL DEF Spec

LEMMA OwnerStep ==
    ASSUME TypeOK, InventoryEarned, TimesOrdered, OwnerCurrent, DiskStep
    PROVE  OwnerCurrent'
<1> USE SentinelAssumption, BlankAssumption
<1>1. CASE Rest
  BY <1>1 DEF Rest, OwnerCurrent
<1>2. CASE Acquire \/ Release
  BY <1>2 DEF Acquire, Release, OwnerCurrent
<1>3. ASSUME NEW q \in ValidRequests, Open(q) PROVE OwnerCurrent'
  <2>1. journal'[q.op] = NewJournal(q, clock) /\ journal[q.op] = NoJournal
    BY <1>3, OpenedJournal
  <2>2. lock' = q.op /\ record' = record /\ CurrentStateAllows(record, q.kind, q.from)
    BY <1>3 DEF Open
  <2>3. StartedAt(NewJournal(q, clock)) = clock
    BY FirstJournalValid DEF TypeOK
  <2>4. NewJournal(q, clock).kind = q.kind /\ NewJournal(q, clock).from = q.from
    BY DEF NewJournal
  <2>5. record # NoRecord => record.updatedAt <= clock
    BY DEF TimesOrdered
  <2> QED
    BY <2>1, <2>2, <2>3, <2>4, <2>5 DEF OwnerCurrent
<1>4. ASSUME NEW o \in Ops, NEW p \in Phases, NEW b \in BackupIds \cup {NoBackup},
             Extend(o, p, b)
      PROVE  OwnerCurrent'
  <2> DEFINE j == journal[o]
             k == AppendEvent(j, p, b, clock)
  <2>1. /\ j \in Journals /\ JournalValid(j) /\ journal'[o] = k
        /\ journal'[o].kind = j.kind /\ journal'[o].from = j.from
    BY <1>4, ExtendedJournal
  <2>2. lock = o /\ lock' = o /\ record' = record /\ TransitionAllowed(j, p, b)
    BY <1>4 DEF Extend
  <2>3. UpdatedAt(j) <= clock
    BY <2>1, JournalSentinelAssumption DEF TimesOrdered
  <2>4. StartedAt(k) = StartedAt(j)
    BY <2>1, <2>2, <2>3, ExtensionValid DEF TypeOK
  <2>5. j # NoJournal
    BY <2>1, JournalSentinelAssumption
  <2> HIDE DEF k
  <2> QED
    BY <2>1, <2>2, <2>4, <2>5 DEF OwnerCurrent, AlreadyRecorded
<1>5. CASE Project
  <2>1. /\ lock \in Ops /\ journal[lock] \in Journals
        /\ RecordAllowed(record, lock, journal[lock])
        /\ record' = RecordAfter(record, lock, journal[lock]) /\ lock' = lock
    BY <1>5 DEF Project
  <2>2. record' \in InstallationRecords
    BY <2>1, ProjectionType DEF TypeOK
  <2>3. record'.lastOp = lock
    BY <2>1 DEF RecordAfter, AlreadyRecorded, ProjectedRecord
  <2> QED
    BY <2>1, <2>2, <2>3, RecordSentinelAssumption DEF OwnerCurrent, AlreadyRecorded
<1> QED
  BY <1>1, <1>2, <1>3, <1>4, <1>5 DEF DiskStep

\* The projection of a journal that started after the record was last changed
\* is a valid record: its times are in order.
LEMMA ProjectionValid ==
    ASSUME NEW r \in InstallationRecords \cup {NoRecord}, NEW o \in Ops,
           NEW j \in Journals, JournalValid(j), ChangesInstallation(j),
           CurrentStateAllows(r, j.kind, j.from),
           StartedAt(j) <= UpdatedAt(j),
           r # NoRecord => RecordValid(r) /\ r.updatedAt <= StartedAt(j)
    PROVE  RecordValid(ProjectedRecord(r, o, j))
<1> DEFINE new == ProjectedRecord(r, o, j)
<1>1. StartedAt(j) \in Nat /\ UpdatedAt(j) \in Nat
  BY TimesOfJournal, MaxTimeAssumption DEF Times
<1>2. new.installedAt <= new.updatedAt
  <2>1. CASE j.kind = "install"
    BY <2>1 DEF ProjectedRecord
  <2>2. CASE j.kind # "install"
    <3>1. r # NoRecord /\ r \in InstallationRecords
      BY <2>2 DEF CurrentStateAllows, IsActive
    <3>2. r.installedAt \in Nat /\ r.updatedAt \in Nat
      BY <3>1, MaxTimeAssumption DEF InstallationRecords, Times
    <3>3. r.installedAt <= r.updatedAt /\ r.updatedAt <= StartedAt(j)
      BY <3>1 DEF RecordValid
    <3>4. new.installedAt = r.installedAt /\ new.updatedAt = UpdatedAt(j)
      BY <2>2 DEF ProjectedRecord
    <3> HIDE DEF new
    <3> QED
      BY <1>1, <3>2, <3>3, <3>4
  <2> QED
    BY <2>1, <2>2
<1>3. /\ new.state = "uninstalled" => new.lastKind = "uninstall"
      /\ new.state = "active" => new.lastKind \notin {"backup", "uninstall"}
  BY DEF ProjectedRecord, ChangesInstallation
<1> QED
  BY <1>2, <1>3 DEF RecordValid

\* With a clock that only moves forward, the effect of a finished operation can
\* always be recorded, so its lock can always be released.
THEOREM FinalizationIsPossible ==
    ASSUME "clock" \notin Faults PROVE Spec => []FinalizationPossible
<1> DEFINE Inv == TypeOK /\ CallOK /\ InventoryEarned /\ TimesOrdered /\ OwnerCurrent
<1>1. Init => Inv
  BY MaxTimeAssumption, SentinelAssumption
  DEF Init, TypeOK, CallOK, InventoryEarned, TimesOrdered, OwnerCurrent, Idle,
      Calls, Steps, BackupRecords, Times
<1>2. Inv /\ [Next]_vars => Inv'
  BY TypeStep, CallStep, StepsOfTheDisk, ClockAdvances, InventoryStep, TimesStep, OwnerStep
<1>3. Inv => FinalizationPossible
  <2> SUFFICES ASSUME Inv, NEW o \in Ops, lock = o, Readable(o),
                      ChangesInstallation(journal[o])
               PROVE  RecordAllowed(record, o, journal[o])
    BY DEF FinalizationPossible, Holds
  <2>1. journal[o] \in Journals /\ JournalValid(journal[o]) /\ journal[o] # NoJournal
    BY ReadableType DEF Readable
  <2>2. CASE AlreadyRecorded(record, o)
    <3>1. record.lastEvent = Len(journal[o].events)
      BY <2>2 DEF InventoryEarned, AlreadyRecorded
    <3> QED
      BY <2>1, <2>2, <3>1 DEF RecordAllowed
  <2>3. CASE ~AlreadyRecorded(record, o)
    <3>1. /\ CurrentStateAllows(record, journal[o].kind, journal[o].from)
          /\ record # NoRecord => /\ RecordValid(record)
                                  /\ record.updatedAt <= StartedAt(journal[o])
          /\ StartedAt(journal[o]) <= UpdatedAt(journal[o])
      BY <2>1, <2>3 DEF OwnerCurrent, TimesOrdered
    <3>2. RecordValid(ProjectedRecord(record, o, journal[o]))
      BY <2>1, <3>1, ProjectionValid DEF TypeOK
    <3> QED
      BY <2>1, <2>3, <3>1, <3>2 DEF RecordAllowed
  <2> QED
    BY <2>2, <2>3
<1> HIDE DEF Inv
<1> QED
  BY <1>1, <1>2, <1>3, PTL DEF Spec
=============================================================================
