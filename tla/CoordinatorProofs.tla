------------------------- MODULE CoordinatorProofs -------------------------
(***************************************************************************)
(* Theorems about Coordinator, for any number of operations, versions and  *)
(* backups, any kinds requested and any faults.  That the coordinator      *)
(* calls the store as LifecycleStore specifies it, and so inherits what is *)
(* proved of the store, holds for any number of sessions; what it promises *)
(* of the target holds as long as one session runs at a time, and the run  *)
(* coordinator_concurrent shows that it does not hold with two.            *)
(***************************************************************************)
EXTENDS Coordinator, LifecycleStoreProofs

\* No two requests are served at once.
OneSession == \A s, t \in Callers : s = t

-----------------------------------------------------------------------------
(* The inductive invariant: the sessions.                                  *)

\* A session that works knows its request and, once it recorded a backup, the
\* backup's identity.
Asked ==
    \A s \in Callers :
        /\ ~At(s, "idle") => session[s].request \in Requests
        /\ At(s, "backup-recorded") => session[s].safety \in BackupIds

\* The call in progress is the Begin of the session's request or its last
\* transition, and nobody goes on before it returns.
InCall ==
    call # Idle =>
        \A s \in Callers :
            /\ reply[s] = "none"
            /\ IF call.begin = {} THEN At(s, "closing")
                                  ELSE At(s, "began") /\ call.begin = {session[s].request}
            /\ call.at = "plan" => /\ JournalValid(journal[lock])
                                   /\ JournalRequest(lock) = session[s].request

\* The session's operation owns the deployment and is in one of the phases.
Owner(s, phases) ==
    /\ Holds(Op(s)) /\ Readable(Op(s))
    /\ JournalRequest(Op(s)) = session[s].request
    /\ Phase(journal[Op(s)]) \in phases

\* The backup is the one the operation took of the version it started from.
OwnRef(o, b) == b \in BackupIds /\ backups[b] = [op |-> o, version |-> journal[o].from]

OwnBackup(s) == TakesBackup(Kind(s)) => OwnRef(Op(s), session[s].safety)

\* The phases of its operation in which a session is at a place, and whether
\* that takes an answer of the store.
Began(s) ==
    /\ At(s, "began") /\ Ok(s) => Owner(s, {"prepared"})
    /\ At(s, "backup") \/ At(s, "backup-recorded") =>
          Owner(s, {"prepared"}) /\ TakesBackup(Kind(s))
    /\ At(s, "backup-recorded") /\ Ok(s) => OwnBackup(s)
    /\ At(s, "backup-complete") /\ Ok(s) =>
          Owner(s, {"backup-complete"}) /\ TakesBackup(Kind(s)) /\ OwnBackup(s)
    /\ At(s, "stage") =>
          /\ IF TakesBackup(Kind(s)) THEN Owner(s, {"backup-complete"})
                                     ELSE Owner(s, {"prepared"})
          /\ Kind(s) # "backup" /\ OwnBackup(s)
    /\ At(s, "safe-close") => Owner(s, {"prepared", "backup-complete"})

Reached(version) == ~target.dirty /\ target.version = version

Changing(s) ==
    /\ At(s, "staged") /\ Ok(s) => Owner(s, {"staged"}) /\ OwnBackup(s)
    /\ At(s, "apply") => Owner(s, {"staged"}) /\ OwnBackup(s)
    /\ At(s, "apply-done") =>
          Owner(s, {"staged"}) /\ OwnBackup(s) /\ Reached(Goal(s))
    /\ At(s, "applied") =>
          /\ IF Ok(s) THEN Owner(s, {"applied"}) ELSE Owner(s, {"staged"})
          /\ OwnBackup(s)
    /\ At(s, "verify") => Owner(s, {"applied"}) /\ OwnBackup(s)
    /\ At(s, "verified") =>
          /\ IF Ok(s) THEN Owner(s, {"verified"}) ELSE Owner(s, {"applied"})
          /\ OwnBackup(s)

Recovering(s) ==
    /\ At(s, "begin-recovery") => Owner(s, {"staged", "applied", "verified"}) /\ OwnBackup(s)
    /\ At(s, "recovery-started") =>
          /\ IF Ok(s) THEN Owner(s, {"recovery-started"})
                      ELSE Owner(s, {"staged", "applied", "verified"})
          /\ OwnBackup(s)
    /\ At(s, "recover") => Owner(s, {"recovery-started"}) /\ OwnBackup(s)
    /\ At(s, "recover-done") => Owner(s, {"recovery-started"}) /\ Reached(Origin(s))

Fits(s) == Began(s) /\ Changing(s) /\ Recovering(s)

Control == \A s \in Callers : Fits(s)

-----------------------------------------------------------------------------
(* The inductive invariant: the disk and the target.                       *)

\* What the journal of an operation tells of its backups and of the phases it
\* went through, because the coordinator takes no other transitions.
JournalTells(o) ==
    LET j == journal[o] IN
    /\ \A i \in DOMAIN j.events :
          j.events[i].phase = "backup-complete" => OwnRef(o, j.events[i].ref)
    /\ TakesBackup(j.kind) /\ Phase(j) \notin {"prepared", "failed"} =>
          "backup-complete" \in Seen(j)
    /\ Phase(j) \in {"prepared", "backup-complete", "staged", "applied", "verified"} =>
          "recovery-started" \notin Seen(j)
    /\ Phase(j) \in {"staged", "applied", "verified"} => "staged" \in Seen(j)
    /\ Phase(j) \in {"staged", "applied", "verified", "recovery-started", "recovered"} =>
          j.kind # "backup"

JournalsTell == \A o \in Ops : journal[o] # NoJournal => JournalTells(o)

\* What an operation brings, and what its recovery brings back.
Result(j) == IF j.kind = "uninstall" THEN NoVersion ELSE j.to

Before(j) == IF j.kind = "uninstall" THEN NoVersion ELSE j.from

\* The target is as the journal of the owner says.
Deployed ==
    Owned /\ Phase(journal[lock]) \in {"applied", "verified"} =>
        Reached(Result(journal[lock]))

\* An operation was closed as failed after it may have changed the target.
Lost ==
    \E o \in Ops : /\ journal[o] # NoJournal
                   /\ Phase(journal[o]) = "failed"
                   /\ "staged" \in Seen(journal[o])
                   /\ "recovery-started" \notin Seen(journal[o])

Settled == Reached(Installed)

\* Where the target is while the owner is in its phase; while it is staged or
\* being recovered, anywhere.
TargetFits ==
    IF ~Owned THEN Settled
    ELSE LET j == journal[lock] IN
         /\ Phase(j) \in {"prepared", "backup-complete", "failed"} => Settled
         /\ Phase(j) = "committed" => IF j.kind = "backup" THEN Settled ELSE Reached(Result(j))
         /\ Phase(j) = "recovered" => Reached(Before(j))

\* The invariant of the store, with a clock that stands still.
StoreInv ==
    TypeOK /\ CallOK /\ TimesOrdered /\ InventoryEarned /\ OwnerCurrent

Inv ==
    /\ CoordinatorTypeOK /\ Asked
    /\ StoreInv
    /\ InCall /\ Control
    /\ JournalsTell
    /\ Deployed
    /\ Lost \/ TargetFits

-----------------------------------------------------------------------------
(* Any number of sessions: types, and the calls the store receives.        *)

\* Nothing leads back to prepared, and only prepared to backup-complete.
LEMMA TransitionsInto ==
    ASSUME NEW p
    PROVE  /\ <<p, "prepared">> \notin Transitions
           /\ <<p, "backup-complete">> \in Transitions => p = "prepared"
BY DEF Transitions

\* The safety backup of a valid journal is one its backup-complete event names,
\* or it has no such event.
LEMMA NamedBackup ==
    ASSUME NEW j \in Journals, JournalValid(j)
    PROVE  \/ SafetyBackup(j) = NoBackup /\ "backup-complete" \notin Seen(j)
           \/ \E i \in DOMAIN j.events : /\ j.events[i].phase = "backup-complete"
                                         /\ SafetyBackup(j) = j.events[i].ref
<1> DEFINE named == { i \in DOMAIN j.events : j.events[i].phase = "backup-complete" }
           P(i) == \A k \in named : k <= i
<1>1. CASE named = {}
  BY <1>1 DEF SafetyBackup, Seen
<1>2. CASE named # {}
  <2>1. DOMAIN j.events = 1..Len(j.events) /\ Len(j.events) \in Nat
    BY DEF Journals
  <2>2. ASSUME NEW i \in named PROVE i = 1 \/ i = 2
    <3>1. SUFFICES ASSUME i # 1, i # 2 PROVE FALSE
      OBVIOUS
    <3>2. i \in 2..Len(j.events) /\ i - 1 \in 2..Len(j.events)
      BY <2>1, <3>1
    <3>3. /\ <<j.events[i-1].phase, j.events[i].phase>> \in Transitions
          /\ <<j.events[(i-1)-1].phase, j.events[i-1].phase>> \in Transitions
      BY <3>2 DEF JournalValid
    <3> QED
      BY <3>3, TransitionsInto
  <2>3. \E m \in named : P(m)
    <3>1. CASE 2 \in named
      BY <2>2, <3>1
    <3>2. CASE 2 \notin named
      BY <1>2, <2>2, <3>2
    <3> QED
      BY <3>1, <3>2
  <2> DEFINE m == CHOOSE i \in named : P(i)
  <2>4. m \in named
    BY <2>3
  <2>5. SafetyBackup(j) = j.events[m].ref
    BY <1>2 DEF SafetyBackup
  <2> HIDE DEF m
  <2> QED
    BY <2>4, <2>5
<1> QED
  BY <1>1, <1>2

LEMMA SafetyBackupType ==
    ASSUME NEW j \in Journals, JournalValid(j)
    PROVE  SafetyBackup(j) \in BackupIds \cup {NoBackup}
<1>1. CASE SafetyBackup(j) = NoBackup
  BY <1>1
<1>2. ASSUME NEW i \in DOMAIN j.events, SafetyBackup(j) = j.events[i].ref
      PROVE  SafetyBackup(j) \in BackupIds \cup {NoBackup}
  <2>1. j.events \in Seq(Events)
    BY DEF Journals
  <2>2. j.events[i] \in Events
    BY <2>1
  <2> QED
    BY <1>2, <2>2 DEF Events
<1> QED
  BY <1>1, <1>2, NamedBackup

\* A journal gives back the request it was opened with.
LEMMA JournalRequestType ==
    ASSUME NEW o \in Ops, journal[o] \in Journals
    PROVE  JournalRequest(o) \in Requests
BY DEF JournalRequest, Journals, Requests

\* Where a session that works may go on to.
Working == Places \ {"idle", "backup-recorded"}

LEMMA MoveType ==
    ASSUME CoordinatorTypeOK, Asked, NEW s \in Callers, ~At(s, "idle"),
           NEW place \in Working, Move(s, place)
    PROVE  session' \in [Callers -> Sessions] /\ Asked'
<1>1. session \in [Callers -> Sessions]
  BY DEF CoordinatorTypeOK
<1>2. session' = [session EXCEPT ![s].at = place] /\ place \in Places
  BY DEF Move, Working
<1>3. session' \in [Callers -> Sessions]
  BY <1>1, <1>2 DEF Sessions
<1>4. ASSUME NEW t \in Callers
      PROVE  /\ ~At(t, "idle")' => session'[t].request \in Requests
             /\ At(t, "backup-recorded")' => session'[t].safety \in BackupIds
  <2>1. CASE t = s
    <3>1. session'[t].at = place /\ session'[t].request = session[t].request
      BY <1>1, <1>2, <2>1 DEF Sessions
    <3> QED
      BY <2>1, <3>1 DEF Asked, At, Working
  <2>2. CASE t # s
    BY <1>1, <1>2, <2>2 DEF Asked, At
  <2> QED
    BY <2>1, <2>2
<1> QED
  BY <1>3, <1>4 DEF Asked

\* A session is set as a whole: it starts, takes an operation over or ends.
LEMMA SetType ==
    ASSUME CoordinatorTypeOK, Asked, NEW s \in Callers, NEW new \in Sessions,
           new.at # "idle" => new.request \in Requests,
           new.at = "backup-recorded" => new.safety \in BackupIds,
           session' = [session EXCEPT ![s] = new]
    PROVE  session' \in [Callers -> Sessions] /\ Asked'
<1>1. session \in [Callers -> Sessions]
  BY DEF CoordinatorTypeOK
<1>2. session' \in [Callers -> Sessions]
  BY <1>1
<1>3. ASSUME NEW t \in Callers
      PROVE  /\ ~At(t, "idle")' => session'[t].request \in Requests
             /\ At(t, "backup-recorded")' => session'[t].safety \in BackupIds
  BY <1>1 DEF Asked, At
<1> QED
  BY <1>2, <1>3 DEF Asked

LEMMA IdleType == IdleSession \in Sessions /\ IdleSession.at = "idle"
BY DEF IdleSession, Sessions, Places, NoRequest

\* What the steps of a session amount to: a transition of its operation, a
\* step of its own, its end, or the record of a backup.
Transits(s) ==
    \E p \in Phases, place \in Working : \E b \in References(p) : Advance(s, p, b, place)

StepsAlone(s) ==
    \E place \in Working :
        /\ Move(s, place) /\ Local
        /\ target' \in [version : Versions \cup {NoVersion}, dirty : BOOLEAN]

Ends(s) == Finish(s) /\ Local /\ UNCHANGED target

Records(s) ==
    \E b \in BackupIds :
        /\ RecordBackup(s, Op(s), b)
        /\ session' = [session EXCEPT ![s].at = "backup-recorded", ![s].safety = b]
        /\ UNCHANGED target

LEMMA SessionSteps ==
    ASSUME CoordinatorTypeOK, Asked, NEW s \in Callers, SessionStep(s)
    PROVE  /\ ~At(s, "idle")
           /\ Transits(s) \/ StepsAlone(s) \/ Ends(s) \/ Records(s)
<1> USE DEF At, Replied
<1>0. ASSUME NEW p \in Phases, NEW place \in Working, NEW b \in References(p),
             Advance(s, p, b, place)
      PROVE  Transits(s)
  BY <1>0 DEF Transits
<1>1. \A p \in Phases \ {"backup-complete"} : NoBackup \in References(p)
  BY DEF References
<1>2. /\ session[s].safety \in References("recovery-started")
      /\ session[s].at = "backup-recorded" => session[s].safety \in References("backup-complete")
  BY DEF References, CoordinatorTypeOK, Sessions, Asked
<1>3. /\ {"staged", "backup-complete", "stage", "verify", "applied", "verified", "closing",
          "backup", "apply", "apply-done", "recovery-started", "recover",
          "recover-done"} \subseteq Working
      /\ {"staged", "backup-complete", "failed", "committed", "applied", "verified",
          "recovery-started", "recovered"} \subseteq Phases \ {"prepared"}
  BY DEF Working, Places, Phases
<1>4. target \in [version : Versions \cup {NoVersion}, dirty : BOOLEAN]
  BY DEF CoordinatorTypeOK
<1>5. ASSUME EnterRecovery(s) PROVE Transits(s)
  BY <1>0, <1>2, <1>3, <1>5 DEF EnterRecovery
<1>6. ASSUME NEW place \in Working, Move(s, place), Local, UNCHANGED target PROVE StepsAlone(s)
  BY <1>4, <1>6 DEF StepsAlone
<1>7. ASSUME session[s].at # "idle" PROVE session[s].request \in Requests
  BY <1>7 DEF Asked
<1>10. ASSUME RunBegun(s)
       PROVE  session[s].at # "idle" /\ (Transits(s) \/ StepsAlone(s) \/ Ends(s))
  BY <1>0, <1>1, <1>3, <1>6, <1>10 DEF RunBegun, Ends
<1>11. ASSUME RunBackup(s)
       PROVE  session[s].at # "idle" /\ (Transits(s) \/ Records(s))
  BY <1>0, <1>1, <1>3, <1>11 DEF RunBackup, Records
<1>12. ASSUME RunBackupRecorded(s) PROVE session[s].at # "idle" /\ Transits(s)
  BY <1>0, <1>1, <1>2, <1>3, <1>12 DEF RunBackupRecorded
<1>13. ASSUME RunBackupComplete(s)
       PROVE  session[s].at # "idle" /\ (Transits(s) \/ StepsAlone(s) \/ Ends(s))
  BY <1>0, <1>1, <1>3, <1>6, <1>13 DEF RunBackupComplete, Ends
<1>14. ASSUME RunStage(s) PROVE session[s].at # "idle" /\ Transits(s)
  BY <1>0, <1>1, <1>3, <1>14 DEF RunStage
<1>15. ASSUME RunStaged(s) PROVE session[s].at # "idle" /\ (StepsAlone(s) \/ Ends(s))
  BY <1>3, <1>6, <1>15 DEF RunStaged, Ends
<1>16. ASSUME RunApplyDone(s) PROVE session[s].at # "idle" /\ Transits(s)
  BY <1>0, <1>1, <1>3, <1>16 DEF RunApplyDone
<1>17. ASSUME RunApplied(s) PROVE session[s].at # "idle" /\ (Transits(s) \/ StepsAlone(s))
  BY <1>0, <1>1, <1>3, <1>5, <1>6, <1>17 DEF RunApplied
<1>18. ASSUME RunVerify(s) PROVE session[s].at # "idle" /\ Transits(s)
  BY <1>0, <1>1, <1>3, <1>5, <1>18 DEF RunVerify
<1>19. ASSUME RunVerified(s) PROVE session[s].at # "idle" /\ Transits(s)
  BY <1>0, <1>1, <1>3, <1>5, <1>19 DEF RunVerified
<1>20. ASSUME Closed(s) PROVE session[s].at # "idle" /\ Ends(s)
  BY <1>20 DEF Closed, Ends
<1>21. ASSUME ApplySucceeds(s) PROVE session[s].at # "idle" /\ StepsAlone(s)
  <2>1. Goal(s) \in Versions \cup {NoVersion}
    BY <1>7, <1>21 DEF ApplySucceeds, Goal, Requests
  <2>2. target' \in [version : Versions \cup {NoVersion}, dirty : BOOLEAN]
    BY <1>21, <2>1 DEF ApplySucceeds
  <2> QED
    BY <1>3, <1>21, <2>2 DEF ApplySucceeds, StepsAlone
<1>22. ASSUME ApplyFails(s) PROVE session[s].at # "idle" /\ Transits(s)
  BY <1>5, <1>22 DEF ApplyFails
<1>23. ASSUME RecoverSucceeds(s) PROVE session[s].at # "idle" /\ StepsAlone(s)
  <2>1. Origin(s) \in Versions \cup {NoVersion}
    BY <1>7, <1>23 DEF RecoverSucceeds, Origin, Requests
  <2>2. target' \in [version : Versions \cup {NoVersion}, dirty : BOOLEAN]
    BY <1>23, <2>1 DEF RecoverSucceeds
  <2> QED
    BY <1>3, <1>23, <2>2 DEF RecoverSucceeds, StepsAlone
<1>24. ASSUME RecoverFails(s) PROVE session[s].at # "idle" /\ Ends(s)
  BY <1>24 DEF RecoverFails, Ends
<1>25. ASSUME RecoverDone(s) PROVE session[s].at # "idle" /\ Transits(s)
  BY <1>0, <1>1, <1>3, <1>25 DEF RecoverDone
<1>26. ASSUME SafeClose(s) PROVE session[s].at # "idle" /\ Transits(s)
  BY <1>0, <1>1, <1>3, <1>26 DEF SafeClose
<1>27. ASSUME BeginRecovery(s) PROVE session[s].at # "idle" /\ Transits(s)
  BY <1>5, <1>27 DEF BeginRecovery
<1>28. ASSUME RecoveryStarted(s)
       PROVE  session[s].at # "idle" /\ (Transits(s) \/ StepsAlone(s) \/ Ends(s))
  BY <1>0, <1>1, <1>3, <1>6, <1>28 DEF RecoveryStarted, Ends
<1> QED
  BY <1>10, <1>11, <1>12, <1>13, <1>14, <1>15, <1>16, <1>17, <1>18, <1>19, <1>20,
     <1>21, <1>22, <1>23, <1>24, <1>25, <1>26, <1>27, <1>28
  DEF SessionStep

\* Whatever a session does, the store sees one of the calls it specifies, and
\* the types hold.
LEMMA SessionStepsCallStore ==
    ASSUME CoordinatorTypeOK, Asked, NEW s \in Callers, SessionStep(s)
    PROVE  /\ [Next]_vars
           /\ session' \in [Callers -> Sessions]
           /\ target' \in [version : Versions \cup {NoVersion}, dirty : BOOLEAN]
           /\ Asked'
<1>1. ~At(s, "idle") /\ session[s].request \in Requests /\ Op(s) \in Ops
  BY SessionSteps DEF Asked, Requests, Op
<1>2. /\ session \in [Callers -> Sessions]
      /\ target \in [version : Versions \cup {NoVersion}, dirty : BOOLEAN]
  BY DEF CoordinatorTypeOK
<1>3. CASE Transits(s)
  <2>1. PICK p \in Phases, place \in Working : \E b \in References(p) : Advance(s, p, b, place)
    BY <1>3 DEF Transits
  <2>2. Next
    BY <1>1, <2>1 DEF Next, Advance
  <2>3. Move(s, place) /\ target' = target
    BY <2>1 DEF Advance
  <2> QED
    BY <1>1, <1>2, <2>2, <2>3, MoveType
<1>4. CASE StepsAlone(s)
  BY <1>1, <1>4, MoveType DEF StepsAlone, Local
<1>5. CASE Ends(s)
  BY <1>2, <1>5, SetType, IdleType DEF Ends, Finish, Local
<1>6. CASE Records(s)
  <2>1. PICK b \in BackupIds :
          /\ RecordBackup(s, Op(s), b)
          /\ session' = [session EXCEPT ![s].at = "backup-recorded", ![s].safety = b]
          /\ UNCHANGED target
    BY <1>6 DEF Records
  <2>2. Next
    BY <1>1, <2>1 DEF Next
  <2> DEFINE new == [session[s] EXCEPT !.at = "backup-recorded", !.safety = b]
  <2>3. new \in Sessions /\ new.safety = b /\ new.request = session[s].request
    BY <1>2 DEF Sessions, Places
  <2>4. session' = [session EXCEPT ![s] = new]
    BY <1>2, <2>1
  <2> HIDE DEF new
  <2> QED
    BY <1>1, <1>2, <2>1, <2>2, <2>3, <2>4, SetType
<1> QED
  BY <1>3, <1>4, <1>5, <1>6, SessionSteps

\* Whatever the sessions do, the store sees one of the calls it specifies.
LEMMA CoordinatorCallsStore ==
    CoordinatorTypeOK /\ Asked /\ [CoordinatorNext]_cvars =>
        /\ [Next]_vars
        /\ session' \in [Callers -> Sessions]
        /\ target' \in [version : Versions \cup {NoVersion}, dirty : BOOLEAN]
        /\ Asked'
<1> SUFFICES ASSUME CoordinatorTypeOK, Asked, [CoordinatorNext]_cvars
             PROVE  /\ [Next]_vars
                    /\ session' \in [Callers -> Sessions]
                    /\ target' \in [version : Versions \cup {NoVersion}, dirty : BOOLEAN]
                    /\ Asked'
  OBVIOUS
<1>1. /\ session \in [Callers -> Sessions]
      /\ target \in [version : Versions \cup {NoVersion}, dirty : BOOLEAN]
  BY DEF CoordinatorTypeOK
<1>2. UNCHANGED session => session' \in [Callers -> Sessions] /\ Asked'
  BY <1>1 DEF Asked, At
<1>3. CASE StoreStep
  BY <1>1, <1>2, <1>3 DEF StoreStep, Next
<1>4. CASE ProcessCrash
  <2>1. session' = [t \in Callers |-> IdleSession] /\ Crash /\ UNCHANGED target
    BY <1>4 DEF ProcessCrash
  <2> QED
    BY <1>1, <2>1, IdleType DEF Asked, At, Next
<1>5. ASSUME NEW s \in Callers, NEW q \in ValidRequests, RunStart(s, q)
      PROVE  Next /\ session' \in [Callers -> Sessions] /\ Asked' /\ UNCHANGED target
  <2> DEFINE new == [at |-> "began", role |-> "run", request |-> q, safety |-> NoBackup]
  <2>1. new \in Sessions /\ new.request \in Requests /\ new.at = "began"
    BY DEF Sessions, Places, ValidRequests
  <2>2. Begin(s, q) /\ session' = [session EXCEPT ![s] = new] /\ UNCHANGED target
    BY <1>5 DEF RunStart
  <2> HIDE DEF new
  <2> QED
    BY <2>1, <2>2, SetType DEF Next
<1>6. ASSUME NEW s \in Callers, RecoverActive(s)
      PROVE  UNCHANGED vars /\ session' \in [Callers -> Sessions] /\ Asked' /\ UNCHANGED target
  <2> DEFINE new(place) == [at |-> place, role |-> "recover", request |-> JournalRequest(lock),
                            safety |-> SafetyBackup(journal[lock])]
             places == {"safe-close", "recover", "begin-recovery"}
  <2>1. lock \in Ops /\ journal[lock] \in Journals /\ JournalValid(journal[lock])
    BY <1>6, ReadableType DEF RecoverActive, CoordinatorTypeOK
  <2>2. /\ JournalRequest(lock) \in Requests
        /\ SafetyBackup(journal[lock]) \in BackupIds \cup {NoBackup}
    BY <2>1, JournalRequestType, SafetyBackupType
  <2>3. \A place \in places : new(place) \in Sessions
    BY <2>2 DEF Sessions, Places
  <2>4. /\ UNCHANGED vars /\ UNCHANGED target
        /\ \E place \in places : session' = [session EXCEPT ![s] = new(place)]
    BY <1>6 DEF RecoverActive, Local
  <2>5. \A place \in places : /\ new(place).request \in Requests
                              /\ new(place).at # "backup-recorded"
    BY <2>2
  <2> HIDE DEF new, places
  <2> QED
    BY <2>3, <2>4, <2>5, SetType
<1>7. ASSUME NEW s \in Callers, ApplyDisturbs(s) \/ RecoverDisturbs(s)
      PROVE  /\ UNCHANGED vars /\ UNCHANGED session
             /\ target' \in [version : Versions \cup {NoVersion}, dirty : BOOLEAN]
  BY <1>1, <1>7 DEF ApplyDisturbs, RecoverDisturbs, Disturb, Local
<1>8. CASE UNCHANGED cvars
  BY <1>1, <1>2, <1>8 DEF cvars
<1> QED
  BY <1>1, <1>2, <1>3, <1>4, <1>5, <1>6, <1>7, <1>8, SessionStepsCallStore DEF CoordinatorNext

\* The types hold, and the store is used as it specifies.
LEMMA CoordinatorTypeStep ==
    CoordinatorTypeOK /\ CallOK /\ Asked /\ [CoordinatorNext]_cvars
        => CoordinatorTypeOK' /\ CallOK' /\ Asked' /\ [Next]_vars
<1> SUFFICES ASSUME CoordinatorTypeOK, CallOK, Asked, [CoordinatorNext]_cvars
             PROVE  CoordinatorTypeOK' /\ CallOK' /\ Asked' /\ [Next]_vars
  OBVIOUS
<1>1. /\ [Next]_vars /\ Asked'
      /\ session' \in [Callers -> Sessions]
      /\ target' \in [version : Versions \cup {NoVersion}, dirty : BOOLEAN]
  BY CoordinatorCallsStore
<1>2. TypeOK
  BY DEF CoordinatorTypeOK
<1>3. TypeOK' /\ CallOK'
  BY <1>1, <1>2, TypeStep, CallStep
<1> QED
  BY <1>1, <1>3 DEF CoordinatorTypeOK

LEMMA CoordinatorInitType == CoordinatorInit => CoordinatorTypeOK /\ CallOK /\ Asked
<1> SUFFICES ASSUME CoordinatorInit PROVE CoordinatorTypeOK /\ CallOK /\ Asked
  OBVIOUS
<1>1. TypeOK /\ CallOK
  BY MaxTimeAssumption
  DEF CoordinatorInit, Init, TypeOK, CallOK, Idle, Calls, Steps, BackupRecords, Times
<1> QED
  BY <1>1, IdleType DEF CoordinatorInit, CoordinatorTypeOK, Asked, At

\* Coordinator.Run and RecoverActive keep their requests, their backups and the
\* target what they are, whatever number of sessions there is.
THEOREM CoordinatorTypeCorrect == CoordinatorSpec => []CoordinatorTypeOK
<1>1. CoordinatorTypeOK /\ CallOK /\ Asked /\ [CoordinatorNext]_cvars
        => CoordinatorTypeOK' /\ CallOK' /\ Asked'
  BY CoordinatorTypeStep
<1> QED
  BY <1>1, CoordinatorInitType, PTL DEF CoordinatorSpec

\* Every behaviour of the coordinator, with any number of sessions, is one of
\* the store (operations.journalStore): what is proved of Spec holds of it.
THEOREM CoordinatorUsesStore == CoordinatorSpec => Spec
<1>1. CoordinatorInit => Init
  BY DEF CoordinatorInit
<1>2. CoordinatorTypeOK /\ CallOK /\ Asked /\ [CoordinatorNext]_cvars
        => CoordinatorTypeOK' /\ CallOK' /\ Asked' /\ [Next]_vars
  BY CoordinatorTypeStep
<1> QED
  BY <1>1, <1>2, CoordinatorInitType, PTL DEF CoordinatorSpec, Spec

-----------------------------------------------------------------------------
(* The store under the coordinator, whose clock stands still.              *)

\* What exists in the backup directory is not written again.
BackupsKept == \A b \in BackupIds : backups[b] # NoBackupRecord => backups'[b] = backups[b]

LEMMA BackupsStep == TypeOK /\ [Next]_vars => BackupsKept
<1> SUFFICES ASSUME TypeOK, [Next]_vars PROVE BackupsKept
  OBVIOUS
<1>1. ASSUME NEW c \in Callers, NEW o \in Ops, NEW b \in BackupIds, RecordBackup(c, o, b)
      PROVE  BackupsKept
  BY <1>1 DEF RecordBackup, BackupsKept, Reject, disk, TypeOK
<1>2. CASE UNCHANGED backups
  BY <1>2 DEF BackupsKept
<1>3. ASSUME NEW c \in Callers, NEW q \in ValidRequests, Begin(c, q) PROVE UNCHANGED backups
  BY <1>3 DEF Begin, BeginUnlocked, BeginReconciles, BeginRefused, Reject, disk
<1>4. ASSUME NEW c \in Callers, NEW o \in Ops, NEW p \in Phases, NEW b \in References(p),
             Transition(c, o, p, b)
      PROVE  UNCHANGED backups
  BY <1>4 DEF Transition, TransitionRepeated, TransitionWritten, TransitionRefused, Reject, disk
<1>5. HandlerStep \/ Crash \/ Tick \/ UNCHANGED vars => UNCHANGED backups
  BY DEF HandlerStep, CreateLock, WriteLock, WriteFirstJournal, WritePlan, WriteRecord,
         RemoveLock, Crash, Tick, vars, disk
<1> QED
  BY <1>1, <1>2, <1>3, <1>4, <1>5 DEF Next

LEMMA ClockStands == CoordinatorTypeOK /\ Asked /\ [CoordinatorNext]_cvars => clock' = clock
<1> SUFFICES ASSUME CoordinatorTypeOK, Asked, [CoordinatorNext]_cvars PROVE clock' = clock
  OBVIOUS
<1>1. ASSUME NEW s \in Callers, SessionStep(s) PROVE clock' = clock
  BY <1>1, SessionSteps
  DEF Transits, StepsAlone, Ends, Records, Advance, Local, vars, Transition,
      TransitionRepeated, TransitionWritten, TransitionRefused, RecordBackup, Reject
<1>2. ASSUME NEW s \in Callers, NEW q \in ValidRequests, RunStart(s, q) PROVE clock' = clock
  BY <1>2 DEF RunStart, Begin, BeginUnlocked, BeginReconciles, BeginRefused, Reject
<1>3. ASSUME NEW s \in Callers, RecoverActive(s) \/ ApplyDisturbs(s) \/ RecoverDisturbs(s)
      PROVE  clock' = clock
  BY <1>3 DEF RecoverActive, ApplyDisturbs, RecoverDisturbs, Disturb, Local, vars
<1>4. StoreStep \/ ProcessCrash \/ UNCHANGED cvars => clock' = clock
  BY DEF StoreStep, HandlerStep, CreateLock, WriteLock, WriteFirstJournal, WritePlan,
         WriteRecord, RemoveLock, ProcessCrash, Crash, cvars, vars
<1> QED
  BY <1>1, <1>2, <1>3, <1>4 DEF CoordinatorNext

\* The invariant of the store holds without an assumption on its clock.
LEMMA StoreInvStep ==
    CoordinatorTypeOK /\ Asked /\ StoreInv /\ [CoordinatorNext]_cvars
        => StoreInv' /\ DiskStep /\ BackupsKept
<1> SUFFICES ASSUME CoordinatorTypeOK, Asked, StoreInv, [CoordinatorNext]_cvars
             PROVE  StoreInv' /\ DiskStep /\ BackupsKept
  OBVIOUS
<1>1. TypeOK /\ CallOK /\ TimesOrdered /\ InventoryEarned /\ OwnerCurrent
  BY DEF StoreInv
<1>2. [Next]_vars
  BY CoordinatorCallsStore
<1>3. TypeOK' /\ CallOK' /\ DiskStep /\ BackupsKept
  BY <1>1, <1>2, TypeStep, CallStep, StepsOfTheDisk, BackupsStep
<1>4. clock <= clock'
  BY <1>1, ClockStands, MaxTimeAssumption DEF TypeOK, Times
<1>5. TimesOrdered' /\ InventoryEarned' /\ OwnerCurrent'
  BY <1>1, <1>3, <1>4, TimesStep, InventoryStep, OwnerStep
<1> QED
  BY <1>3, <1>5 DEF StoreInv

\* Every journal reads back.
LEMMA JournalExists ==
    ASSUME StoreInv, NEW o \in Ops, journal[o] # NoJournal
    PROVE  journal[o] \in Journals /\ JournalValid(journal[o]) /\ Readable(o)
BY DEF StoreInv, TypeOK, TimesOrdered, Readable

-----------------------------------------------------------------------------
(* One session: what a call of the store does to it.                       *)

\* A session goes on alone only when no call is in progress.
LEMMA NotInCall ==
    ASSUME InCall, NEW s \in Callers,
           reply[s] # "none" \/ ~(At(s, "began") \/ At(s, "closing"))
    PROVE  call = Idle
BY DEF InCall

\* The backup of the operation stays its backup.
LEMMA BackupStaysOwn ==
    ASSUME BackupsKept, NEW s \in Callers, Op(s) \in Ops, OwnBackup(s),
           session'[s].request = session[s].request,
           session'[s].safety = session[s].safety,
           journal'[Op(s)].from = journal[Op(s)].from
    PROVE  OwnBackup(s)'
<1>1. \A o \in Ops : \A v : [op |-> o, version |-> v] # NoBackupRecord
  BY SentinelAssumption DEF NoBackupRecord
<1>2. Op(s)' = Op(s) /\ Kind(s)' = Kind(s)
  BY DEF Op, Kind
<1> QED
  BY <1>1, <1>2 DEF OwnBackup, OwnRef, BackupsKept

LEMMA OwnerStays ==
    ASSUME NEW s \in Callers, NEW P, Owner(s, P), UNCHANGED <<lock, journal>>,
           session'[s].request = session[s].request
    PROVE  Owner(s, P)'
BY DEF Owner, Holds, Readable, JournalRequest, Op

\* A session that moves keeps its request and its backup.
LEMMA Moved ==
    ASSUME CoordinatorTypeOK, NEW s \in Callers, NEW place \in Places, Move(s, place)
    PROVE  /\ session'[s].at = place
           /\ session'[s].request = session[s].request
           /\ session'[s].safety = session[s].safety
           /\ session'[s].role = session[s].role
BY DEF CoordinatorTypeOK, Sessions, Move

\* A transition of the session's operation is written, and answered or left to
\* the finalization, or it is refused.
LEMMA Advanced ==
    ASSUME CoordinatorTypeOK, CoordinatorTypeOK', StoreInv, StoreInv', BackupsKept,
           NEW s \in Callers, NEW P, P \cap Terminal = {}, Owner(s, P),
           NEW p \in Phases, NEW b \in BackupIds \cup {NoBackup},
           NEW place \in Places, Advance(s, p, b, place)
    PROVE  /\ call = Idle /\ UNCHANGED <<backups, target>>
           /\ session'[s].at = place
           /\ session'[s].request = session[s].request
           /\ session'[s].safety = session[s].safety
           /\ session'[s].role = session[s].role
           /\ OwnBackup(s) => OwnBackup(s)'
           /\ \/ /\ Extend(Op(s), p, b) /\ Owner(s, {p})'
                 /\ IF p \in Terminal
                       THEN reply'[s] = "none" /\ call'.begin = {} /\ call'.at # "plan"
                       ELSE call' = Idle /\ Ok(s)'
              \/ /\ UNCHANGED <<lock, journal, record, clock>> /\ Owner(s, P)'
                 /\ call' = Idle /\ ~Ok(s)'
<1>0. PICK o \in Ops : o = Op(s)
  BY DEF Owner, Holds
<1> USE <1>0
<1>1. /\ call = Idle /\ UNCHANGED target
      /\ session'[s].at = place
      /\ session'[s].request = session[s].request
      /\ session'[s].safety = session[s].safety
      /\ session'[s].role = session[s].role
  BY Moved DEF Advance, Transition
<1>2. /\ o \in Ops /\ Holds(o) /\ Readable(o) /\ lock = o /\ Phase(journal[o]) \in P
      /\ JournalRequest(o) = session[s].request
  BY DEF Owner, Holds
<1>3. TypeOK /\ reply \in [Callers -> {"none", "ok", "error"}] /\ Phase(journal[o]) # "committed"
  BY <1>2 DEF CoordinatorTypeOK, TypeOK, Terminal
<1>4. CASE TransitionWritten(s, o, p, b)
  <2>1. Extend(o, p, b) /\ UNCHANGED backups
    BY <1>2, <1>4 DEF TransitionWritten, Extend
  <2>2. /\ journal'[o] = AppendEvent(journal[o], p, b, clock)
        /\ journal'[o] \in Journals /\ Phase(journal'[o]) = p
        /\ journal'[o].kind = journal[o].kind /\ journal'[o].from = journal[o].from
        /\ journal'[o].to = journal[o].to /\ journal'[o].input = journal[o].input
    BY <1>2, <1>3, <2>1, ExtendedJournal
  <2>3. Owner(s, {p})'
    <3>1. journal'[o] # NoJournal /\ lock' = o
      BY <2>1, <2>2, JournalSentinelAssumption DEF Extend
    <3>2. Readable(o)'
      BY <1>2, <3>1, JournalExists DEF StoreInv, TimesOrdered, Readable
    <3>3. JournalRequest(o)' = JournalRequest(o)
      BY <2>2 DEF JournalRequest
    <3>4. Op(s)' = o
      BY <1>1 DEF Op
    <3> QED
      BY <1>1, <1>2, <2>2, <3>1, <3>2, <3>3, <3>4 DEF Owner, Holds
  <2>4. OwnBackup(s) => OwnBackup(s)'
    BY <1>1, <1>2, <2>2, BackupStaysOwn
  <2>5. CASE p \in Terminal
    <3>1. Enter(s, Finalization(AppendEvent(journal[o], p, b, clock)), o, {})
      BY <1>4, <2>5 DEF TransitionWritten
    <3>2. reply'[s] = "none" /\ call'.begin = {} /\ call'.at # "plan"
      BY <1>3, <3>1 DEF Enter, Finalization
    <3> QED
      BY <1>1, <2>1, <2>3, <2>4, <2>5, <3>2
  <2>6. CASE p \notin Terminal
    <3>1. call' = Idle /\ Ok(s)'
      BY <1>3, <1>4, <2>6 DEF TransitionWritten, Return, Ok
    <3> QED
      BY <1>1, <2>1, <2>3, <2>4, <2>6, <3>1
  <2> QED
    BY <2>5, <2>6
<1>5. CASE TransitionRefused(s, o, p, b)
  <2>1. UNCHANGED <<lock, journal, record, backups, clock>> /\ call' = Idle /\ reply'[s] = "error"
    BY <1>3, <1>5 DEF TransitionRefused, Reject, Return, disk
  <2>2. Owner(s, P)'
    BY <1>1, <2>1, OwnerStays
  <2>3. OwnBackup(s) => OwnBackup(s)'
    BY <1>1, <1>2, <2>1, BackupStaysOwn
  <2>4. ~Ok(s)'
    BY <2>1 DEF Ok
  <2> QED
    BY <1>1, <2>1, <2>2, <2>3, <2>4
<1>6. TransitionWritten(s, o, p, b) \/ TransitionRefused(s, o, p, b)
  BY <1>3 DEF Advance, Transition, TransitionRepeated
<1> QED
  BY <1>4, <1>5, <1>6

-----------------------------------------------------------------------------
(* One session: what a step does to the disk and the target.               *)

\* When the coordinator writes a phase p, and with which backup b.
Chosen(o, p, b) ==
    LET j == journal[o] IN
    /\ p = "backup-complete" => OwnRef(o, b)
    /\ p = "staged" => /\ j.kind # "backup"
                       /\ TakesBackup(j.kind) => Phase(j) = "backup-complete"
    /\ p = "applied" => Phase(j) = "staged" /\ Reached(Result(j))
    /\ p = "committed" => j.kind = "backup" \/ Phase(j) = "verified"
    /\ p = "recovered" => Reached(Before(j))
    /\ p = "failed" => Phase(j) # "recovery-started"

\* A step of a handler that extends no journal.
Quiet ==
    /\ UNCHANGED target /\ BackupsKept
    /\ Rest \/ Acquire \/ (\E q \in ValidRequests : Open(q)) \/ Project \/ Release

Chooses ==
    \E o \in Ops, p \in Phases, b \in BackupIds \cup {NoBackup} :
        Extend(o, p, b) /\ Chosen(o, p, b) /\ UNCHANGED <<backups, target>>

\* An adapter changes the target of the owner.
Changes ==
    /\ UNCHANGED <<lock, journal, record, backups, clock>>
    /\ Owned /\ Phase(journal[lock]) \in {"staged", "recovery-started"}

WorkStep == Quiet \/ Chooses \/ Changes

\* The work of a transition, and the call it leaves.
LEMMA AdvancedWork ==
    ASSUME OneSession, CoordinatorTypeOK, CoordinatorTypeOK', StoreInv, StoreInv', BackupsKept,
           NEW s \in Callers, NEW P, P \cap Terminal = {}, Owner(s, P),
           NEW p \in Phases, NEW b \in BackupIds \cup {NoBackup},
           NEW place \in Places, Advance(s, p, b, place),
           p \in Terminal => place = "closing",
           Chosen(Op(s), p, b)
    PROVE  WorkStep /\ InCall'
<1>1. CASE Extend(Op(s), p, b)
  <2>1. UNCHANGED <<backups, target>> /\ Op(s) \in Ops
    BY Advanced DEF Owner, Holds
  <2>2. Chooses
    BY <1>1, <2>1 DEF Chooses
  <2> QED
    <3>1. InCall'
      <4>1. Extend(Op(s), p, b) => journal' # journal
        <5>1. PICK o \in Ops : o = Op(s)
          BY <2>1
        <5>2. TypeOK
          BY DEF StoreInv
        <5>3. <<Phase(journal[o]), p>> \in Transitions /\ Phase(journal'[o]) = p
          BY <1>1, <5>1, <5>2, ExtendedJournal
        <5>4. <<p, p>> \notin Transitions
          BY DEF Transitions
        <5> QED
          BY <5>3, <5>4
      <4>2. IF p \in Terminal
               THEN reply'[s] = "none" /\ call'.begin = {} /\ call'.at # "plan"
               ELSE call' = Idle /\ Ok(s)'
        BY <1>1, <4>1, Advanced
      <4>3. session'[s].at = place
        BY Advanced, ZenonT(30)
      <4>4. \A t \in Callers : t = s
        BY DEF OneSession
      <4> QED
        BY <4>2, <4>3, <4>4 DEF InCall, At
    <3> QED
      BY <2>2, <3>1 DEF WorkStep
<1>2. CASE ~Extend(Op(s), p, b)
  <2>1. UNCHANGED <<lock, journal, record, clock>> /\ call' = Idle /\ UNCHANGED <<backups, target>>
    BY <1>2, Advanced
  <2> QED
    BY <2>1 DEF WorkStep, Quiet, Rest, InCall
<1> QED
  BY <1>1, <1>2

\* The work of a session's own step.
LEMMA AloneWork ==
    ASSUME InCall, BackupsKept, NEW s \in Callers, call = Idle,
           Local, UNCHANGED target
    PROVE  WorkStep /\ InCall'
BY DEF WorkStep, Quiet, Rest, InCall, Local, vars

\* A session that ended or awaits the last answer needs nothing.
LEMMA NothingNeeded ==
    ASSUME NEW s, session'[s].at \in {"idle", "closing"}
    PROVE  Fits(s)'
BY DEF Fits, Began, Changing, Recovering, At

\* What owning says of the journal.
LEMMA OwnerSays ==
    ASSUME NEW s, NEW P, Owner(s, P)
    PROVE  /\ Op(s) \in Ops /\ lock = Op(s) /\ Readable(Op(s)) /\ Phase(journal[Op(s)]) \in P
           /\ journal[Op(s)].kind = Kind(s)
           /\ journal[Op(s)].from = session[s].request.from
           /\ Result(journal[Op(s)]) = Goal(s)
           /\ Before(journal[Op(s)]) = Origin(s)
<1>1. JournalRequest(Op(s)) = session[s].request /\ Op(s) \in Ops
  BY DEF Owner, Holds
<1>2. /\ journal[Op(s)].kind = session[s].request.kind
      /\ journal[Op(s)].from = session[s].request.from
      /\ journal[Op(s)].to = session[s].request.to
  BY <1>1 DEF JournalRequest
<1> QED
  BY <1>1, <1>2 DEF Owner, Holds, Kind, Result, Before, Goal, Origin

LEMMA OwnerOf ==
    ASSUME NEW s, NEW P, NEW Q, Owner(s, P), P \subseteq Q PROVE Owner(s, Q)
BY DEF Owner

\* A step of the session alone keeps the store, and its operation with it.
LEMMA MoveWork ==
    ASSUME CoordinatorTypeOK, InCall, BackupsKept, NEW s \in Callers, call = Idle,
           Op(s) \in Ops, NEW place \in Places, Move(s, place), Local
    PROVE  /\ InCall'
           /\ session'[s].at = place
           /\ Kind(s)' = Kind(s) /\ Goal(s)' = Goal(s) /\ Origin(s)' = Origin(s)
           /\ Ok(s)' <=> Ok(s)
           /\ OwnBackup(s) => OwnBackup(s)'
           /\ \A P : Owner(s, P) => Owner(s, P)'
<1>1. /\ session'[s].at = place
      /\ session'[s].request = session[s].request
      /\ session'[s].safety = session[s].safety
  BY Moved
<1>2. UNCHANGED <<lock, journal, call, reply>>
  BY DEF Local, vars
<1>3. \A P : Owner(s, P) => Owner(s, P)'
  BY <1>1, <1>2, OwnerStays
<1>4. OwnBackup(s) => OwnBackup(s)'
  BY <1>1, <1>2, BackupStaysOwn
<1> QED
  BY <1>1, <1>2, <1>3, <1>4 DEF InCall, Kind, Goal, Origin, Ok

\* The session ends.
LEMMA EndsWork ==
    ASSUME CoordinatorTypeOK, InCall, BackupsKept, NEW s \in Callers, call = Idle, Ends(s)
    PROVE  WorkStep /\ InCall' /\ Fits(s)'
<1>1. session'[s].at = "idle"
  BY DEF CoordinatorTypeOK, Ends, Finish, IdleSession
<1> QED
  BY <1>1, AloneWork, NothingNeeded DEF Ends

\* What holds before a step of a session, and what the step is known to keep.
Ground == CoordinatorTypeOK /\ Asked /\ StoreInv /\ InCall /\ Control

Kept == CoordinatorTypeOK' /\ StoreInv' /\ BackupsKept

Done(s) == WorkStep /\ InCall' /\ Fits(s)'

\* Run: from the answer to Begin to the staged phase.
LEMMA PreparingWork ==
    ASSUME OneSession, Ground, Kept, NEW s \in Callers,
           RunBegun(s) \/ RunBackup(s) \/ RunBackupRecorded(s) \/ RunBackupComplete(s)
             \/ RunStage(s) \/ SafeClose(s) \/ Closed(s)
    PROVE  Done(s)
<1> USE DEF Replied
<1>0. /\ CoordinatorTypeOK /\ StoreInv /\ InCall /\ Asked /\ Began(s)
      /\ CoordinatorTypeOK' /\ StoreInv' /\ BackupsKept
  BY DEF Ground, Kept, Control, Fits
<1>1. /\ {"staged", "backup-complete", "stage", "closing", "backup", "idle"} \subseteq Places
      /\ {"staged", "backup-complete", "failed", "committed"} \subseteq Phases
      /\ {"failed", "committed"} \subseteq Terminal
      /\ {"staged", "backup-complete"} \cap Terminal = {}
      /\ {"prepared"} \cap Terminal = {} /\ {"backup-complete"} \cap Terminal = {}
      /\ {"prepared", "backup-complete"} \cap Terminal = {}
      /\ NoBackup \in BackupIds \cup {NoBackup}
  BY DEF Places, Phases, Terminal
<1>2. ASSUME NEW P, P \cap Terminal = {}, Owner(s, P), P \subseteq {"prepared", "backup-complete"},
             Advance(s, "failed", NoBackup, "closing")
      PROVE  Done(s)
  <2>1. Chosen(Op(s), "failed", NoBackup)
    BY <1>2, OwnerSays DEF Chosen
  <2>2. WorkStep /\ InCall'
    BY <1>0, <1>1, <1>2, <2>1, AdvancedWork
  <2>3. session'[s].at = "closing"
    <3>1. "failed" \in Phases /\ "closing" \in Places
      BY <1>1
    <3> QED
      BY <1>0, <1>2, <3>1, Advanced, ZenonT(30)
  <2> QED
    BY <2>2, <2>3, NothingNeeded DEF Done
<1>3. ASSUME reply[s] # "none", Ends(s) PROVE Done(s)
  BY <1>0, <1>3, NotInCall, EndsWork DEF Done
<1>4. ASSUME NEW P, P \cap Terminal = {}, Owner(s, P), OwnBackup(s), Kind(s) # "backup",
             TakesBackup(Kind(s)) => P = {"backup-complete"},
             Advance(s, "staged", NoBackup, "staged")
      PROVE  Done(s)
  <2>1. Chosen(Op(s), "staged", NoBackup)
    BY <1>4, OwnerSays DEF Chosen
  <2>2. WorkStep /\ InCall'
    BY <1>0, <1>1, <1>4, <2>1, AdvancedWork
  <2>3. /\ session'[s].at = "staged" /\ OwnBackup(s)'
        /\ Ok(s)' => Owner(s, {"staged"})'
    BY <1>0, <1>1, <1>4, Advanced, ZenonT(30)
  <2>4. Fits(s)'
    BY <2>3 DEF Fits, Began, Changing, Recovering, At
  <2> QED
    BY <2>2, <2>4 DEF Done
<1>5. ASSUME NEW place \in Places, Move(s, place), Local, UNCHANGED target,
             reply[s] # "none" \/ ~(At(s, "began") \/ At(s, "closing")), ~At(s, "idle")
      PROVE  /\ WorkStep /\ InCall' /\ session'[s].at = place
             /\ Kind(s)' = Kind(s) /\ (OwnBackup(s) => OwnBackup(s)')
             /\ \A P : Owner(s, P) => Owner(s, P)'
  <2>1. call = Idle /\ Op(s) \in Ops
    BY <1>0, <1>5, NotInCall DEF Asked, Requests, Op
  <2> QED
    BY <1>0, <1>5, <2>1, AloneWork, MoveWork
<1>10. ASSUME RunBegun(s) PROVE Done(s)
  <2>1. CASE ~Ok(s)
    BY <1>3, <1>10, <2>1 DEF RunBegun, Ends
  <2>2. ASSUME Ok(s) PROVE Owner(s, {"prepared"}) /\ At(s, "began") /\ reply[s] # "none"
    BY <1>0, <1>10, <2>2 DEF RunBegun, Began
  <2>3. CASE Ok(s) /\ Kind(s) = "uninstall"
    <3>1. Advance(s, "staged", NoBackup, "staged")
      BY <1>10, <2>3 DEF RunBegun
    <3>2. ~TakesBackup(Kind(s))
      BY <2>3 DEF TakesBackup
    <3> QED
      BY <1>1, <1>4, <2>2, <2>3, <3>1, <3>2 DEF OwnBackup
  <2>4. CASE Ok(s) /\ Kind(s) # "uninstall" /\ TakesBackup(Kind(s))
    <3>1. Move(s, "backup") /\ Local /\ UNCHANGED target
      BY <1>10, <2>4 DEF RunBegun
    <3>2. /\ WorkStep /\ InCall' /\ session'[s].at = "backup"
          /\ Kind(s)' = Kind(s) /\ Owner(s, {"prepared"})'
      BY <1>1, <1>5, <2>2, <2>4, <3>1 DEF At
    <3> QED
      BY <2>4, <3>2 DEF Done, Fits, Began, Changing, Recovering, At, TakesBackup
  <2>5. CASE Ok(s) /\ Kind(s) # "uninstall" /\ ~TakesBackup(Kind(s))
    <3>1. Move(s, "stage") /\ Local /\ UNCHANGED target
      BY <1>10, <2>5 DEF RunBegun
    <3>2. /\ WorkStep /\ InCall' /\ session'[s].at = "stage"
          /\ Kind(s)' = Kind(s) /\ Owner(s, {"prepared"})'
      BY <1>1, <1>5, <2>2, <2>5, <3>1 DEF At
    <3>3. Kind(s) # "backup" /\ ~TakesBackup(Kind(s))'
      BY <2>5, <3>2 DEF TakesBackup
    <3> QED
      BY <3>2, <3>3 DEF Done, Fits, Began, Changing, Recovering, At, OwnBackup
  <2> QED
    BY <2>1, <2>3, <2>4, <2>5
<1>11. ASSUME RunBackup(s) PROVE Done(s)
  <2>1. At(s, "backup") /\ Owner(s, {"prepared"}) /\ TakesBackup(Kind(s))
    BY <1>0, <1>11 DEF RunBackup, Began
  <2>2. CASE Advance(s, "failed", NoBackup, "closing")
    BY <1>1, <1>2, <2>1, <2>2
  <2>3. ASSUME NEW b \in BackupIds, RecordBackup(s, Op(s), b),
               session' = [session EXCEPT ![s].at = "backup-recorded", ![s].safety = b],
               UNCHANGED target
        PROVE  Done(s)
    <3>1. /\ session'[s].at = "backup-recorded" /\ session'[s].safety = b
          /\ session'[s].request = session[s].request
      BY <1>0, <2>3 DEF CoordinatorTypeOK, Sessions
    <3>2. UNCHANGED <<lock, journal, record, clock>> /\ call' = Idle
      BY <2>3 DEF RecordBackup, Reject, Return, disk
    <3>3. Owner(s, {"prepared"})' /\ Kind(s)' = Kind(s) /\ Op(s)' = Op(s)
      BY <2>1, <3>1, <3>2, OwnerStays DEF Kind, Op
    <3>4. Ok(s)' => OwnBackup(s)'
      <4>1. SUFFICES ASSUME Ok(s)' PROVE OwnBackup(s)'
        OBVIOUS
      <4>2. reply \in [Callers -> {"none", "ok", "error"}] /\ backups \in [BackupIds -> BackupRecords \cup {NoBackupRecord}]
        BY <1>0 DEF CoordinatorTypeOK, TypeOK
      <4>3. backups' = [backups EXCEPT ![b] = [op |-> Op(s), version |-> journal[Op(s)].from]]
        BY <2>3, <4>1, <4>2 DEF RecordBackup, Reject, Return, Ok
      <4>4. backups'[b] = [op |-> Op(s), version |-> journal[Op(s)].from]
        BY <4>2, <4>3
      <4> QED
        BY <3>1, <3>2, <3>3, <4>4 DEF OwnBackup, OwnRef
    <3>5. WorkStep /\ InCall'
      BY <1>0, <2>3, <3>2 DEF WorkStep, Quiet, Rest, InCall
    <3>6. Fits(s)'
      BY <2>1, <3>1, <3>3, <3>4 DEF Fits, Began, Changing, Recovering, At, TakesBackup
    <3> QED
      BY <3>5, <3>6 DEF Done
  <2> QED
    BY <1>11, <2>2, <2>3 DEF RunBackup
<1>12. ASSUME RunBackupRecorded(s) PROVE Done(s)
  <2>1. /\ At(s, "backup-recorded") /\ Owner(s, {"prepared"}) /\ TakesBackup(Kind(s))
        /\ Ok(s) => OwnBackup(s)
    BY <1>0, <1>12 DEF RunBackupRecorded, Began
  <2>2. CASE ~Ok(s)
    BY <1>1, <1>2, <1>12, <2>1, <2>2 DEF RunBackupRecorded
  <2>3. CASE Ok(s)
    <3> DEFINE b == session[s].safety
    <3>1. Advance(s, "backup-complete", b, "backup-complete") /\ OwnRef(Op(s), b)
      BY <1>12, <2>1, <2>3 DEF RunBackupRecorded, OwnBackup
    <3>2. PICK c \in BackupIds : c = b
      BY <3>1 DEF OwnRef
    <3>3. Chosen(Op(s), "backup-complete", c)
      BY <3>1, <3>2 DEF Chosen
    <3>4. WorkStep /\ InCall'
      BY <1>0, <1>1, <2>1, <3>1, <3>2, <3>3, AdvancedWork
    <3>5. /\ session'[s].at = "backup-complete" /\ OwnBackup(s)'
          /\ session'[s].request = session[s].request
          /\ Ok(s)' => Owner(s, {"backup-complete"})'
      BY <1>0, <1>1, <2>1, <2>3, <3>1, <3>2, Advanced, ZenonT(30)
    <3>6. TakesBackup(Kind(s))'
      BY <2>1, <3>5 DEF TakesBackup, Kind
    <3>7. Fits(s)'
      BY <3>5, <3>6 DEF Fits, Began, Changing, Recovering, At
    <3> QED
      BY <3>4, <3>7 DEF Done
  <2> QED
    BY <2>2, <2>3
<1>13. ASSUME RunBackupComplete(s) PROVE Done(s)
  <2>1. CASE ~Ok(s)
    BY <1>3, <1>13, <2>1 DEF RunBackupComplete, Ends
  <2>2. ASSUME Ok(s)
        PROVE  Owner(s, {"backup-complete"}) /\ OwnBackup(s) /\ At(s, "backup-complete")
    BY <1>0, <1>13, <2>2 DEF RunBackupComplete, Began
  <2>3. CASE Ok(s) /\ Kind(s) = "backup"
    <3>1. Advance(s, "committed", NoBackup, "closing")
      BY <1>13, <2>3 DEF RunBackupComplete
    <3>2. Chosen(Op(s), "committed", NoBackup)
      BY <2>2, <2>3, OwnerSays DEF Chosen
    <3>3. WorkStep /\ InCall'
      BY <1>0, <1>1, <2>2, <2>3, <3>1, <3>2, AdvancedWork
    <3>4. session'[s].at = "closing"
      BY <1>0, <1>1, <2>2, <2>3, <3>1, Advanced, ZenonT(30)
    <3> QED
      BY <3>3, <3>4, NothingNeeded DEF Done
  <2>4. CASE Ok(s) /\ Kind(s) # "backup"
    <3>1. Move(s, "stage") /\ Local /\ UNCHANGED target
      BY <1>13, <2>4 DEF RunBackupComplete
    <3>2. ~At(s, "idle") /\ ~At(s, "began") /\ ~At(s, "closing")
      BY <2>2, <2>4 DEF At
    <3>3. /\ WorkStep /\ InCall' /\ session'[s].at = "stage"
          /\ Kind(s)' = Kind(s) /\ Owner(s, {"backup-complete"})' /\ OwnBackup(s)'
      BY <1>1, <1>5, <2>2, <2>4, <3>1, <3>2
    <3>4. TakesBackup(Kind(s))
      BY <1>0, <1>13, <2>4 DEF RunBackupComplete, Began
    <3>5. Kind(s)' # "backup" /\ TakesBackup(Kind(s))'
      BY <2>4, <3>3, <3>4 DEF TakesBackup
    <3> QED
      BY <3>3, <3>5 DEF Done, Fits, Began, Changing, Recovering, At
  <2> QED
    BY <2>1, <2>3, <2>4
<1>14. ASSUME RunStage(s) PROVE Done(s)
  <2>1. /\ IF TakesBackup(Kind(s)) THEN Owner(s, {"backup-complete"}) ELSE Owner(s, {"prepared"})
        /\ Kind(s) # "backup" /\ OwnBackup(s)
    BY <1>0, <1>14 DEF RunStage, Began
  <2>2. CASE TakesBackup(Kind(s))
    BY <1>1, <1>2, <1>4, <1>14, <2>1, <2>2 DEF RunStage
  <2>3. CASE ~TakesBackup(Kind(s))
    BY <1>1, <1>2, <1>4, <1>14, <2>1, <2>3 DEF RunStage
  <2> QED
    BY <2>2, <2>3
<1>15. ASSUME SafeClose(s) PROVE Done(s)
  <2>1. Owner(s, {"prepared", "backup-complete"})
    BY <1>0, <1>15 DEF SafeClose, Began
  <2> QED
    BY <1>1, <1>2, <1>15, <2>1 DEF SafeClose
<1>16. ASSUME Closed(s) PROVE Done(s)
  BY <1>3, <1>16 DEF Closed, Ends
<1> QED
  BY <1>10, <1>11, <1>12, <1>13, <1>14, <1>15, <1>16

\* The phases in which the target may have been changed.
Disturbed == {"staged", "applied", "verified"}

\* Coordinator.recover begins.
LEMMA EnterRecoveryWork ==
    ASSUME OneSession, Ground, Kept, NEW s \in Callers,
           Owner(s, Disturbed), OwnBackup(s), EnterRecovery(s)
    PROVE  Done(s)
<1>0. /\ CoordinatorTypeOK /\ StoreInv /\ InCall
      /\ CoordinatorTypeOK' /\ StoreInv' /\ BackupsKept
  BY DEF Ground, Kept
<1>1. /\ "recovery-started" \in Phases /\ "recovery-started" \in Places
      /\ "recovery-started" \notin Terminal
      /\ Disturbed \cap Terminal = {}
  BY DEF Places, Phases, Terminal, Disturbed
<1>2. PICK b \in BackupIds \cup {NoBackup} : b = session[s].safety
  BY <1>0 DEF CoordinatorTypeOK, Sessions
<1>3. Advance(s, "recovery-started", b, "recovery-started")
  BY <1>2 DEF EnterRecovery
<1>4. Chosen(Op(s), "recovery-started", b)
  BY DEF Chosen
<1>5. WorkStep /\ InCall'
  BY <1>0, <1>1, <1>3, <1>4, AdvancedWork
<1>6. /\ session'[s].at = "recovery-started" /\ OwnBackup(s)'
      /\ IF Ok(s)' THEN Owner(s, {"recovery-started"})' ELSE Owner(s, Disturbed)'
  BY <1>0, <1>1, <1>3, Advanced, ZenonT(30)
<1>7. Fits(s)'
  BY <1>6 DEF Fits, Began, Changing, Recovering, At, Disturbed
<1> QED
  BY <1>5, <1>7 DEF Done

\* An adapter changes the target, and the session may move on.
LEMMA TargetWork ==
    ASSUME NEW s, NEW P, Owner(s, P), P \subseteq {"staged", "recovery-started"}, Local
    PROVE  WorkStep
<1>1. lock \in Ops /\ Readable(lock) /\ Phase(journal[lock]) \in {"staged", "recovery-started"}
  BY OwnerSays
<1> QED
  BY <1>1 DEF WorkStep, Changes, Owned, Readable, Local, vars

\* Run: from the staged phase to the last transition.
LEMMA ChangingWork ==
    ASSUME OneSession, Ground, Kept, NEW s \in Callers,
           RunStaged(s) \/ ApplySucceeds(s) \/ ApplyFails(s) \/ RunApplyDone(s)
             \/ RunApplied(s) \/ RunVerify(s) \/ RunVerified(s)
    PROVE  Done(s)
<1> USE DEF Replied
<1>0. /\ CoordinatorTypeOK /\ StoreInv /\ InCall /\ Asked /\ Changing(s)
      /\ CoordinatorTypeOK' /\ StoreInv' /\ BackupsKept
  BY DEF Ground, Kept, Control, Fits
<1>1. /\ "apply" \in Places /\ "apply-done" \in Places /\ "applied" \in Places
      /\ "verify" \in Places /\ "verified" \in Places /\ "closing" \in Places
      /\ "applied" \in Phases /\ "verified" \in Phases /\ "committed" \in Phases
      /\ "applied" \notin Terminal /\ "verified" \notin Terminal
      /\ {"staged"} \cap Terminal = {} /\ {"applied"} \cap Terminal = {}
      /\ {"verified"} \cap Terminal = {}
      /\ NoBackup \in BackupIds \cup {NoBackup}
  BY DEF Places, Phases, Terminal
<1>2. ASSUME At(s, "staged") \/ At(s, "apply") \/ At(s, "applied") \/ At(s, "apply-done")
               \/ At(s, "verify") \/ At(s, "verified")
      PROVE  call = Idle /\ Op(s) \in Ops /\ ~At(s, "idle")
  <2>1. ~At(s, "idle") /\ ~At(s, "began") /\ ~At(s, "closing")
    BY <1>2 DEF At
  <2> QED
    BY <1>0, <2>1, NotInCall DEF Asked, Requests, Op
<1>3. ASSUME Owner(s, {"staged"}) \/ Owner(s, {"applied"}) \/ Owner(s, {"verified"}),
             OwnBackup(s), EnterRecovery(s)
      PROVE  Done(s)
  <2>1. Owner(s, Disturbed)
    BY <1>3, OwnerOf DEF Disturbed
  <2> QED
    BY <1>3, <2>1, EnterRecoveryWork
<1>4. ASSUME Owner(s, {"applied"}), OwnBackup(s), Advance(s, "verified", NoBackup, "verified")
      PROVE  Done(s)
  <2>1. Chosen(Op(s), "verified", NoBackup)
    BY DEF Chosen
  <2>2. WorkStep /\ InCall'
    BY <1>0, <1>1, <1>4, <2>1, AdvancedWork
  <2>3. /\ session'[s].at = "verified" /\ OwnBackup(s)'
        /\ IF Ok(s)' THEN Owner(s, {"verified"})' ELSE Owner(s, {"applied"})'
    BY <1>0, <1>1, <1>4, Advanced, ZenonT(30)
  <2>4. Fits(s)'
    BY <2>3 DEF Fits, Began, Changing, Recovering, At
  <2> QED
    BY <2>2, <2>4 DEF Done
<1>10. ASSUME RunStaged(s) PROVE Done(s)
  <2>1. CASE ~Ok(s)
    BY <1>0, <1>2, <1>10, <2>1, EndsWork DEF RunStaged, Ends, Done
  <2>2. CASE Ok(s)
    <3>1. Owner(s, {"staged"}) /\ OwnBackup(s) /\ At(s, "staged")
      BY <1>0, <1>10, <2>2 DEF RunStaged, Changing
    <3>2. Move(s, "apply") /\ Local /\ UNCHANGED target
      BY <1>10, <2>2 DEF RunStaged
    <3>3. WorkStep /\ InCall'
      BY <1>0, <1>2, <3>1, <3>2, AloneWork
    <3>4. session'[s].at = "apply" /\ Owner(s, {"staged"})' /\ OwnBackup(s)'
      BY <1>0, <1>1, <1>2, <3>1, <3>2, MoveWork
    <3> QED
      BY <3>3, <3>4 DEF Done, Fits, Began, Changing, Recovering, At
  <2> QED
    BY <2>1, <2>2
<1>11. ASSUME ApplySucceeds(s) PROVE Done(s)
  <2>1. Owner(s, {"staged"}) /\ OwnBackup(s) /\ At(s, "apply") /\ Move(s, "apply-done") /\ Local
    BY <1>0, <1>11 DEF ApplySucceeds, Changing
  <2>2. WorkStep
    BY <2>1, TargetWork
  <2>3. /\ InCall' /\ session'[s].at = "apply-done" /\ Owner(s, {"staged"})' /\ OwnBackup(s)'
        /\ Goal(s)' = Goal(s)
    BY <1>0, <1>1, <1>2, <2>1, MoveWork
  <2>4. target' = [version |-> Goal(s), dirty |-> FALSE]
    BY <1>11 DEF ApplySucceeds
  <2>5. Reached(Goal(s))'
    BY <2>3, <2>4 DEF Reached
  <2> QED
    BY <2>2, <2>3, <2>5 DEF Done, Fits, Began, Changing, Recovering, At
<1>12. ASSUME ApplyFails(s) PROVE Done(s)
  <2>1. Owner(s, {"staged"}) /\ OwnBackup(s) /\ EnterRecovery(s)
    BY <1>0, <1>12 DEF ApplyFails, Changing
  <2> QED
    BY <1>3, <2>1
<1>13. ASSUME RunApplyDone(s) PROVE Done(s)
  <2>1. /\ Owner(s, {"staged"}) /\ OwnBackup(s) /\ Reached(Goal(s))
        /\ Advance(s, "applied", NoBackup, "applied")
    BY <1>0, <1>13 DEF RunApplyDone, Changing
  <2>2. Chosen(Op(s), "applied", NoBackup)
    BY <2>1, OwnerSays DEF Chosen
  <2>3. WorkStep /\ InCall'
    BY <1>0, <1>1, <2>1, <2>2, AdvancedWork
  <2>4. /\ session'[s].at = "applied" /\ OwnBackup(s)'
        /\ IF Ok(s)' THEN Owner(s, {"applied"})' ELSE Owner(s, {"staged"})'
    BY <1>0, <1>1, <2>1, Advanced, ZenonT(30)
  <2>5. Fits(s)'
    BY <2>4 DEF Fits, Began, Changing, Recovering, At
  <2> QED
    BY <2>3, <2>5 DEF Done
<1>14. ASSUME RunApplied(s) PROVE Done(s)
  <2>1. /\ IF Ok(s) THEN Owner(s, {"applied"}) ELSE Owner(s, {"staged"})
        /\ OwnBackup(s) /\ At(s, "applied")
    BY <1>0, <1>14 DEF RunApplied, Changing
  <2>2. CASE ~Ok(s)
    BY <1>3, <1>14, <2>1, <2>2 DEF RunApplied
  <2>3. CASE Ok(s) /\ Kind(s) = "uninstall"
    BY <1>4, <1>14, <2>1, <2>3 DEF RunApplied
  <2>4. CASE Ok(s) /\ Kind(s) # "uninstall"
    <3>1. Move(s, "verify") /\ Local /\ UNCHANGED target
      BY <1>14, <2>4 DEF RunApplied
    <3>2. WorkStep /\ InCall'
      BY <1>0, <1>2, <2>1, <3>1, AloneWork
    <3>3. session'[s].at = "verify" /\ Owner(s, {"applied"})' /\ OwnBackup(s)'
      BY <1>0, <1>1, <1>2, <2>1, <2>4, <3>1, MoveWork
    <3> QED
      BY <3>2, <3>3 DEF Done, Fits, Began, Changing, Recovering, At
  <2> QED
    BY <2>2, <2>3, <2>4
<1>15. ASSUME RunVerify(s) PROVE Done(s)
  <2>1. Owner(s, {"applied"}) /\ OwnBackup(s)
    BY <1>0, <1>15 DEF RunVerify, Changing
  <2> QED
    BY <1>3, <1>4, <1>15, <2>1 DEF RunVerify
<1>16. ASSUME RunVerified(s) PROVE Done(s)
  <2>1. /\ IF Ok(s) THEN Owner(s, {"verified"}) ELSE Owner(s, {"applied"})
        /\ OwnBackup(s)
    BY <1>0, <1>16 DEF RunVerified, Changing
  <2>2. CASE ~Ok(s)
    BY <1>3, <1>16, <2>1, <2>2 DEF RunVerified
  <2>3. CASE Ok(s)
    <3>1. Advance(s, "committed", NoBackup, "closing") /\ Owner(s, {"verified"})
      BY <1>16, <2>1, <2>3 DEF RunVerified
    <3>2. Chosen(Op(s), "committed", NoBackup)
      BY <3>1, OwnerSays DEF Chosen
    <3>3. WorkStep /\ InCall'
      BY <1>0, <1>1, <3>1, <3>2, AdvancedWork
    <3>4. session'[s].at = "closing"
      BY <1>0, <1>1, <3>1, Advanced, ZenonT(30)
    <3> QED
      BY <3>3, <3>4, NothingNeeded DEF Done
  <2> QED
    BY <2>2, <2>3
<1> QED
  BY <1>10, <1>11, <1>12, <1>13, <1>14, <1>15, <1>16

\* Coordinator.recover: from the recovery-started phase to the last transition.
LEMMA RecoveringWork ==
    ASSUME OneSession, Ground, Kept, NEW s \in Callers,
           BeginRecovery(s) \/ RecoveryStarted(s) \/ RecoverSucceeds(s) \/ RecoverFails(s)
             \/ RecoverDone(s)
    PROVE  Done(s)
<1> USE DEF Replied
<1>0. /\ CoordinatorTypeOK /\ StoreInv /\ InCall /\ Asked /\ Recovering(s)
      /\ CoordinatorTypeOK' /\ StoreInv' /\ BackupsKept
  BY DEF Ground, Kept, Control, Fits
<1>1. /\ "recover" \in Places /\ "recover-done" \in Places /\ "closing" \in Places
      /\ "recovered" \in Phases /\ "failed" \in Phases
      /\ Disturbed \cap Terminal = {} /\ {"recovery-started"} \cap Terminal = {}
      /\ NoBackup \in BackupIds \cup {NoBackup}
  BY DEF Places, Phases, Terminal, Disturbed
<1>2. ASSUME At(s, "recovery-started") \/ At(s, "recover")
      PROVE  call = Idle /\ Op(s) \in Ops
  <2>1. ~At(s, "idle") /\ ~At(s, "began") /\ ~At(s, "closing")
    BY <1>2 DEF At
  <2> QED
    BY <1>0, <2>1, NotInCall DEF Asked, Requests, Op
<1>10. ASSUME BeginRecovery(s) PROVE Done(s)
  <2>1. Owner(s, Disturbed) /\ OwnBackup(s) /\ EnterRecovery(s)
    BY <1>0, <1>10 DEF BeginRecovery, Recovering, Disturbed
  <2> QED
    BY <2>1, EnterRecoveryWork
<1>11. ASSUME RecoveryStarted(s) PROVE Done(s)
  <2>1. /\ IF Ok(s) THEN Owner(s, {"recovery-started"}) ELSE Owner(s, Disturbed)
        /\ OwnBackup(s) /\ At(s, "recovery-started")
    BY <1>0, <1>11 DEF RecoveryStarted, Recovering, Disturbed
  <2>2. CASE Ok(s)
    <3>1. Move(s, "recover") /\ Local /\ UNCHANGED target
      BY <1>11, <2>2 DEF RecoveryStarted
    <3>2. WorkStep /\ InCall'
      BY <1>0, <1>2, <2>1, <3>1, AloneWork
    <3>3. session'[s].at = "recover" /\ Owner(s, {"recovery-started"})' /\ OwnBackup(s)'
      BY <1>0, <1>1, <1>2, <2>1, <2>2, <3>1, MoveWork
    <3> QED
      BY <3>2, <3>3 DEF Done, Fits, Began, Changing, Recovering, At
  <2>3. CASE ~Ok(s) /\ Advance(s, "failed", NoBackup, "closing")
    <3>1. Owner(s, Disturbed)
      BY <2>1, <2>3
    <3>2. Chosen(Op(s), "failed", NoBackup)
      BY <3>1, OwnerSays DEF Chosen, Disturbed
    <3>3. WorkStep /\ InCall'
      BY <1>0, <1>1, <2>3, <3>1, <3>2, AdvancedWork
    <3>4. session'[s].at = "closing"
      BY <1>0, <1>1, <2>3, <3>1, Advanced, ZenonT(30)
    <3> QED
      BY <3>3, <3>4, NothingNeeded DEF Done
  <2>4. CASE ~Ok(s) /\ Finish(s) /\ Local /\ UNCHANGED target
    BY <1>0, <1>2, <2>1, <2>4, EndsWork DEF Ends, Done
  <2> QED
    BY <1>11, <2>2, <2>3, <2>4 DEF RecoveryStarted
<1>12. ASSUME RecoverSucceeds(s) PROVE Done(s)
  <2>1. Owner(s, {"recovery-started"}) /\ At(s, "recover") /\ Move(s, "recover-done") /\ Local
    BY <1>0, <1>12 DEF RecoverSucceeds, Recovering
  <2>2. WorkStep
    BY <2>1, TargetWork
  <2>3. /\ InCall' /\ session'[s].at = "recover-done" /\ Owner(s, {"recovery-started"})'
        /\ Origin(s)' = Origin(s)
    BY <1>0, <1>1, <1>2, <2>1, MoveWork
  <2>4. target' = [version |-> Origin(s), dirty |-> FALSE]
    BY <1>12 DEF RecoverSucceeds
  <2>5. Reached(Origin(s))'
    BY <2>3, <2>4 DEF Reached
  <2> QED
    BY <2>2, <2>3, <2>5 DEF Done, Fits, Began, Changing, Recovering, At
<1>13. ASSUME RecoverFails(s) PROVE Done(s)
  BY <1>0, <1>2, <1>13, EndsWork DEF RecoverFails, Ends, Done
<1>14. ASSUME RecoverDone(s) PROVE Done(s)
  <2>1. /\ Owner(s, {"recovery-started"}) /\ Reached(Origin(s))
        /\ Advance(s, "recovered", NoBackup, "closing")
    BY <1>0, <1>14 DEF RecoverDone, Recovering
  <2>2. Chosen(Op(s), "recovered", NoBackup)
    BY <2>1, OwnerSays DEF Chosen
  <2>3. WorkStep /\ InCall'
    BY <1>0, <1>1, <2>1, <2>2, AdvancedWork
  <2>4. session'[s].at = "closing"
    BY <1>0, <1>1, <2>1, Advanced, ZenonT(30)
  <2> QED
    BY <2>3, <2>4, NothingNeeded DEF Done
<1> QED
  BY <1>10, <1>11, <1>12, <1>13, <1>14

\* A request starts an operation.
LEMMA StartWork ==
    ASSUME OneSession, Ground, Kept, NEW s \in Callers, NEW q \in ValidRequests, RunStart(s, q)
    PROVE  Done(s)
<1>1. /\ session'[s].at = "began" /\ session'[s].request = q
      /\ reply \in [Callers -> {"none", "ok", "error"}]
  BY DEF RunStart, Ground, CoordinatorTypeOK, TypeOK
<1>2. Begin(s, q) /\ UNCHANGED target
  BY DEF RunStart
<1>3. UNCHANGED <<lock, journal, record, backups, clock>>
  BY <1>2 DEF Begin, BeginUnlocked, BeginReconciles, BeginRefused, Reject, disk
<1>4. WorkStep
  BY <1>2, <1>3 DEF WorkStep, Quiet, Rest, BackupsKept
<1>5. /\ ~Ok(s)'
      /\ \/ call' = Idle
         \/ reply'[s] = "none" /\ call'.begin = {q} /\ call'.at # "plan"
  <2>1. CASE BeginUnlocked(s, q)
    BY <1>1, <2>1 DEF BeginUnlocked, Enter, Ok
  <2>2. CASE BeginReconciles(s, q)
    BY <1>1, <2>2 DEF BeginReconciles, Enter, Ok, Finalization
  <2>3. CASE BeginRefused(s, q)
    BY <1>1, <2>3 DEF BeginRefused, Reject, Return, Ok
  <2> QED
    BY <1>2, <2>1, <2>2, <2>3 DEF Begin
<1>6. InCall'
  BY <1>1, <1>5 DEF InCall, OneSession, At
<1>7. Fits(s)'
  BY <1>1, <1>5 DEF Fits, Began, Changing, Recovering, At
<1> QED
  BY <1>4, <1>6, <1>7 DEF Done

\* An interrupted operation is taken over, with the backup its journal names.
LEMMA TakeOverWork ==
    ASSUME OneSession, Ground, JournalsTell, Kept, NEW s \in Callers, RecoverActive(s)
    PROVE  Done(s)
<1>1. PICK o \in Ops : /\ o = lock /\ Readable(o)
                       /\ journal[o] \in Journals /\ JournalValid(journal[o])
                       /\ journal[o] # NoJournal
  BY ReadableType DEF RecoverActive, Ground, CoordinatorTypeOK, Readable
<1>2. UNCHANGED <<lock, journal, record, backups, clock, call, reply, target>> /\ call = Idle
  BY DEF RecoverActive, Local, vars
<1> DEFINE new(place) == [at |-> place, role |-> "recover", request |-> JournalRequest(o),
                          safety |-> SafetyBackup(journal[o])]
<1>3. \/ /\ Phase(journal[o]) \in {"prepared", "backup-complete"}
         /\ session' = [session EXCEPT ![s] = new("safe-close")]
      \/ /\ Phase(journal[o]) = "recovery-started"
         /\ session' = [session EXCEPT ![s] = new("recover")]
      \/ /\ Phase(journal[o]) \in Disturbed
         /\ session' = [session EXCEPT ![s] = new("begin-recovery")]
  BY <1>1 DEF RecoverActive, Disturbed
<1>4. PICK place \in {"safe-close", "recover", "begin-recovery"} :
          /\ session' = [session EXCEPT ![s] = new(place)]
          /\ place = "safe-close" => Phase(journal[o]) \in {"prepared", "backup-complete"}
          /\ place = "recover" => Phase(journal[o]) = "recovery-started"
          /\ place = "begin-recovery" => Phase(journal[o]) \in Disturbed
  BY <1>3
<1>5. session'[s] = new(place)
  BY <1>4 DEF Ground, CoordinatorTypeOK
<1>6. /\ session'[s].at = place /\ session'[s].request = JournalRequest(o)
      /\ session'[s].safety = SafetyBackup(journal[o])
  BY <1>5
<1>7. ASSUME NEW P, Phase(journal[o]) \in P PROVE Owner(s, P)'
  <2>1. Op(s)' = o
    BY <1>6 DEF Op, JournalRequest
  <2> QED
    BY <1>1, <1>2, <1>6, <1>7, <2>1 DEF Owner, Holds, Readable, JournalRequest
<1>8. ASSUME Phase(journal[o]) \notin {"prepared", "failed"} PROVE OwnBackup(s)'
  <2>1. /\ Op(s)' = o /\ Kind(s)' = journal[o].kind
        /\ JournalTells(o)
    BY <1>1, <1>6 DEF Op, Kind, JournalRequest, JournalsTell
  <2>2. SUFFICES ASSUME TakesBackup(journal[o].kind)
                 PROVE  OwnRef(o, SafetyBackup(journal[o]))
    BY <1>2, <1>6, <2>1 DEF OwnBackup, OwnRef, TakesBackup
  <2>3. "backup-complete" \in Seen(journal[o])
    BY <1>8, <2>1, <2>2 DEF JournalTells
  <2>4. \E i \in DOMAIN journal[o].events :
            /\ journal[o].events[i].phase = "backup-complete"
            /\ SafetyBackup(journal[o]) = journal[o].events[i].ref
    BY <1>1, <2>3, NamedBackup
  <2> QED
    BY <2>1, <2>4 DEF JournalTells
<1>9. WorkStep /\ InCall'
  BY <1>2 DEF WorkStep, Quiet, Rest, BackupsKept, InCall
<1>10. CASE place = "safe-close"
  <2>1. Owner(s, {"prepared", "backup-complete"})'
    BY <1>4, <1>7, <1>10
  <2> QED
    BY <1>6, <1>9, <1>10, <2>1 DEF Done, Fits, Began, Changing, Recovering, At
<1>11. CASE place = "recover"
  <2>1. Owner(s, {"recovery-started"})' /\ OwnBackup(s)'
    BY <1>4, <1>7, <1>8, <1>11
  <2> QED
    BY <1>6, <1>9, <1>11, <2>1 DEF Done, Fits, Began, Changing, Recovering, At
<1>12. CASE place = "begin-recovery"
  <2>1. Owner(s, Disturbed)' /\ OwnBackup(s)'
    BY <1>4, <1>7, <1>8, <1>12 DEF Disturbed
  <2> QED
    BY <1>6, <1>9, <1>12, <2>1 DEF Done, Fits, Began, Changing, Recovering, At, Disturbed
<1> QED
  BY <1>10, <1>11, <1>12

\* An adapter is half way.
LEMMA DisturbWork ==
    ASSUME Ground, Kept, NEW s \in Callers, ApplyDisturbs(s) \/ RecoverDisturbs(s)
    PROVE  Done(s)
<1>1. /\ At(s, "apply") \/ At(s, "recover")
      /\ Local /\ UNCHANGED session
      /\ Fits(s) /\ InCall
  BY DEF ApplyDisturbs, RecoverDisturbs, Disturb, Ground, Control
<1>2. /\ Owner(s, {"staged", "recovery-started"})
      /\ At(s, "apply") => Owner(s, {"staged"})
      /\ At(s, "recover") => Owner(s, {"recovery-started"})
      /\ OwnBackup(s)
  <2>1. /\ At(s, "apply") => Owner(s, {"staged"}) /\ OwnBackup(s)
        /\ At(s, "recover") => Owner(s, {"recovery-started"}) /\ OwnBackup(s)
    BY <1>1 DEF Fits, Changing, Recovering
  <2> QED
    BY <1>1, <2>1, OwnerOf
<1>3. WorkStep
  BY <1>1, <1>2, TargetWork
<1>4. UNCHANGED <<lock, journal, backups, call, reply>> /\ session'[s] = session[s]
  BY <1>1 DEF Local, vars
<1>5. /\ At(s, "apply") => Owner(s, {"staged"})'
      /\ At(s, "recover") => Owner(s, {"recovery-started"})'
      /\ OwnBackup(s)'
  <2>1. \A P : Owner(s, P) => Owner(s, P)'
    BY <1>4, OwnerStays
  <2>2. OwnBackup(s)'
    BY <1>2, <1>4 DEF OwnBackup, OwnRef, Op, Kind
  <2> QED
    BY <1>2, <2>1, <2>2
<1>6. InCall'
  BY <1>1, <1>4 DEF InCall, JournalRequest, At
<1>7. Fits(s)'
  BY <1>1, <1>4, <1>5 DEF Fits, Began, Changing, Recovering, At
<1> QED
  BY <1>3, <1>6, <1>7 DEF Done

\* The handlers write over no journal.
LEMMA HandlersExtendNothing ==
    ASSUME StoreInv, HandlerStep,
           NEW o \in Ops, NEW p \in Phases, NEW b \in BackupIds \cup {NoBackup}, Extend(o, p, b)
    PROVE  FALSE
<1>1. TypeOK /\ CallOK
  BY DEF StoreInv
<1>2. /\ journal[o] # NoJournal
      /\ <<Phase(journal[o]), p>> \in Transitions /\ Phase(journal'[o]) = p
  BY <1>1, ExtendedJournal DEF Extend, Readable
<1>3. journal'[o] = journal[o]
  <2>1. CASE UNCHANGED journal
    BY <2>1
  <2>2. CASE WriteFirstJournal
    <3>1. \A q \in call.begin : journal[q.op] = NoJournal
      BY <1>1, <2>2 DEF WriteFirstJournal, CallOK, NewOperation
    <3>2. UNCHANGED journal \/ \E q \in call.begin : journal' = [journal EXCEPT ![q.op] = NewJournal(q, clock)]
      BY <2>2 DEF WriteFirstJournal
    <3> QED
      BY <1>1, <1>2, <3>1, <3>2 DEF TypeOK
  <2>3. CASE CreateLock \/ WriteLock \/ WritePlan \/ WriteRecord \/ RemoveLock
    BY <2>3 DEF CreateLock, WriteLock, WritePlan, WriteRecord, RemoveLock
  <2> QED
    BY <2>1, <2>2, <2>3 DEF HandlerStep
<1>4. <<p, p>> \notin Transitions
  BY DEF Transitions
<1> QED
  BY <1>2, <1>3, <1>4

\* A handler returns an error, or goes on to its next write, or returns ok: a
\* Begin does that only after its plan, and a transition after its lock.
LEMMA HandlerReturns ==
    ASSUME TypeOK, HandlerStep
    PROVE  \/ Return(call.caller, "error")
           \/ Return(call.caller, "ok") /\ (WritePlan \/ call.begin = {})
           \/ \E step \in Steps : Go(step) /\ (step = "plan" => WriteFirstJournal
                                   /\ \E q \in call.begin :
                                         journal' = [journal EXCEPT ![q.op] = NewJournal(q, clock)])
<1>1. {"lock", "journal", "plan", "unlock", "create"} \subseteq Steps
  BY DEF Steps
<1>2. CASE CreateLock
  BY <1>1, <1>2 DEF CreateLock, WriteFails
<1>3. CASE WriteLock
  BY <1>1, <1>3 DEF WriteLock, BeginWriteFails, WriteFails
<1>4. CASE WriteFirstJournal
  BY <1>1, <1>4 DEF WriteFirstJournal, BeginWriteFails, WriteFails
<1>5. CASE WritePlan
  BY <1>5 DEF WritePlan, BeginWriteFails, WriteFails
<1>6. CASE WriteRecord
  BY <1>1, <1>6 DEF WriteRecord, WriteFails
<1>7. CASE RemoveLock
  BY <1>1, <1>7 DEF RemoveLock, WriteFails
<1> QED
  BY <1>2, <1>3, <1>4, <1>5, <1>6, <1>7 DEF HandlerStep

LEMMA StoreWork ==
    ASSUME Ground, Kept, DiskStep, StoreStep
    PROVE  WorkStep /\ InCall' /\ Control'
<1>1. /\ HandlerStep /\ UNCHANGED <<session, target>> /\ BackupsKept
      /\ StoreInv /\ TypeOK /\ CallOK /\ InCall /\ Control /\ StoreInv'
  BY DEF StoreStep, Ground, Kept, StoreInv
<1>2. call # Idle
  BY <1>1 DEF HandlerStep, CreateLock, WriteLock, WriteFirstJournal, WritePlan, WriteRecord,
              RemoveLock, Idle
<1>3. WorkStep
  BY <1>1, HandlersExtendNothing DEF DiskStep, WorkStep, Quiet
<1>4. reply \in [Callers -> {"none", "ok", "error"}] /\ call \in Calls
  BY <1>1 DEF TypeOK
<1>5. ASSUME NEW t \in Callers
      PROVE  /\ reply[t] = "none"
             /\ IF call.begin = {} THEN At(t, "closing")
                                   ELSE At(t, "began") /\ call.begin = {session[t].request}
             /\ call.at = "plan" => /\ JournalValid(journal[lock])
                                    /\ JournalRequest(lock) = session[t].request
  BY <1>1, <1>2 DEF InCall
<1>6. InCall'
  <2>1. CASE \E result : Return(call.caller, result)
    BY <2>1 DEF Return, InCall
  <2>2. ASSUME NEW step \in Steps, Go(step),
               step = "plan" => WriteFirstJournal
                                /\ \E q \in call.begin :
                                       journal' = [journal EXCEPT ![q.op] = NewJournal(q, clock)]
        PROVE  InCall'
    <3>1. call'.at = step /\ call'.begin = call.begin /\ reply' = reply
      BY <1>4, <2>2 DEF Go, Calls
    <3>2. ASSUME step = "plan", NEW t \in Callers
          PROVE  JournalValid(journal'[lock']) /\ JournalRequest(lock)' = session[t].request
      <4>1. PICK q \in call.begin : /\ journal' = [journal EXCEPT ![q.op] = NewJournal(q, clock)]
                                    /\ WriteFirstJournal
        BY <2>2, <3>2
      <4>2. /\ q \in ValidRequests /\ q \in Requests /\ q.op \in Ops /\ lock = q.op
            /\ q = session[t].request
        BY <1>1, <1>5, <4>1 DEF WriteFirstJournal, CallOK, ValidRequests, Requests
      <4>3. lock' = q.op
        <5>1. Return(call.caller, "error") => call' = Idle
          BY DEF Return
        <5>2. Idle.at = "idle"
          BY DEF Idle
        <5> QED
          BY <3>1, <3>2, <4>1, <4>2, <5>1, <5>2 DEF WriteFirstJournal, BeginWriteFails, WriteFails
      <4>4. journal'[q.op] = NewJournal(q, clock)
        BY <1>1, <4>1, <4>2 DEF TypeOK
      <4>5. JournalValid(NewJournal(q, clock))
        BY <1>1, <4>2, FirstJournalValid DEF TypeOK
      <4>6. JournalRequest(lock)' = q
        BY <4>2, <4>3, <4>4 DEF JournalRequest, NewJournal, Requests
      <4> QED
        BY <4>2, <4>3, <4>4, <4>5, <4>6
    <3> QED
      BY <1>1, <1>5, <3>1, <3>2 DEF InCall, At
  <2> QED
    BY <1>1, <2>1, <2>2, HandlerReturns
<1>7. ASSUME NEW t \in Callers, At(t, "began"), Ok(t)'
      PROVE  Owner(t, {"prepared"})'
  <2>1. call.begin = {session[t].request}
    BY <1>5, <1>7 DEF At
  <2>2. WritePlan /\ Return(call.caller, "ok")
    BY <1>1, <1>4, <1>5, <1>7, <2>1, HandlerReturns DEF Return, Go, Ok
  <2>3. /\ lock' = lock /\ journal' = journal /\ session' = session
        /\ lock = session[t].request.op
        /\ journal[lock] \in Journals /\ Phase(journal[lock]) = "prepared"
        /\ JournalValid(journal[lock]) /\ JournalRequest(lock) = session[t].request
    <3>1. call.at = "plan"
      BY <2>2 DEF WritePlan
    <3>2. lock' = lock
      BY <1>4, <1>5, <1>7, <2>2 DEF WritePlan, BeginWriteFails, WriteFails, Return, Ok
    <3> QED
      BY <1>1, <1>5, <2>1, <2>2, <3>1, <3>2 DEF CallOK, WritePlan
  <2>4. lock \in Ops
    BY <1>1, <1>7, <2>3 DEF Ground, Asked, At, Requests
  <2>5. journal[lock] # NoJournal
    BY <2>3, JournalSentinelAssumption
  <2> QED
    BY <2>3, <2>4, <2>5 DEF Owner, Holds, Readable, Op, JournalRequest
<1>8. ASSUME NEW t \in Callers PROVE Fits(t)'
  BY <1>1, <1>5, <1>7 DEF Fits, Began, Changing, Recovering, At
<1> QED
  BY <1>3, <1>6, <1>8 DEF Control

LEMMA CrashWork ==
    ASSUME Ground, Kept, ProcessCrash
    PROVE  WorkStep /\ InCall' /\ Control'
<1>1. /\ UNCHANGED <<lock, journal, record, backups, clock, target>> /\ call' = Idle
      /\ session' = [s \in Callers |-> IdleSession]
  BY DEF ProcessCrash, Crash, disk
<1>2. WorkStep /\ InCall'
  BY <1>1 DEF WorkStep, Quiet, Rest, BackupsKept, InCall
<1>3. ASSUME NEW t \in Callers PROVE Fits(t)'
  <2>1. session'[t].at = "idle"
    BY <1>1 DEF IdleSession
  <2> QED
    BY <2>1, NothingNeeded
<1> QED
  BY <1>2, <1>3 DEF Control

\* One session at a time, every step is one of those, and leaves the session
\* where its operation and the target are.
LEMMA ControlStep ==
    ASSUME OneSession
    PROVE  Ground /\ JournalsTell /\ [CoordinatorNext]_cvars => Ground' /\ WorkStep /\ Kept
<1> SUFFICES ASSUME Ground, JournalsTell, [CoordinatorNext]_cvars
             PROVE  Ground' /\ WorkStep /\ Kept
  OBVIOUS
<1>1. CoordinatorTypeOK /\ Asked /\ StoreInv /\ CallOK /\ InCall /\ Control
  BY DEF Ground, StoreInv
<1>2. CoordinatorTypeOK' /\ Asked' /\ StoreInv' /\ DiskStep /\ BackupsKept
  BY <1>1, CoordinatorTypeStep, StoreInvStep
<1>3. Kept
  BY <1>2 DEF Kept
<1>4. ASSUME NEW s \in Callers, Done(s) PROVE WorkStep /\ InCall' /\ Control'
  BY <1>4 DEF Done, Control, OneSession
<1>5. ASSUME NEW s \in Callers, SessionStep(s) PROVE Done(s)
  BY <1>3, <1>5, PreparingWork, ChangingWork, RecoveringWork DEF SessionStep
<1>6. ASSUME UNCHANGED cvars PROVE WorkStep /\ InCall' /\ Control'
  <2>1. UNCHANGED <<lock, journal, record, backups, clock, call, reply, session, target>>
    BY <1>6 DEF cvars, vars
  <2>2. WorkStep
    BY <2>1 DEF WorkStep, Quiet, Rest, BackupsKept
  <2>3. InCall'
    BY <1>1, <2>1 DEF InCall, At, JournalRequest
  <2>4. ASSUME NEW t \in Callers PROVE Fits(t)'
    <3>1. \A P : Owner(t, P) => Owner(t, P)'
      BY <2>1, OwnerStays
    <3>2. /\ OwnBackup(t)' <=> OwnBackup(t)
          /\ Ok(t)' <=> Ok(t)
          /\ Reached(Goal(t))' <=> Reached(Goal(t))
          /\ Reached(Origin(t))' <=> Reached(Origin(t))
      BY <2>1 DEF OwnBackup, OwnRef, Op, Kind, Ok, Reached, Goal, Origin
    <3>3. Kind(t)' = Kind(t) /\ session'[t].at = session[t].at
      BY <2>1 DEF Kind
    <3>4. Began(t) /\ Changing(t) /\ Recovering(t)
      BY <1>1 DEF Control, Fits
    <3>5. Began(t)'
      BY <3>1, <3>2, <3>3, <3>4 DEF Began, At
    <3>6. Changing(t)'
      BY <3>1, <3>2, <3>3, <3>4 DEF Changing, At
    <3>7. Recovering(t)'
      BY <3>1, <3>2, <3>3, <3>4 DEF Recovering, At
    <3> QED
      BY <3>5, <3>6, <3>7 DEF Fits
  <2> QED
    BY <2>2, <2>3, <2>4 DEF Control
<1>7. ASSUME NEW s \in Callers, NEW q \in ValidRequests, RunStart(s, q) PROVE Done(s)
  BY <1>3, <1>7, StartWork
<1>8. ASSUME NEW s \in Callers, RecoverActive(s) PROVE Done(s)
  BY <1>3, <1>8, TakeOverWork
<1>9. ASSUME NEW s \in Callers, ApplyDisturbs(s) \/ RecoverDisturbs(s) PROVE Done(s)
  BY <1>3, <1>9, DisturbWork
<1>10. ASSUME StoreStep PROVE WorkStep /\ InCall' /\ Control'
  BY <1>2, <1>3, <1>10, StoreWork
<1>11. ASSUME ProcessCrash PROVE WorkStep /\ InCall' /\ Control'
  BY <1>3, <1>11, CrashWork
<1>12. WorkStep /\ InCall' /\ Control'
  <2>1. CASE \E s \in Callers : Done(s)
    BY <1>4, <2>1
  <2>2. ASSUME ~\E s \in Callers : Done(s), CoordinatorNext PROVE StoreStep \/ ProcessCrash
    BY <1>5, <1>7, <1>8, <1>9, <2>2 DEF CoordinatorNext
  <2> QED
    BY <1>6, <1>10, <1>11, <2>1, <2>2
<1> QED
  BY <1>2, <1>3, <1>12 DEF Ground

-----------------------------------------------------------------------------
(* What the journals tell.                                                 *)

\* An appended event is the last of a journal and the others are its old ones.
LEMMA AppendedEvents ==
    ASSUME NEW j \in Journals, NEW p \in Phases,
           NEW b \in BackupIds \cup {NoBackup}, NEW t \in Times
    PROVE  LET k == AppendEvent(j, p, b, t) IN
           /\ Seen(k) = Seen(j) \cup {p}
           /\ \A i \in DOMAIN k.events :
                 \/ i \in DOMAIN j.events /\ k.events[i] = j.events[i]
                 \/ k.events[i].phase = p /\ k.events[i].ref = b
<1> DEFINE e == [phase |-> p, ref |-> b, time |-> t]
           k == AppendEvent(j, p, b, t)
           n == Len(j.events)
<1>1. e \in Events /\ j.events \in Seq(Events) /\ n \in Nat /\ DOMAIN j.events = 1..n
  BY DEF Events, Journals
<1>2. k.events = Append(j.events, e)
  BY DEF AppendEvent, Journals
<1>3. /\ DOMAIN k.events = 1..(n + 1) /\ k.events[n + 1] = e
      /\ \A i \in 1..n : k.events[i] = j.events[i]
  BY <1>1, <1>2
<1>4. \A i \in 1..(n + 1) : i \in 1..n \/ i = n + 1
  BY <1>1
<1>5. 1..n \subseteq 1..(n + 1) /\ n + 1 \in 1..(n + 1)
  BY <1>1
<1> HIDE DEF k, n
<1>6. e.phase = p /\ e.ref = b
  OBVIOUS
<1> HIDE DEF e
<1>7. \A i \in DOMAIN k.events :
         \/ i \in DOMAIN j.events /\ k.events[i] = j.events[i]
         \/ k.events[i].phase = p /\ k.events[i].ref = b
  BY <1>1, <1>3, <1>4, <1>6
<1>8. Seen(k) = Seen(j) \cup {p}
  BY <1>1, <1>3, <1>4, <1>5, <1>6 DEF Seen
<1> QED
  BY <1>7, <1>8 DEF k

\* The phase of a journal is one it has seen.
LEMMA PhaseSeen ==
    ASSUME NEW j \in Journals, JournalValid(j)
    PROVE  Phase(j) \in Seen(j)
<1>1. j.events \in Seq(Events) /\ Len(j.events) \in Nat /\ Len(j.events) > 0
  BY DEF Journals, JournalValid
<1>2. Len(j.events) \in DOMAIN j.events
  BY <1>1
<1> QED
  BY <1>2 DEF Phase, Seen

LEMMA OwnRefStays ==
    ASSUME BackupsKept, NEW o \in Ops, NEW b, OwnRef(o, b),
           journal'[o].from = journal[o].from
    PROVE  OwnRef(o, b)'
<1>1. [op |-> o, version |-> journal[o].from] # NoBackupRecord
  BY SentinelAssumption DEF NoBackupRecord
<1> QED
  BY <1>1 DEF OwnRef, BackupsKept

\* What the phase graph says of the phase before.
LEMMA PhaseBefore ==
    ASSUME NEW x, NEW p, <<x, p>> \in Transitions
    PROVE  /\ x \notin Terminal /\ x # p /\ p # "prepared"
           /\ p = "backup-complete" => x = "prepared"
           /\ p = "verified" => x = "applied"
           /\ p = "committed" => x \in {"backup-complete", "verified"}
           /\ p = "recovery-started" => x \in Disturbed
           /\ p = "recovered" => x = "recovery-started"
           /\ p \in {"staged", "applied"} => x \in {"prepared", "backup-complete", "staged"}
           /\ p = "staged" => x \in {"prepared", "backup-complete"}
           /\ p = "failed" => x \in {"prepared", "backup-complete", "recovery-started"} \cup Disturbed
BY DEF Transitions, Terminal, Disturbed

\* An extended journal tells what it told, and its new phase.
LEMMA ExtendedTells ==
    ASSUME StoreInv, BackupsKept, JournalsTell,
           NEW o \in Ops, NEW p \in Phases, NEW b \in BackupIds \cup {NoBackup},
           Extend(o, p, b), Chosen(o, p, b)
    PROVE  JournalTells(o)'
<1> DEFINE j == journal[o]
           k == journal'[o]
           own(c) == c \in BackupIds /\ backups'[c] = [op |-> o, version |-> journal'[o].from]
<1>1. TypeOK /\ clock \in Times
  BY DEF StoreInv, TypeOK
<1>2. /\ j \in Journals /\ JournalValid(j) /\ k = AppendEvent(j, p, b, clock)
      /\ Phase(k) = p /\ <<Phase(j), p>> \in Transitions
      /\ k.kind = j.kind /\ k.from = j.from
  BY <1>1, ExtendedJournal
<1>3. /\ Seen(k) = Seen(j) \cup {p}
      /\ \A i \in DOMAIN k.events :
            \/ i \in DOMAIN j.events /\ k.events[i] = j.events[i]
            \/ k.events[i].phase = p /\ k.events[i].ref = b
  BY <1>1, <1>2, AppendedEvents
<1>4. JournalTells(o)
  BY <1>2, JournalSentinelAssumption DEF JournalsTell
<1>5. Phase(j) \in Seen(j)
  BY <1>2, PhaseSeen
<1>6. /\ Phase(j) \notin Terminal /\ Phase(j) # p /\ p # "prepared"
      /\ p = "backup-complete" => Phase(j) = "prepared"
      /\ p = "verified" => Phase(j) = "applied"
      /\ p = "committed" => Phase(j) \in {"backup-complete", "verified"}
      /\ p = "recovery-started" => Phase(j) \in Disturbed
      /\ p = "recovered" => Phase(j) = "recovery-started"
      /\ p = "staged" => Phase(j) \in {"prepared", "backup-complete"}
  BY <1>2, PhaseBefore
<1>7. \A c : OwnRef(o, c) => own(c)
  BY <1>2, OwnRefStays DEF OwnRef
<1>8. /\ p = "backup-complete" => OwnRef(o, b)
      /\ p = "staged" => /\ j.kind # "backup"
                         /\ TakesBackup(j.kind) => Phase(j) = "backup-complete"
      /\ p = "applied" => Phase(j) = "staged"
  BY DEF Chosen
<1> HIDE DEF j, k, own
<1>9. \A i \in DOMAIN k.events :
          k.events[i].phase = "backup-complete" => own(k.events[i].ref)
  <2> SUFFICES ASSUME NEW i \in DOMAIN k.events, k.events[i].phase = "backup-complete"
               PROVE  own(k.events[i].ref)
    OBVIOUS
  <2>1. CASE i \in DOMAIN j.events /\ k.events[i] = j.events[i]
    BY <1>4, <1>7, <2>1 DEF JournalTells, j
  <2>2. CASE k.events[i].phase = p /\ k.events[i].ref = b
    BY <1>7, <1>8, <2>2
  <2> QED
    BY <1>3, <2>1, <2>2
<1>10. /\ TakesBackup(j.kind) /\ Phase(j) \notin {"prepared", "failed"} =>
              "backup-complete" \in Seen(j)
       /\ Phase(j) \in {"prepared", "backup-complete", "staged", "applied", "verified"} =>
              "recovery-started" \notin Seen(j)
       /\ Phase(j) \in {"staged", "applied", "verified"} => "staged" \in Seen(j)
       /\ Phase(j) \in {"staged", "applied", "verified", "recovery-started", "recovered"} =>
              j.kind # "backup"
  BY <1>4 DEF JournalTells, j
<1>11. TakesBackup(j.kind) /\ p \notin {"prepared", "failed"} => "backup-complete" \in Seen(k)
  BY <1>3, <1>5, <1>6, <1>8, <1>10 DEF Disturbed, Phases
<1>12. p \in {"prepared", "backup-complete", "staged", "applied", "verified"} =>
           "recovery-started" \notin Seen(k)
  BY <1>3, <1>6, <1>8, <1>10
<1>13. p \in {"staged", "applied", "verified"} => "staged" \in Seen(k)
  BY <1>3, <1>6, <1>8, <1>10
<1>14. p \in {"staged", "applied", "verified", "recovery-started", "recovered"} =>
           k.kind # "backup"
  BY <1>2, <1>6, <1>8, <1>10 DEF Disturbed
<1>15. k.kind = j.kind /\ Phase(k) = p
  BY <1>2
<1> QED
  <2>1. \A i \in DOMAIN k.events :
            k.events[i].phase = "backup-complete" => own(k.events[i].ref)
    BY <1>9
  <2> QED
    BY <2>1, <1>11, <1>12, <1>13, <1>14, <1>15 DEF JournalTells, OwnRef, TakesBackup, k, own

\* A journal that stays, stays true.
LEMMA KeptTells ==
    ASSUME BackupsKept, NEW o \in Ops, JournalTells(o), journal'[o] = journal[o]
    PROVE  JournalTells(o)'
<1>1. \A c : OwnRef(o, c) => OwnRef(o, c)'
  BY OwnRefStays
<1> QED
  BY <1>1 DEF JournalTells, TakesBackup

LEMMA JournalsTellStep ==
    ASSUME StoreInv, BackupsKept, JournalsTell, WorkStep
    PROVE  JournalsTell'
<1>0. TypeOK /\ clock \in Times
  BY DEF StoreInv, TypeOK
<1>1. CASE UNCHANGED journal
  BY <1>1, KeptTells DEF JournalsTell
<1>2. ASSUME NEW q \in ValidRequests, Open(q) PROVE JournalsTell'
  <2>1. /\ q.op \in Ops /\ journal'[q.op] = NewJournal(q, clock)
        /\ Phase(journal'[q.op]) = "prepared"
        /\ \A x \in Ops : x # q.op => journal'[x] = journal[x]
    BY <1>0, <1>2, OpenedJournal
  <2>2. /\ DOMAIN journal'[q.op].events = {1}
        /\ journal'[q.op].events[1].phase = "prepared"
    BY <2>1 DEF NewJournal
  <2>3. Seen(journal'[q.op]) = {"prepared"}
    BY <2>2 DEF Seen
  <2>4. PICK o \in Ops : o = q.op
    BY <2>1
  <2>5. JournalTells(o)'
    BY <2>1, <2>2, <2>3, <2>4 DEF JournalTells
  <2> QED
    BY <2>1, <2>4, <2>5, KeptTells DEF JournalsTell
<1>3. ASSUME NEW o \in Ops, NEW p \in Phases, NEW b \in BackupIds \cup {NoBackup},
             Extend(o, p, b), Chosen(o, p, b)
      PROVE  JournalsTell'
  <2>1. JournalTells(o)' /\ \A x \in Ops : x # o => journal'[x] = journal[x]
    BY <1>0, <1>3, ExtendedTells, ExtendedJournal
  <2> QED
    BY <2>1, KeptTells DEF JournalsTell
<1> QED
  BY <1>1, <1>2, <1>3 DEF WorkStep, Quiet, Chooses, Changes, Rest, Acquire, Project, Release

-----------------------------------------------------------------------------
(* Where the target is.                                                    *)

\* The lock, the journals and the inventory of the owner agree: what the
\* inventory says is what the owner's journal says it brought, once recorded,
LEMMA InstalledAfter ==
    ASSUME StoreInv, NEW o \in Ops, AlreadyRecorded(record, o)
    PROVE  /\ Installed = Result(journal[o])
           /\ \/ Phase(journal[o]) = "committed" /\ journal[o].kind # "backup"
              \/ Phase(journal[o]) = "recovered" /\ journal[o].kind = "uninstall"
<1>1. record # NoRecord /\ record.lastOp = o /\ InventoryEarned
  BY DEF StoreInv, AlreadyRecorded
<1> QED
  BY <1>1 DEF InventoryEarned, Installed, IsActive, Result

\* and before that it is what it started from.
LEMMA InstalledBefore ==
    ASSUME StoreInv, Owned, ~AlreadyRecorded(record, lock)
    PROVE  Installed = journal[lock].from
<1>1. /\ CurrentStateAllows(record, journal[lock].kind, journal[lock].from)
      /\ JournalValid(journal[lock])
  BY JournalExists DEF StoreInv, OwnerCurrent, Owned
<1>2. (journal[lock].kind = "install") <=> (journal[lock].from = NoVersion)
  BY <1>1 DEF JournalValid, OperationVersionsValid
<1> QED
  BY <1>1, <1>2 DEF CurrentStateAllows, Installed

\* An extended journal of the owner.
LEMMA ExtendedOwner ==
    ASSUME StoreInv, NEW o \in Ops, NEW p \in Phases, NEW b \in BackupIds \cup {NoBackup},
           Extend(o, p, b)
    PROVE  /\ lock = o /\ lock' = o /\ record' = record
           /\ journal[o] # NoJournal /\ journal'[o] # NoJournal
           /\ Owned /\ Owned'
           /\ Phase(journal'[o]) = p /\ <<Phase(journal[o]), p>> \in Transitions
           /\ journal'[o].kind = journal[o].kind
           /\ Result(journal'[o]) = Result(journal[o])
           /\ Before(journal'[o]) = Before(journal[o])
           /\ Seen(journal'[o]) = Seen(journal[o]) \cup {p}
           /\ \A x \in Ops : x # o => journal'[x] = journal[x]
<1>1. TypeOK /\ clock \in Times
  BY DEF StoreInv, TypeOK
<1>2. /\ journal[o] \in Journals /\ journal'[o] \in Journals
      /\ journal'[o] = AppendEvent(journal[o], p, b, clock)
      /\ Phase(journal'[o]) = p /\ <<Phase(journal[o]), p>> \in Transitions
      /\ journal'[o].kind = journal[o].kind /\ journal'[o].from = journal[o].from
      /\ journal'[o].to = journal[o].to
      /\ \A x \in Ops : x # o => journal'[x] = journal[x]
  BY <1>1, ExtendedJournal
<1>3. Seen(journal'[o]) = Seen(journal[o]) \cup {p}
  BY <1>1, <1>2, AppendedEvents
<1>4. lock = o /\ lock' = o /\ record' = record
  BY DEF Extend
<1> QED
  BY <1>2, <1>3, <1>4, JournalSentinelAssumption DEF Owned, Result, Before

\* What the journal says is in place stays there: only the owner is changed,
\* and it is not applied or verified while it is.
LEMMA DeployedStep == StoreInv /\ Deployed /\ WorkStep => Deployed'
<1> SUFFICES ASSUME StoreInv, Deployed, WorkStep,
                    Owned', Phase(journal'[lock']) \in {"applied", "verified"}
             PROVE  Reached(Result(journal[lock]))'
  BY DEF Deployed
<1> USE SentinelAssumption
<1>1. CASE UNCHANGED <<lock, journal, target>>
  BY <1>1 DEF Deployed, Owned, Reached, Result
<1>2. CASE Acquire \/ Release
  BY <1>2 DEF Acquire, Release, Owned
<1>3. ASSUME NEW q \in ValidRequests, Open(q) PROVE FALSE
  <2>1. Phase(journal'[lock']) = "prepared"
    BY <1>3, OpenedJournal DEF Open, StoreInv
  <2> QED
    BY <2>1
<1>4. ASSUME NEW o \in Ops, NEW p \in Phases, NEW b \in BackupIds \cup {NoBackup},
             Extend(o, p, b), Chosen(o, p, b), UNCHANGED target
      PROVE  Reached(Result(journal[lock]))'
  <2>1. /\ lock = o /\ lock' = o /\ Owned
        /\ Phase(journal'[o]) = p /\ <<Phase(journal[o]), p>> \in Transitions
        /\ Result(journal'[o]) = Result(journal[o])
    BY <1>4, ExtendedOwner
  <2>2. Reached(Result(journal[o]))
    <3>1. CASE p = "applied"
      BY <1>4, <3>1 DEF Chosen
    <3>2. CASE p = "verified"
      BY <2>1, <3>2, PhaseBefore DEF Deployed
    <3> QED
      BY <2>1, <3>1, <3>2
  <2>3. Result(journal[lock])' = Result(journal[o])
    BY <2>1 DEF Result
  <2> QED
    BY <1>4, <2>2, <2>3 DEF Reached
<1>5. CASE Changes
  BY <1>5 DEF Changes
<1> QED
  BY <1>1, <1>2, <1>3, <1>4, <1>5 DEF WorkStep, Quiet, Chooses, Rest, Project

\* An operation that lost the target stays in its journal.
LEMMA LostStep == StoreInv /\ Lost /\ WorkStep => Lost'
<1> SUFFICES ASSUME StoreInv, WorkStep, NEW o \in Ops,
                    journal[o] # NoJournal, Phase(journal[o]) = "failed"
             PROVE  journal'[o] = journal[o]
  BY DEF Lost
<1>1. ASSUME NEW q \in ValidRequests, Open(q) PROVE journal'[o] = journal[o]
  BY <1>1, OpenedJournal DEF StoreInv
<1>2. ASSUME NEW x \in Ops, NEW p \in Phases, NEW b \in BackupIds \cup {NoBackup},
             Extend(x, p, b)
      PROVE  journal'[o] = journal[o]
  BY <1>2, ExtendedOwner, NothingFollowsAnEnd DEF Terminal
<1> QED
  BY <1>1, <1>2
  DEF WorkStep, Quiet, Chooses, Changes, Rest, Acquire, Project, Release

\* When the lock is released, the target is what the inventory says.
LEMMA ReleasedSettled ==
    ASSUME StoreInv, TargetFits, Release
    PROVE  Settled
<1> DEFINE j == journal[lock]
<1>1. /\ lock \in Ops /\ j \in Journals /\ j # NoJournal /\ Owned
      /\ Phase(j) \in Terminal \cup {"prepared"}
      /\ ChangesInstallation(j) => Phase(j) = "prepared" \/ AlreadyRecorded(record, lock)
  BY JournalSentinelAssumption DEF Release, Owned
<1>2. CASE Phase(j) \in {"prepared", "failed"}
  BY <1>1, <1>2 DEF TargetFits
<1>3. CASE Phase(j) = "committed" /\ j.kind = "backup"
  BY <1>1, <1>3 DEF TargetFits
<1>4. CASE Phase(j) = "committed" /\ j.kind # "backup"
  <2>1. Reached(Result(j))
    BY <1>1, <1>4 DEF TargetFits
  <2>2. Installed = Result(j)
    BY <1>1, <1>4, InstalledAfter DEF ChangesInstallation
  <2> QED
    BY <2>1, <2>2 DEF Settled
<1>5. CASE Phase(j) = "recovered"
  <2>1. Reached(Before(j))
    BY <1>1, <1>5 DEF TargetFits
  <2>2. CASE j.kind = "uninstall"
    <3>1. Installed = Result(j)
      BY <1>1, <1>5, <2>2, InstalledAfter DEF ChangesInstallation
    <3> QED
      BY <2>1, <2>2, <3>1 DEF Settled, Before, Result
  <2>3. CASE j.kind # "uninstall"
    <3>1. ~AlreadyRecorded(record, lock)
      BY <1>1, <1>5, <2>3, InstalledAfter
    <3>2. Installed = j.from
      BY <1>1, <3>1, InstalledBefore
    <3> QED
      BY <2>1, <2>3, <3>2 DEF Settled, Before
  <2> QED
    BY <2>2, <2>3
<1> QED
  BY <1>1, <1>2, <1>3, <1>4, <1>5 DEF Terminal

\* A new phase of the owner fits the target, or the operation just lost it.
LEMMA ExtendedFits ==
    ASSUME StoreInv, JournalsTell, Deployed, TargetFits,
           NEW o \in Ops, NEW p \in Phases, NEW b \in BackupIds \cup {NoBackup},
           Extend(o, p, b), Chosen(o, p, b), UNCHANGED target
    PROVE  Lost' \/ TargetFits'
<1> DEFINE j == journal[o]
           k == journal'[o]
<1>1. /\ lock = o /\ lock' = o /\ record' = record /\ Owned /\ Owned'
      /\ j # NoJournal /\ k # NoJournal
      /\ Phase(k) = p /\ <<Phase(j), p>> \in Transitions
      /\ k.kind = j.kind /\ Result(k) = Result(j) /\ Before(k) = Before(j)
      /\ Seen(k) = Seen(j) \cup {p}
  BY ExtendedOwner
<1>2. JournalTells(o)
  BY <1>1 DEF JournalsTell
<1>3. (Settled' <=> Settled) /\ \A v : Reached(v)' <=> Reached(v)
  BY <1>1 DEF Settled, Reached, Installed, IsActive
<1>4. ASSUME Phase(j) \in {"prepared", "backup-complete"} PROVE Settled
  BY <1>1, <1>4 DEF TargetFits
<1>5. /\ Phase(j) # p /\ p # "prepared"
      /\ p = "backup-complete" => Phase(j) = "prepared"
      /\ p = "committed" => Phase(j) \in {"backup-complete", "verified"}
      /\ p = "failed" => Phase(j) \in {"prepared", "backup-complete"} \cup Disturbed
  BY <1>1, PhaseBefore DEF Chosen
<1>6. CASE p = "backup-complete"
  BY <1>1, <1>3, <1>4, <1>5, <1>6 DEF TargetFits
<1>7. CASE p = "failed" /\ Phase(j) \in {"prepared", "backup-complete"}
  BY <1>1, <1>3, <1>4, <1>7 DEF TargetFits
<1>8. CASE p = "failed" /\ Phase(j) \in Disturbed
  <2>1. "staged" \in Seen(j) /\ "recovery-started" \notin Seen(j)
    BY <1>2, <1>8 DEF JournalTells, Disturbed
  <2>2. "staged" \in Seen(k) /\ "recovery-started" \notin Seen(k)
    BY <1>1, <1>8, <2>1
  <2> QED
    BY <1>1, <1>8, <2>2 DEF Lost
<1>9. CASE p = "committed"
  <2>1. CASE j.kind = "backup"
    <3>1. Phase(j) = "backup-complete"
      BY <1>2, <1>5, <1>9, <2>1 DEF JournalTells
    <3> QED
      BY <1>1, <1>3, <1>4, <1>9, <2>1, <3>1 DEF TargetFits
  <2>2. CASE j.kind # "backup"
    <3>1. Phase(j) = "verified"
      BY <1>9, <2>2 DEF Chosen
    <3>2. Reached(Result(j))
      BY <1>1, <3>1 DEF Deployed
    <3>4. ~target'.dirty /\ target'.version = Result(k)
      BY <1>1, <3>2 DEF Reached
    <3> QED
      BY <1>1, <1>9, <2>2, <3>4 DEF TargetFits, Reached, Result
  <2> QED
    BY <2>1, <2>2
<1>10. CASE p = "recovered"
  <2>1. Reached(Before(j))
    BY <1>10 DEF Chosen
  <2>2. ~target'.dirty /\ target'.version = Before(k)
    BY <1>1, <2>1 DEF Reached
  <2> QED
    BY <1>1, <1>10, <2>2 DEF TargetFits, Reached, Before
<1>11. CASE p \notin {"prepared", "backup-complete", "failed", "committed", "recovered"}
  BY <1>1, <1>11 DEF TargetFits
<1> QED
  BY <1>5, <1>6, <1>7, <1>8, <1>9, <1>10, <1>11

LEMMA TargetStep ==
    StoreInv /\ JournalsTell /\ Deployed /\ (Lost \/ TargetFits) /\ WorkStep
        => Lost' \/ TargetFits'
<1> SUFFICES ASSUME StoreInv, JournalsTell, Deployed, TargetFits, WorkStep
             PROVE  Lost' \/ TargetFits'
  BY LostStep
<1> USE SentinelAssumption
<1>1. ASSUME UNCHANGED <<record, target>> PROVE Settled' <=> Settled
  BY <1>1 DEF Settled, Reached, Installed, IsActive
<1>2. CASE UNCHANGED target /\ Rest
  BY <1>1, <1>2 DEF Rest, TargetFits, Owned, Reached, Result, Before
<1>3. CASE UNCHANGED target /\ Acquire
  <2>1. ~Owned /\ ~Owned' /\ UNCHANGED record
    BY <1>3 DEF Acquire, Owned
  <2> QED
    BY <1>1, <1>3, <2>1 DEF TargetFits
<1>4. ASSUME NEW q \in ValidRequests, Open(q), UNCHANGED target PROVE TargetFits'
  <2>1. /\ ~Owned /\ UNCHANGED record
        /\ lock' = q.op /\ q.op \in Ops /\ Phase(journal'[q.op]) = "prepared"
        /\ journal'[q.op] \in Journals
    BY <1>4, OpenedJournal DEF Open, StoreInv, Owned
  <2>2. Settled'
    BY <1>1, <1>4, <2>1 DEF TargetFits
  <2> QED
    BY <2>1, <2>2 DEF TargetFits
<1>5. CASE UNCHANGED target /\ Project
  <2>1. /\ UNCHANGED <<lock, journal>> /\ lock \in Ops /\ ChangesInstallation(journal[lock])
        /\ Owned
    BY <1>5, JournalSentinelAssumption DEF Project, RecordAllowed, Owned
  <2>2. \/ Phase(journal[lock]) = "committed" /\ journal[lock].kind # "backup"
        \/ Phase(journal[lock]) = "recovered"
    BY <2>1 DEF ChangesInstallation
  <2>3. /\ Phase(journal[lock]) = "committed" => Reached(Result(journal[lock]))
        /\ Phase(journal[lock]) = "recovered" => Reached(Before(journal[lock]))
    BY <2>1, <2>2 DEF TargetFits
  <2> QED
    BY <1>5, <2>1, <2>2, <2>3 DEF TargetFits, Owned, Reached, Result, Before
<1>6. CASE UNCHANGED target /\ Release
  <2>1. Settled /\ UNCHANGED record /\ lock' = NoOp
    BY <1>6, ReleasedSettled DEF Release
  <2>2. ~Owned'
    BY <2>1 DEF Owned
  <2> QED
    BY <1>1, <1>6, <2>1, <2>2 DEF TargetFits
<1>7. CASE Changes
  <2>1. Owned' /\ Phase(journal'[lock']) \in {"staged", "recovery-started"}
    BY <1>7 DEF Changes, Owned
  <2> QED
    BY <2>1 DEF TargetFits
<1> QED
  BY <1>2, <1>3, <1>4, <1>5, <1>6, <1>7, ExtendedFits DEF WorkStep, Quiet, Chooses

-----------------------------------------------------------------------------
(* One session at a time.                                                  *)

LEMMA Invariance == ASSUME OneSession PROVE CoordinatorSpec => []Inv
<1>1. CoordinatorInit => Inv
  <2> SUFFICES ASSUME CoordinatorInit PROVE Inv
    OBVIOUS
  <2>1. CoordinatorTypeOK /\ CallOK /\ Asked
    BY CoordinatorInitType
  <2>2. /\ lock = NoOp /\ \A o \in Ops : journal[o] = NoJournal
        /\ record = NoRecord /\ call = Idle
        /\ \A s \in Callers : session[s].at = "idle"
        /\ target = [version |-> NoVersion, dirty |-> FALSE]
    BY DEF CoordinatorInit, Init, IdleSession
  <2>3. StoreInv
    BY <2>1, <2>2, SentinelAssumption
    DEF StoreInv, CoordinatorTypeOK, TimesOrdered, InventoryEarned, OwnerCurrent
  <2>4. InCall /\ Control
    BY <2>2 DEF InCall, Control, Fits, Began, Changing, Recovering, At
  <2>5. ~Owned /\ JournalsTell /\ Deployed
    BY <2>2, SentinelAssumption DEF JournalsTell, Deployed, Owned
  <2>6. TargetFits
    BY <2>2, <2>5 DEF TargetFits, Settled, Reached, Installed, IsActive
  <2> QED
    BY <2>1, <2>3, <2>4, <2>5, <2>6 DEF Inv
<1>2. Inv /\ [CoordinatorNext]_cvars => Inv'
  <2> SUFFICES ASSUME Inv, [CoordinatorNext]_cvars PROVE Inv'
    OBVIOUS
  <2>1. Ground /\ JournalsTell /\ Deployed /\ (Lost \/ TargetFits) /\ StoreInv
    BY DEF Inv, Ground
  <2>2. Ground' /\ WorkStep /\ BackupsKept
    BY <2>1, ControlStep DEF Kept
  <2>3. JournalsTell' /\ Deployed' /\ (Lost' \/ TargetFits')
    BY <2>1, <2>2, JournalsTellStep, DeployedStep, TargetStep
  <2> QED
    BY <2>2, <2>3 DEF Inv, Ground
<1> QED
  BY <1>1, <1>2, PTL DEF CoordinatorSpec

\* ADR-0009: an adapter works on the target only for the operation that holds
\* the deployment lock, whose journal tells a restart that the target may have
\* changed.
THEOREM MutationsAreLocked ==
    ASSUME OneSession PROVE CoordinatorSpec => []MutationUnderLock
<1>1. Inv => MutationUnderLock
  <2> SUFFICES ASSUME Inv, NEW s \in Callers, At(s, "apply") \/ At(s, "recover")
               PROVE  /\ Holds(Op(s))
                      /\ Phase(journal[Op(s)]) \in {"staged", "recovery-started"}
    BY DEF MutationUnderLock
  <2>1. Owner(s, {"staged"}) \/ Owner(s, {"recovery-started"})
    BY DEF Inv, Control, Fits, Changing, Recovering
  <2> QED
    BY <2>1 DEF Owner
<1> QED
  BY <1>1, Invariance, PTL

\* Mutator.Recover gets the safety backup its own operation took of the version
\* it has to bring back, in the session that took it and in every later one.
THEOREM RecoveryHasItsBackup ==
    ASSUME OneSession PROVE CoordinatorSpec => []RecoveryUsesOwnBackup
<1>1. Inv => RecoveryUsesOwnBackup
  <2> SUFFICES ASSUME Inv, NEW s \in Callers, At(s, "recover"), TakesBackup(Kind(s))
               PROVE  LET b == session[s].safety IN
                      /\ b # NoBackup
                      /\ backups[b] = [op |-> Op(s), version |-> session[s].request.from]
    BY DEF RecoveryUsesOwnBackup
  <2>1. Owner(s, {"recovery-started"}) /\ OwnBackup(s)
    BY DEF Inv, Control, Fits, Recovering
  <2>2. journal[Op(s)].from = session[s].request.from
    BY <2>1, OwnerSays
  <2> QED
    BY <2>1, <2>2, SentinelAssumption DEF OwnBackup, OwnRef
<1> QED
  BY <1>1, Invariance, PTL

\* A journal that says applied or verified tells the truth about the target.
THEOREM VerifiedMeansDeployed ==
    ASSUME OneSession PROVE CoordinatorSpec => []VerifiedIsDeployed
<1>1. Inv => VerifiedIsDeployed
  BY DEF Inv, VerifiedIsDeployed, Deployed, Owned, Holds, Readable, Reached, Result
<1> QED
  BY <1>1, Invariance, PTL

\* The inventory and the target part only when Run closes an operation as
\* failed because its recovery could not be recorded (coordinator.go, recover):
\* no commit, recovery, crash or failed write does that.
THEOREM TargetIsLostByFallback ==
    ASSUME OneSession PROVE CoordinatorSpec => []OnlyFallbackLosesTarget
<1>1. Inv => OnlyFallbackLosesTarget
  <2>1. lock = NoOp => ~Owned
    BY SentinelAssumption DEF Owned
  <2> QED
    BY <2>1 DEF Inv, OnlyFallbackLosesTarget, Lost, TargetFits, Settled, Reached
<1> QED
  BY <1>1, Invariance, PTL

=============================================================================
