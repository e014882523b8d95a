------------------------ MODULE LoopbackServerProofs ------------------------
(***************************************************************************)
(* The properties of the loopback server, for any goroutines, plans and    *)
(* requests.  Each request has its target to itself from the moment its    *)
(* operation holds the lock to the removal of that lock.                   *)
(***************************************************************************)
EXTENDS LoopbackServer, TLAPS

Early == {"stage", "compare", "extract", "remove"}

Reading == {"identity", "image", "purge", "fetch", "load", "apply"}

Late == Reading \cup {"verify"}

Guarded == {"begin", "recover", "project", "unlock"}

\* The steps of a request of this kind.
Fits(k, s) ==
    /\ k \in Changes => s \in {"begin", "project", "unlock"} \cup Early \cup Late
    /\ k = "recover" => s \in {"recover", "project", "unlock"}
    /\ s \in {"begin", "remove"} \cup Late => k \in Changes
    /\ s \in {"stage", "compare", "extract"} => k \in Changes \cup {"stage", "preflight"}
    /\ s = "recover" => k = "recover"
    /\ s \in {"project", "unlock"} => k \in Changes \cup {"recover"}

Busy(r) == req[r] # None /\ req[r].kind \in Changes /\ req[r].at \in Early \cup Late

\* Its terminal journal is written, and the record and the lock are not done.
Closing(r) == req[r] # None /\ req[r].at \in {"project", "unlock"}

Open(t) == op[t] # None /\ op[t].phase \notin Outcomes

-----------------------------------------------------------------------------
(* The inductive invariant.                                                *)

StepsFit == \A r \in Requests : req[r] # None => Fits(req[r].kind, req[r].at)

\* Between Begin and the terminal journal a request owns an open operation,
Owned == \A r \in Requests : Busy(r) => Open(Target(r))

\* nobody else does,
OneOwner == \A r, s \in Requests : Busy(r) /\ Busy(s) /\ Target(r) = Target(s) => r = s

\* and no recovery is on its way.
RecoverAlone ==
    \A r, s \in Requests :
        /\ req[r] # None /\ req[r].kind = "recover"
        /\ req[s] # None /\ req[s].kind \in Changes
        => Target(r) # Target(s)

\* One request at a time records an operation and removes its lock, and the
\* operation has ended.
Finalizing == \A r \in Requests : Closing(r) => Ended(Target(r))

OneCloses == \A r, s \in Requests : Closing(r) /\ Closing(s) => r = s

\* Installs are of what is not installed, everything else of what is.
Lawful == \A t \in Targets : Open(t) => (op[t].kind = "install" <=> t \notin installed)

Control ==
    /\ RequestTypeOK /\ StepsFit /\ Owned /\ OneOwner /\ RecoverAlone
    /\ Finalizing /\ OneCloses /\ Lawful

\* Files are not damaged while a request is going to read them.
ReadingVerified ==
    \A r \in Requests : req[r] # None /\ req[r].at \in Reading => staged[Artifact(r)].files # "changed"

Inv == TypeOK /\ Control /\ ReadingVerified

-----------------------------------------------------------------------------
(* What a step of a request does to it and to its operation is one of six  *)
(* things: Begin, Project, Unlock, and these.                              *)

\* It goes on or is answered, and no operation changes.
Proceed(r) ==
    /\ UNCHANGED lifecycle
    /\ \/ ~Closing(r) /\ Answer(r)
       \/ /\ req[r].at \notin Guarded
          /\ \E s \in Steps \ Guarded : Fits(req[r].kind, s) /\ Goto(r, s)

\* Its operation is staged: the target may be changed from here on.
Stages(r) == Busy(r) /\ \E s \in Late : Staged(r, s)

\* Its operation ends.
Ends(r) ==
    /\ Busy(r) \/ At(r, "recover")
    /\ Open(Target(r)) /\ StoreFree
    /\ \E outcome \in Outcomes : End(r, outcome)

\* What a request names is a plan, and its target and artifact are among them.
LEMMA RequestType ==
    ASSUME RequestTypeOK, NEW r \in Requests, req[r] # None
    PROVE  /\ req[r] \in Activities
           /\ req[r].plan \in Plans /\ req[r].kind \in Kinds /\ req[r].at \in Steps
           /\ Target(r) \in Targets /\ Artifact(r) \in Artifacts
           /\ op[Target(r)] \in Operations \cup {None}
BY DEF RequestTypeOK, Activities, Target, Artifact, Targets, Artifacts

\* Going to another step.
LEMMA GotoRequest ==
    ASSUME RequestTypeOK, NEW r \in Requests, req[r] # None, NEW s \in Steps, Goto(r, s)
    PROVE  /\ req' \in [Requests -> Activities \cup {None}]
           /\ req'[r] # None /\ req'[r].at = s
           /\ req'[r].kind = req[r].kind /\ req'[r].plan = req[r].plan
           /\ \A q \in Requests \ {r} : req'[q] = req[q]
<1>1. req[r] \in Activities
  BY RequestType
<1>2. [req[r] EXCEPT !.at = s] \in Activities
  BY <1>1 DEF Activities
<1> QED
  BY <1>1, <1>2, SentinelAssumption DEF Goto, RequestTypeOK, Activities

\* Being answered.
LEMMA AnswerRequest ==
    ASSUME RequestTypeOK, NEW r \in Requests, Answer(r)
    PROVE  /\ req' \in [Requests -> Activities \cup {None}]
           /\ req'[r] = None
           /\ \A q \in Requests \ {r} : req'[q] = req[q]
BY DEF Answer, RequestTypeOK

\* The phase of an operation changes.
LEMMA PhaseOperation ==
    ASSUME RequestTypeOK, NEW t \in Targets, op[t] # None,
           NEW p \in {"prepared", "applying"} \cup Outcomes,
           op' = [op EXCEPT ![t].phase = p]
    PROVE  /\ op' \in [Targets -> Operations \cup {None}]
           /\ op'[t] # None /\ op'[t].phase = p /\ op'[t].kind = op[t].kind
           /\ \A u \in Targets \ {t} : op'[u] = op[u]
<1>1. op[t] \in Operations
  BY DEF RequestTypeOK
<1>2. [op[t] EXCEPT !.phase = p] \in Operations
  BY <1>1 DEF Operations
<1> QED
  BY <1>1, <1>2, SentinelAssumption DEF RequestTypeOK, Operations

-----------------------------------------------------------------------------
(* Every step of a request is one of the six.                             *)

\* A failure, before the operation is staged or after.
LEMMA ErrorMoves ==
    ASSUME Control, NEW r \in Requests, req[r] # None, req[r].at \notin Guarded,
           StoreFree, Error(r)
    PROVE  Proceed(r) \/ Ends(r)
<1>1. ~Closing(r)
  BY DEF Closing, Guarded
<1>2. CASE req[r].kind \notin Changes
  BY <1>1, <1>2 DEF Error, Proceed
<1>3. CASE req[r].kind \in Changes
  <2>1. Busy(r)
    BY <1>3, RequestType DEF Control, StepsFit, Fits, Guarded, Busy
  <2>2. Open(Target(r)) /\ Target(r) \in Targets
    BY <2>1, RequestType DEF Control, Owned
  <2> QED
    BY <1>1, <1>3, <2>1, <2>2 DEF Error, RecoverTarget, Outcomes, Proceed, Ends
<1> QED
  BY <1>2, <1>3

\* A request that is past its staging, or removes, has an open operation.
LEMMA BusyLate ==
    ASSUME Control, NEW r \in Requests, req[r] # None, req[r].at \in Late \cup {"remove"}
    PROVE  Busy(r) /\ Open(Target(r)) /\ req[r].at \notin Guarded
<1>1. req[r].kind \in Changes
  BY DEF Control, StepsFit, Fits
<1>2. Busy(r)
  BY <1>1 DEF Busy, Early
<1> QED
  BY <1>2 DEF Control, Owned, Guarded, Late, Reading

\* A request is handed its bundle: it goes on, or its operation is staged.
LEMMA HandedMoves ==
    ASSUME Control, NEW r \in Requests, req[r] # None, req[r].at \in {"compare", "extract"},
           Handed(r)
    PROVE  Proceed(r) \/ Stages(r)
<1>0. req[r].at \notin Guarded /\ ~Closing(r)
  BY DEF Guarded, Closing
<1>1. CASE req[r].kind = "stage"
  BY <1>0, <1>1 DEF Handed, Proceed
<1>2. CASE req[r].kind = "preflight"
  <2>1. "probe" \in Steps \ Guarded /\ Fits("preflight", "probe")
    BY DEF Steps, Guarded, Fits, Changes, Late, Reading
  <2> QED
    BY <1>0, <1>2, <2>1 DEF Handed, Proceed
<1>3. CASE req[r].kind \notin {"stage", "preflight"}
  <2>1. Staged(r, "identity")
    BY <1>3 DEF Handed
  <2>2. Busy(r)
    BY <1>3 DEF Control, StepsFit, Fits, Busy, Early
  <2> QED
    BY <2>1, <2>2 DEF Stages, Late, Reading
<1> QED
  BY <1>1, <1>2, <1>3

\* Going on within an operation, or outside of any.
LEMMA GoesOn ==
    ASSUME Control, NEW r \in Requests, req[r] # None, req[r].at \notin Guarded,
           NEW s \in Steps \ Guarded, Goto(r, s), UNCHANGED lifecycle,
           \/ Busy(r) /\ s \in Early \cup Late /\ s # "remove"
           \/ req[r].kind \notin Changes \cup {"recover"} /\ s \in {"unlink", "place", "record"}
    PROVE  Proceed(r)
<1>1. CASE Busy(r) /\ s \in Early \cup Late /\ s # "remove"
  <2>1. Fits(req[r].kind, s)
    BY <1>1 DEF Fits, Busy, Guarded, Early, Late, Reading, Changes
  <2> QED
    BY <2>1 DEF Proceed
<1>2. CASE req[r].kind \notin Changes \cup {"recover"} /\ s \in {"unlink", "place", "record"}
  <2>1. Fits(req[r].kind, s)
    BY <1>2 DEF Fits, Guarded, Early, Late, Reading, Changes
  <2> QED
    BY <2>1 DEF Proceed
<1> QED
  BY <1>1, <1>2

\* The steps at the cache move a request on, or end its operation.
LEMMA CacheMoves ==
    ASSUME Control, NEW r \in Requests, CacheStep(r)
    PROVE  Proceed(r) \/ Ends(r)
<1>1. CASE Lookup(r) \/ Unlink(r) \/ Place(r)
  <2>1. /\ req[r] # None /\ req[r].at \in {"lookup", "unlink", "place"}
        /\ UNCHANGED lifecycle
        /\ Answer(r) \/ \E s \in {"unlink", "place", "record"} : Goto(r, s)
    BY <1>1 DEF Lookup, Unlink, Place, At
  <2>2. req[r].at \notin Guarded /\ ~Closing(r)
    BY <2>1 DEF Guarded, Closing
  <2>3. req[r].kind \notin Changes \cup {"recover"}
    BY <2>1 DEF Control, StepsFit, Fits, Early, Late, Reading
  <2>4. {"unlink", "place", "record"} \subseteq Steps \ Guarded
    BY DEF Steps, Guarded
  <2>5. CASE Answer(r)
    BY <2>1, <2>2, <2>5 DEF Proceed
  <2>6. CASE \E s \in {"unlink", "place", "record"} : Goto(r, s)
    BY <2>1, <2>2, <2>3, <2>4, <2>6, GoesOn
  <2> QED
    BY <2>1, <2>5, <2>6
<1>2. CASE FindImage(r) \/ PurgeImage(r) \/ FetchImage(r) \/ LoadImage(r)
  <2>1. /\ req[r] # None /\ req[r].at \in Late
        /\ \/ UNCHANGED lifecycle /\ \E s \in Late : Goto(r, s)
           \/ StoreFree /\ Error(r)
    BY <1>2 DEF FindImage, PurgeImage, FetchImage, LoadImage, At, Late, Reading
  <2>2. Busy(r) /\ req[r].at \notin Guarded
    BY <2>1, BusyLate
  <2>3. Late \subseteq Steps \ Guarded /\ "remove" \notin Late
    BY DEF Late, Reading, Steps, Guarded
  <2>4. CASE UNCHANGED lifecycle /\ \E s \in Late : Goto(r, s)
    BY <2>1, <2>2, <2>3, <2>4, GoesOn
  <2> QED
    BY <2>1, <2>2, <2>4, ErrorMoves
<1> QED
  BY <1>1, <1>2 DEF CacheStep

\* So do those at the staging directories, which also stage an operation.
LEMMA StagerMoves ==
    ASSUME Control, NEW r \in Requests, StagerStep(r)
    PROVE  Proceed(r) \/ Stages(r) \/ Ends(r)
<1>1. CASE Stage(r) \/ Compare(r) \/ Extract(r)
  <2>1. /\ req[r] # None /\ req[r].at \in {"stage", "compare", "extract"} /\ StoreFree
        /\ \/ UNCHANGED lifecycle /\ \E s \in {"compare", "extract"} : Goto(r, s)
           \/ req[r].at \in {"compare", "extract"} /\ Handed(r)
           \/ Error(r)
    BY <1>1 DEF Stage, Compare, Extract, At
  <2>2. req[r].at \notin Guarded
    BY <2>1 DEF Guarded
  <2>3. CASE UNCHANGED lifecycle /\ \E s \in {"compare", "extract"} : Goto(r, s)
    <3>1. req[r].kind \in Changes \cup {"stage", "preflight"}
      BY <2>1 DEF Control, StepsFit, Fits
    <3>2. \A s \in {"compare", "extract"} :
              s \in Steps \ Guarded /\ Fits(req[r].kind, s)
      BY <3>1 DEF Fits, Steps, Guarded, Early, Late, Reading, Changes
    <3> QED
      BY <2>2, <2>3, <3>2 DEF Proceed
  <2> QED
    BY <2>1, <2>2, <2>3, HandedMoves, ErrorMoves
<1>2. CASE ReadIdentity(r) \/ ReadBundle(r)
  <2>1. /\ req[r] # None /\ req[r].at \in Late
        /\ \/ UNCHANGED lifecycle /\ \E s \in Late : Goto(r, s)
           \/ StoreFree /\ Error(r)
    BY <1>2 DEF ReadIdentity, ReadBundle, ReadFiles, At, Late, Reading
  <2>2. Busy(r) /\ req[r].at \notin Guarded
    BY <2>1, BusyLate
  <2>3. Late \subseteq Steps \ Guarded /\ "remove" \notin Late
    BY DEF Late, Reading, Steps, Guarded
  <2>4. CASE UNCHANGED lifecycle /\ \E s \in Late : Goto(r, s)
    BY <2>1, <2>2, <2>3, <2>4, GoesOn
  <2> QED
    BY <2>1, <2>2, <2>4, ErrorMoves
<1> QED
  BY <1>1, <1>2 DEF StagerStep

\* The operation's own steps.
LEMMA OperationMoves ==
    ASSUME Control, NEW r \in Requests, OperationStep(r)
    PROVE  Proceed(r) \/ Stages(r) \/ Ends(r) \/ Begin(r) \/ Project(r) \/ Unlock(r)
<1>1. CASE Remove(r)
  <2>1. req[r] # None /\ req[r].at \in Late \cup {"remove"} /\ Staged(r, "verify")
    BY <1>1 DEF Remove, At
  <2> QED
    BY <2>1, BusyLate DEF Stages, Late
<1>2. CASE Verify(r)
  <2>1. req[r] # None /\ req[r].at \in Late /\ StoreFree
    BY <1>2 DEF Verify, At, Late
  <2>2. Busy(r) /\ Open(Target(r)) /\ req[r].at \notin Guarded
    BY <2>1, BusyLate
  <2>3. CASE Error(r)
    BY <2>1, <2>2, <2>3, ErrorMoves
  <2>4. CASE ~Error(r)
    BY <1>2, <2>1, <2>2, <2>4 DEF Verify, Outcomes, Ends
  <2> QED
    BY <2>3, <2>4
<1>3. CASE Recover(r)
  <2>1. req[r] # None /\ At(r, "recover") /\ ~Closing(r) /\ StoreFree
    BY <1>3 DEF Recover, At, Closing
  <2>2. CASE Answer(r) /\ UNCHANGED lifecycle
    BY <2>1, <2>2 DEF Proceed
  <2>3. CASE ~(Answer(r) /\ UNCHANGED lifecycle)
    BY <1>3, <2>1, <2>3 DEF Recover, RecoverTarget, Outcomes, Ends, Open
  <2> QED
    BY <2>2, <2>3
<1> QED
  BY <1>1, <1>2, <1>3 DEF OperationStep

\* The rest of the handlers changes no operation.
LEMMA HandlerMoves ==
    ASSUME Control, NEW r \in Requests, HandlerStep(r), UNCHANGED lifecycle
    PROVE  Proceed(r)
<1>1. /\ req[r] # None /\ req[r].at \in {"record", "probe", "annotate", "remnant"}
      /\ Answer(r) \/ Goto(r, "annotate")
  BY DEF HandlerStep, RecordVerified, Probe, Annotate, CleanupTargetRemnant, At
<1>2. req[r].at \notin Guarded /\ ~Closing(r)
  BY <1>1 DEF Guarded, Closing
<1>3. req[r].kind \notin Changes \cup {"recover"}
  BY <1>1 DEF Control, StepsFit, Fits, Early, Late, Reading
<1>4. "annotate" \in Steps \ Guarded /\ Fits(req[r].kind, "annotate")
  BY <1>3 DEF Steps, Guarded, Fits, Late, Reading, Changes
<1> QED
  BY <1>1, <1>2, <1>4 DEF Proceed

\* Every step of a request is one of the six.
LEMMA StepMoves ==
    ASSUME Control, NEW r \in Requests, RequestStep(r)
    PROVE  Proceed(r) \/ Stages(r) \/ Ends(r) \/ Begin(r) \/ Project(r) \/ Unlock(r)
BY HandlerMoves, OperationMoves, CacheMoves, StagerMoves DEF RequestStep

-----------------------------------------------------------------------------
(* Each of them keeps the control part of the invariant.                   *)

\* Going on or being answered.
LEMMA ProceedControl ==
    ASSUME Control, NEW r \in Requests, req[r] # None, Proceed(r)
    PROVE  Control'
<1>1. op' = op /\ installed' = installed
  BY DEF Proceed, lifecycle
<1>2. CASE Answer(r) /\ ~Closing(r)
  <2>1. /\ req' \in [Requests -> Activities \cup {None}]
        /\ req'[r] = None
        /\ \A q \in Requests \ {r} : req'[q] = req[q]
    BY <1>2, AnswerRequest DEF Control
  <2>2. RequestTypeOK' /\ Lawful' /\ StepsFit'
    BY <1>1, <2>1 DEF Control, RequestTypeOK, Lawful, Open, StepsFit, Fits
  <2>3. Owned' /\ OneOwner' /\ RecoverAlone'
    BY <1>1, <2>1 DEF Control, Owned, OneOwner, RecoverAlone, Busy, Open, Target
  <2>4. Finalizing' /\ OneCloses'
    BY <1>1, <2>1 DEF Control, Finalizing, OneCloses, Closing, Ended, Target
  <2> QED
    BY <2>2, <2>3, <2>4 DEF Control
<1>3. CASE ~(Answer(r) /\ ~Closing(r))
  <2>1. PICK s \in Steps \ Guarded : Fits(req[r].kind, s) /\ Goto(r, s)
    BY <1>3 DEF Proceed
  <2>2. /\ req' \in [Requests -> Activities \cup {None}]
        /\ req'[r] # None /\ req'[r].at = s
        /\ req'[r].kind = req[r].kind /\ req'[r].plan = req[r].plan
        /\ \A q \in Requests \ {r} : req'[q] = req[q]
    BY <2>1, GotoRequest DEF Control
  <2>3. /\ s \notin {"begin", "recover", "project", "unlock"}
        /\ req[r].at \notin {"begin", "recover", "project", "unlock"}
    BY <1>3, <2>1 DEF Proceed, Guarded
  <2>4. RequestTypeOK' /\ Lawful' /\ StepsFit'
    BY <1>1, <2>1, <2>2 DEF Control, RequestTypeOK, Lawful, Open, StepsFit, Fits
  <2>5. Busy(r)' => Busy(r)
    BY <2>2, <2>3 DEF Control, StepsFit, Fits, Busy
  <2>6. Owned' /\ OneOwner' /\ RecoverAlone'
    BY <1>1, <2>2, <2>5 DEF Control, Owned, OneOwner, RecoverAlone, Busy, Open, Target
  <2>7. Finalizing' /\ OneCloses'
    BY <1>1, <2>2, <2>3 DEF Control, Finalizing, OneCloses, Closing, Ended, Target
  <2> QED
    BY <2>4, <2>6, <2>7 DEF Control
<1> QED
  BY <1>2, <1>3

\* Being staged: the operation stays open and stays its owner's.
LEMMA StagesControl ==
    ASSUME Control, NEW r \in Requests, Stages(r)
    PROVE  Control'
<1>1. PICK s \in Late : Staged(r, s)
  BY DEF Stages
<1>2. Busy(r) /\ Open(Target(r)) /\ req[r] # None /\ Target(r) \in Targets
  BY RequestType DEF Stages, Control, Owned, Busy
<1>3. s \in Steps /\ s \notin {"begin", "recover", "project", "unlock"}
  BY DEF Late, Reading, Steps
<1>4. /\ req' \in [Requests -> Activities \cup {None}]
      /\ req'[r] # None /\ req'[r].at = s
      /\ req'[r].kind = req[r].kind /\ req'[r].plan = req[r].plan
      /\ \A q \in Requests \ {r} : req'[q] = req[q]
  BY <1>1, <1>2, <1>3, GotoRequest DEF Control, Staged
<1>5. /\ op' \in [Targets -> Operations \cup {None}]
      /\ op'[Target(r)] # None /\ op'[Target(r)].phase = "applying"
      /\ op'[Target(r)].kind = op[Target(r)].kind
      /\ \A u \in Targets \ {Target(r)} : op'[u] = op[u]
      /\ installed' = installed
  BY <1>1, <1>2, PhaseOperation DEF Control, Staged, Open
<1>6. RequestTypeOK' /\ StepsFit'
  <2>1. Fits(req[r].kind, s)
    BY <1>2, <1>3 DEF Busy, Fits, Changes, Late, Reading
  <2> QED
    BY <1>4, <1>5, <2>1 DEF Control, RequestTypeOK, StepsFit, Fits
<1>7. \A t \in Targets : Open(t)' <=> Open(t)
  BY <1>2, <1>5 DEF Open, Outcomes
<1>8. Lawful'
  BY <1>2, <1>5, <1>7 DEF Control, Lawful, Open
<1>9. \A q \in Requests : (Busy(q)' <=> Busy(q)) /\ (req[q] # None => Target(q)' = Target(q) /\ Target(q) \in Targets)
  BY <1>2, <1>4, RequestType DEF Control, Busy, Target
<1>10. Owned' /\ OneOwner'
  BY <1>7, <1>9 DEF Control, Owned, OneOwner, Busy
<1>11. RecoverAlone'
  BY <1>2, <1>4 DEF Control, RecoverAlone, Target
<1>12. Finalizing' /\ OneCloses'
  <2>1. \A q \in Requests : Closing(q)' => q # r /\ Closing(q) /\ Target(q)' = Target(q) /\ Target(q) \in Targets
    BY <1>3, <1>4, RequestType DEF Control, Closing, Target
  <2>2. \A q \in Requests : Closing(q) => Target(q) # Target(r)
    BY <1>2 DEF Control, Finalizing, Open, Ended
  <2> QED
    BY <1>5, <2>1, <2>2 DEF Control, Finalizing, OneCloses, Ended
<1> QED
  BY <1>6, <1>8, <1>10, <1>11, <1>12 DEF Control

\* Ending: whoever ends an operation is the only one to have it open.
LEMMA EndsControl ==
    ASSUME Control, NEW r \in Requests, Ends(r)
    PROVE  Control'
<1>0. PICK outcome \in Outcomes : End(r, outcome)
  BY DEF Ends
<1>1. /\ req[r] # None /\ ~Closing(r) /\ req[r].kind \in Changes \cup {"recover"}
      /\ Open(Target(r)) /\ StoreFree
  BY DEF Ends, Busy, At, Closing, Control, StepsFit, Fits, Early, Late, Reading
<1>2. Target(r) \in Targets /\ "project" \in Steps
  BY <1>1, RequestType DEF Control, Steps
<1>3. /\ req' \in [Requests -> Activities \cup {None}]
      /\ req'[r] # None /\ req'[r].at = "project"
      /\ req'[r].kind = req[r].kind /\ req'[r].plan = req[r].plan
      /\ \A q \in Requests \ {r} : req'[q] = req[q]
  BY <1>0, <1>1, <1>2, GotoRequest DEF Control, End
<1>4. /\ op' \in [Targets -> Operations \cup {None}]
      /\ op'[Target(r)] # None /\ op'[Target(r)].phase \in Outcomes
      /\ \A u \in Targets \ {Target(r)} : op'[u] = op[u]
  <2>1. RequestTypeOK /\ op[Target(r)] # None
    BY <1>1 DEF Control, Open
  <2>2. op' = [op EXCEPT ![Target(r)].phase = outcome]
    BY <1>0 DEF End
  <2> QED
    BY <1>2, <2>1, <2>2, PhaseOperation
<1>5. installed' = installed
  BY <1>0 DEF End
<1>6. RequestTypeOK' /\ StepsFit'
  <2>1. Fits(req[r].kind, "project")
    BY <1>1 DEF Fits, Late, Reading, Changes
  <2> QED
    BY <1>3, <1>4, <1>5, <2>1 DEF Control, RequestTypeOK, StepsFit, Fits
<1>7. \A t \in Targets : Open(t)' => t # Target(r) /\ Open(t) /\ op'[t] = op[t]
  BY <1>2, <1>4 DEF Open
<1>8. Lawful'
  BY <1>5, <1>7 DEF Control, Lawful
<1>9. \A q \in Requests :
          Busy(q)' => q # r /\ Busy(q) /\ Target(q)' = Target(q) /\ Target(q) \in Targets
  BY <1>3, RequestType DEF Control, Busy, Target, Early, Late, Reading
<1>10. \A q \in Requests \ {r} : Busy(q) => Target(q) # Target(r)
  <2>1. CASE Busy(r)
    BY <2>1 DEF Control, OneOwner
  <2>2. CASE At(r, "recover")
    <3>1. req[r].kind = "recover"
      BY <2>2 DEF At, Control, StepsFit, Fits
    <3> QED
      BY <1>1, <3>1 DEF Control, RecoverAlone, Busy
  <2> QED
    BY <2>1, <2>2 DEF Ends
<1>11. Owned' /\ OneOwner'
  <2>1. \A q \in Requests : Busy(q)' => op'[Target(q)] = op[Target(q)]
    BY <1>4, <1>9, <1>10
  <2> QED
    BY <1>9, <2>1 DEF Control, Owned, OneOwner, Open
<1>12. RecoverAlone'
  BY <1>1, <1>3 DEF Control, RecoverAlone, Target
<1>13. Finalizing' /\ OneCloses'
  <2>1. \A q \in Requests : Closing(q)' => q = r /\ Target(q)' = Target(r)
    BY <1>1, <1>3 DEF StoreFree, At, Closing, Target
  <2> QED
    BY <1>4, <2>1 DEF Finalizing, OneCloses, Ended
<1> QED
  BY <1>6, <1>8, <1>11, <1>12, <1>13 DEF Control

\* Projecting a journal changes the record of its own deployment only.
LEMMA RecordedOne ==
    ASSUME RequestTypeOK, NEW t \in Targets
    PROVE  /\ Recorded(t) \subseteq Targets
           /\ \A u \in Targets \ {t} : u \in Recorded(t) <=> u \in installed
BY DEF Recorded, RequestTypeOK

\* Beginning: the lock is free, and what is asked for fits the record.
LEMMA BeginControl ==
    ASSUME Control, NEW r \in Requests, Begin(r)
    PROVE  Control'
<1> DEFINE t == Target(r)
           recorded == IF Ended(t) THEN Recorded(t) ELSE installed
           allowed == req[r].kind = "install" <=> t \notin recorded
           o == [kind |-> req[r].kind, phase |-> "prepared"]
           s == IF req[r].kind = "uninstall" THEN "remove" ELSE "stage"
<1>1. req[r] # None /\ req[r].at = "begin" /\ StoreFree /\ ~Closing(r)
  BY DEF Begin, At, Closing
<1>2. req[r].kind \in Changes
  BY <1>1 DEF Control, StepsFit, Fits
<1>3. t \in Targets /\ RequestTypeOK
  BY <1>1, RequestType DEF Control
<1>4. \A q \in Requests : ~Closing(q)
  BY <1>1 DEF StoreFree, At, Closing
<1>5. CASE Answer(r) /\ UNCHANGED lifecycle
  BY <1>1, <1>5, ProceedControl DEF Proceed
<1>6. CASE ~(Answer(r) /\ UNCHANGED lifecycle)
  <2>1. /\ op[t] = None \/ Ended(t)
        /\ installed' = recorded
        /\ \/ Answer(r) /\ op' \in {op, [op EXCEPT ![t] = None]}
           \/ allowed /\ op' = [op EXCEPT ![t] = o] /\ Goto(r, s)
    BY <1>6 DEF Begin
  <2>2. /\ installed' \subseteq Targets
        /\ \A u \in Targets \ {t} : u \in installed' <=> u \in installed
    BY <1>3, <2>1, RecordedOne DEF RequestTypeOK
  <2>3. ~Open(t)
    BY <2>1 DEF Open, Ended
  <2>4. ASSUME Answer(r), op' \in {op, [op EXCEPT ![t] = None]}
        PROVE  Control'
    <3>1. /\ req' \in [Requests -> Activities \cup {None}]
          /\ req'[r] = None
          /\ \A q \in Requests \ {r} : req'[q] = req[q]
      BY <1>3, <2>4, AnswerRequest
    <3>2. /\ op' \in [Targets -> Operations \cup {None}]
          /\ \A u \in Targets : op'[u] = op[u] \/ (u = t /\ op'[u] = None)
      BY <1>3, <2>4 DEF RequestTypeOK
    <3>3. RequestTypeOK' /\ StepsFit'
      BY <2>2, <3>1, <3>2 DEF Control, RequestTypeOK, StepsFit, Fits
    <3>4. \A u \in Targets : Open(u)' => u # t /\ Open(u) /\ op'[u] = op[u]
      BY <2>3, <3>2 DEF Open
    <3>5. Lawful'
      BY <2>2, <3>4 DEF Control, Lawful
    <3>6. \A q \in Requests : Busy(q)' => Busy(q) /\ Target(q)' = Target(q) /\ Target(q) \in Targets
      BY <3>1, RequestType DEF Control, Busy, Target
    <3>7. \A u \in Targets : Open(u) => Open(u)'
      BY <2>3, <3>2 DEF Open
    <3>8. Owned' /\ OneOwner'
      BY <3>6, <3>7 DEF Control, Owned, OneOwner
    <3>9. RecoverAlone'
      BY <3>1 DEF Control, RecoverAlone, Target
    <3>10. Finalizing' /\ OneCloses'
      BY <1>4, <3>1 DEF Finalizing, OneCloses, Closing
    <3> QED
      BY <3>3, <3>5, <3>8, <3>9, <3>10 DEF Control
  <2>5. ASSUME allowed, op' = [op EXCEPT ![t] = o], Goto(r, s)
        PROVE  Control'
    <3>1. o \in Operations
      BY <1>2 DEF Operations
    <3>2. o # None /\ s \in Steps /\ s \in Early
      BY <3>1, SentinelAssumption DEF Steps, Early
    <3> HIDE DEF s
    <3>3. /\ req' \in [Requests -> Activities \cup {None}]
          /\ req'[r] # None /\ req'[r].at = s
          /\ req'[r].kind = req[r].kind /\ req'[r].plan = req[r].plan
          /\ \A q \in Requests \ {r} : req'[q] = req[q]
      BY <1>1, <1>3, <2>5, <3>2, GotoRequest
    <3>4. /\ op' \in [Targets -> Operations \cup {None}]
          /\ op'[t] = o /\ \A u \in Targets \ {t} : op'[u] = op[u]
      BY <1>3, <2>5, <3>1 DEF RequestTypeOK
    <3>5. RequestTypeOK' /\ StepsFit'
      <4>1. Fits(req[r].kind, s)
        BY <1>2, <3>2 DEF Fits, Early, Late, Reading, Changes
      <4> QED
        BY <2>2, <3>3, <3>4, <4>1 DEF Control, RequestTypeOK, StepsFit, Fits
    <3>6. Lawful'
      <4>1. op'[t].kind = "install" <=> t \notin installed'
        BY <2>1, <2>5, <3>4
      <4>2. \A u \in Targets \ {t} : Open(u)' => Open(u) /\ op'[u] = op[u]
        BY <3>4 DEF Open
      <4> QED
        BY <2>2, <4>1, <4>2 DEF Control, Lawful
    <3>7. \A q \in Requests : req[q] # None => Target(q)' = Target(q) /\ Target(q) \in Targets
      BY <3>3, RequestType DEF Control, Target
    <3>8. \A q \in Requests \ {r} : (Busy(q)' => Busy(q) /\ req[q] # None) /\ (Busy(q) => Target(q) # t)
      BY <2>3, <3>3 DEF Control, Owned, Busy
    <3>9. Owned'
      <4>1. op'[t] # None /\ op'[t].phase \notin Outcomes
        BY <3>2, <3>4 DEF Outcomes
      <4>2. \A u \in Targets \ {t} : Open(u) => Open(u)'
        BY <3>4 DEF Open
      <4> QED
        BY <1>1, <3>7, <3>8, <4>1, <4>2 DEF Control, Owned, Open
    <3>10. OneOwner'
      BY <1>1, <3>7, <3>8 DEF Control, OneOwner
    <3>11. RecoverAlone'
      BY <1>1, <3>3 DEF Control, RecoverAlone, Target
    <3>12. Finalizing' /\ OneCloses'
      <4>1. \A q \in Requests : ~Closing(q)'
        BY <1>4, <3>2, <3>3 DEF Closing, Early
      <4> QED
        BY <4>1 DEF Finalizing, OneCloses
    <3> QED
      BY <3>5, <3>6, <3>9, <3>10, <3>11, <3>12 DEF Control
  <2> QED
    BY <2>1, <2>4, <2>5
<1> QED
  BY <1>5, <1>6

\* What is common to recording an operation and removing its lock: nobody else
\* does either, and the operation is not open before or after.
LEMMA ClosingControl ==
    ASSUME Control, NEW r \in Requests, Closing(r),
           \/ Answer(r)
           \/ Goto(r, "unlock") /\ op' = op,
           op' \in {op, [op EXCEPT ![Target(r)] = None]},
           installed' \in {installed, Recorded(Target(r))}
    PROVE  Control'
<1>1. req[r] # None /\ req[r].kind \in Changes \cup {"recover"} /\ ~Busy(r)
  BY DEF Closing, Control, StepsFit, Fits, Busy, Early, Late, Reading
<1>2. Target(r) \in Targets /\ Ended(Target(r)) /\ ~Open(Target(r)) /\ RequestTypeOK
  BY <1>1, RequestType DEF Control, Finalizing, Open, Ended
<1>3. /\ installed' \subseteq Targets
      /\ \A u \in Targets \ {Target(r)} : u \in installed' <=> u \in installed
  BY <1>2, RecordedOne DEF RequestTypeOK
<1>4. /\ op' \in [Targets -> Operations \cup {None}]
      /\ \A u \in Targets : op'[u] = op[u] \/ (u = Target(r) /\ op'[u] = None)
  BY <1>2 DEF RequestTypeOK
<1>5. \A u \in Targets : Open(u)' => u # Target(r) /\ Open(u) /\ op'[u] = op[u]
  BY <1>2, <1>4 DEF Open
<1>6. \A u \in Targets : Open(u) => Open(u)'
  BY <1>2, <1>4 DEF Open
<1>7. Lawful'
  BY <1>3, <1>5 DEF Control, Lawful
<1>8. /\ req' \in [Requests -> Activities \cup {None}]
      /\ \A q \in Requests \ {r} : req'[q] = req[q]
      /\ \/ req'[r] = None
         \/ /\ req'[r] # None /\ req'[r].at = "unlock" /\ op' = op
            /\ req'[r].kind = req[r].kind /\ req'[r].plan = req[r].plan
  <2>1. CASE Answer(r)
    BY <1>2, <2>1, AnswerRequest
  <2>2. CASE Goto(r, "unlock") /\ op' = op
    <3>1. "unlock" \in Steps
      BY DEF Steps
    <3> QED
      BY <1>1, <1>2, <2>2, <3>1, GotoRequest
  <2> QED
    BY <2>1, <2>2
<1>9. RequestTypeOK' /\ StepsFit'
  <2>1. Fits(req[r].kind, "unlock")
    BY <1>1 DEF Fits, Late, Reading, Changes
  <2> QED
    BY <1>3, <1>4, <1>8, <2>1 DEF Control, RequestTypeOK, StepsFit, Fits
<1>10. \A q \in Requests : Busy(q)' => Busy(q) /\ Target(q)' = Target(q) /\ Target(q) \in Targets
  BY <1>8, RequestType DEF Control, Busy, Target, Early, Late, Reading
<1>11. Owned' /\ OneOwner'
  BY <1>6, <1>10 DEF Control, Owned, OneOwner
<1>12. RecoverAlone'
  BY <1>1, <1>8 DEF Control, RecoverAlone, Target
<1>13. Finalizing' /\ OneCloses'
  <2>1. \A q \in Requests \ {r} : ~Closing(q)
    BY DEF Control, OneCloses
  <2>2. \A q \in Requests : Closing(q)' => q = r /\ op' = op /\ Target(q)' = Target(r)
    BY <1>8, <2>1 DEF Closing, Target
  <2> QED
    BY <1>2, <2>2 DEF Finalizing, OneCloses, Ended
<1> QED
  BY <1>7, <1>9, <1>11, <1>12, <1>13 DEF Control

\* Recording the operation that has ended.
LEMMA ProjectControl ==
    ASSUME Control, NEW r \in Requests, Project(r)
    PROVE  Control'
BY ClosingControl DEF Project, At, Closing

\* Removing its lock.
LEMMA UnlockControl ==
    ASSUME Control, NEW r \in Requests, Unlock(r)
    PROVE  Control'
BY ClosingControl DEF Unlock, At, Closing

\* Only a request that is being answered takes a step.
LEMMA StepActive ==
    ASSUME NEW r \in Requests, RequestStep(r)
    PROVE  req[r] # None
BY DEF RequestStep, HandlerStep, RecordVerified, Probe, Annotate, CleanupTargetRemnant,
       OperationStep, Begin, Remove, Verify, Recover, Project, Unlock,
       CacheStep, Lookup, Unlink, Place, FindImage, PurgeImage, FetchImage, LoadImage,
       StagerStep, Stage, Compare, Extract, ReadIdentity, ReadBundle, At

\* So every step of a request keeps it,
LEMMA StepControl ==
    ASSUME Control, NEW r \in Requests, RequestStep(r)
    PROVE  Control'
BY StepActive, StepMoves, ProceedControl, StagesControl, EndsControl, BeginControl,
   ProjectControl, UnlockControl

\* What a request that is accepted starts with.
Accepted(r, k, p, s) ==
    /\ req[r] = None
    /\ req' = [req EXCEPT ![r] = [kind |-> k, plan |-> p, at |-> s]]
    /\ Fits(k, s) /\ s \notin {"project", "unlock"} \cup Reading
    /\ k \in Changes => s = "begin" /\ ~Answering(p.target, {"recover"})
    /\ k = "recover" => ~Answering(p.target, Changes)

\* Every request the handlers accept is such a one.
LEMMA RequestAccepted ==
    ASSUME NEW r \in Requests, NEW p \in Plans, Request(r, p)
    PROVE  \E k \in Kinds, s \in Steps : Accepted(r, k, p, s)
<1>1. ASSUME NEW k, NEW s, Ask(r, k, p, s)
      PROVE  /\ k \in Kinds /\ req[r] = None
             /\ req' = [req EXCEPT ![r] = [kind |-> k, plan |-> p, at |-> s]]
  BY <1>1, RequestsAssumption DEF Ask
<1>2. /\ {"lookup", "stage", "probe", "remnant", "begin", "recover"} \subseteq Steps
      /\ Changes = {"install", "change", "uninstall"}
      /\ Early = {"stage", "compare", "extract", "remove"}
  BY DEF Steps, Changes, Early
<1>3. CASE \/ Ask(r, "verify", p, "lookup")
           \/ Ask(r, "stage", p, "stage")
           \/ Ask(r, "preflight", p, "stage")
           \/ Ask(r, "prerequisites", p, "probe")
           \/ Ask(r, "cleanup", p, "remnant")
  BY <1>1, <1>2, <1>3 DEF Accepted, Fits, Late, Reading
<1>4. CASE \/ p \in ready /\ Operate(r, "install", p)
           \/ p \in ready /\ Operate(r, "change", p)
           \/ p.target \in installed /\ Operate(r, "uninstall", p)
  BY <1>1, <1>2, <1>4 DEF Operate, Accepted, Fits, Late, Reading
<1>5. CASE /\ ~Answering(p.target, Changes \cup {"recover"})
           /\ Ask(r, "recover", p, "recover")
  <2>1. ~Answering(p.target, Changes)
    BY <1>5 DEF Answering
  <2> QED
    BY <1>1, <1>2, <1>5, <2>1 DEF Accepted, Fits, Late, Reading
<1> QED
  BY <1>3, <1>4, <1>5 DEF Request, VerifyRelease, StageBundle, PreflightTarget,
    InstallTargetPrerequisites, InspectRemnant, RunOperation, UninstallInstallation,
    RecoverActiveOperation

\* Accepting a request keeps it too, since none is accepted beside a recovery.
LEMMA AcceptedControl ==
    ASSUME Control, UNCHANGED lifecycle,
           NEW r \in Requests, NEW k \in Kinds, NEW p \in Plans, NEW s \in Steps,
           Accepted(r, k, p, s)
    PROVE  /\ Control'
           /\ req'[r] = [kind |-> k, plan |-> p, at |-> s]
           /\ req'[r] # None
           /\ \A q \in Requests \ {r} : req'[q] = req[q]
<1> DEFINE a == [kind |-> k, plan |-> p, at |-> s]
<1>1. a \in Activities /\ a # None
  BY SentinelAssumption DEF Activities
<1>2. /\ req' \in [Requests -> Activities \cup {None}]
      /\ req'[r] = a /\ \A q \in Requests \ {r} : req'[q] = req[q]
  BY <1>1 DEF Accepted, Control, RequestTypeOK
<1>3. op' = op /\ installed' = installed
  BY DEF lifecycle
<1>4. req[r] = None /\ Fits(k, s) /\ s \notin {"project", "unlock"}
  BY DEF Accepted
<1>5. k \in Changes => s \notin Early \cup Late
  BY DEF Accepted, Early, Late, Reading
<1>6. RequestTypeOK' /\ Lawful' /\ StepsFit'
  BY <1>2, <1>3, <1>4 DEF Control, RequestTypeOK, Lawful, Open, StepsFit, Fits
<1>7. Owned' /\ OneOwner'
  <2>1. \A q \in Requests : Busy(q)' => q # r /\ Busy(q) /\ Target(q)' = Target(q)
    BY <1>2, <1>5 DEF Busy, Target
  <2> QED
    BY <1>3, <2>1 DEF Control, Owned, OneOwner, Open
<1>8. RecoverAlone'
  <2>1. k \in Changes => \A q \in Requests :
            req[q] # None /\ req[q].kind = "recover" => Target(q) # p.target
    BY DEF Accepted, Answering
  <2>2. k = "recover" => \A q \in Requests :
            req[q] # None /\ req[q].kind \in Changes => Target(q) # p.target
    BY DEF Accepted, Answering
  <2>3. "recover" \notin Changes
    BY DEF Changes
  <2>4. \A q \in Requests \ {r} : Target(q)' = Target(q)
    BY <1>2 DEF Target
  <2>5. Target(r)' = p.target /\ req'[r].kind = k
    BY <1>2 DEF Target
  <2>6. SUFFICES ASSUME NEW q \in Requests, NEW u \in Requests,
                        req'[q] # None, req'[q].kind = "recover",
                        req'[u] # None, req'[u].kind \in Changes
                 PROVE  Target(q)' # Target(u)'
    BY DEF RecoverAlone
  <2>7. CASE q = r
    BY <1>2, <2>2, <2>3, <2>4, <2>5, <2>6, <2>7
  <2>8. CASE u = r
    BY <1>2, <2>1, <2>3, <2>4, <2>5, <2>6, <2>8
  <2>9. CASE q # r /\ u # r
    BY <1>2, <2>4, <2>6, <2>9 DEF Control, RecoverAlone
  <2> QED
    BY <2>7, <2>8, <2>9
<1>9. Finalizing' /\ OneCloses'
  <2>1. \A q \in Requests : Closing(q)' => Closing(q) /\ Target(q)' = Target(q)
    BY <1>2, <1>4 DEF Closing, Target
  <2> QED
    BY <1>3, <2>1 DEF Control, Finalizing, OneCloses, Ended
<1> QED
  BY <1>1, <1>2, <1>6, <1>7, <1>8, <1>9 DEF Control

\* And so does starting again: nobody is left to own anything.
LEMMA RestartControl ==
    ASSUME Control, Restart
    PROVE  Control'
<1>1. \A r \in Requests : req'[r] = None
  BY DEF Restart
<1>2. op' = op /\ installed' = installed
  BY DEF Restart, lifecycle
<1>3. RequestTypeOK' /\ Lawful' /\ StepsFit'
  BY <1>1, <1>2 DEF Restart, Control, RequestTypeOK, Lawful, Open, StepsFit
<1>4. Owned' /\ OneOwner' /\ RecoverAlone'
  BY <1>1 DEF Owned, OneOwner, RecoverAlone, Busy
<1>5. Finalizing' /\ OneCloses'
  BY <1>1 DEF Finalizing, OneCloses, Closing
<1> QED
  BY <1>3, <1>4, <1>5 DEF Control

-----------------------------------------------------------------------------
(* What a step of a request does to the requests, and to what a session    *)
(* remembers.                                                              *)

\* The request keeps its kind and plan.
Onward(r) ==
    /\ \A q \in Requests \ {r} : req'[q] = req[q]
    /\ req'[r] # None => req'[r].kind = req[r].kind /\ req'[r].plan = req[r].plan

\* Each of the six does.
LEMMA StepOnward ==
    ASSUME Control, NEW r \in Requests, req[r] # None,
           Proceed(r) \/ Stages(r) \/ Ends(r) \/ Begin(r) \/ Project(r) \/ Unlock(r)
    PROVE  Onward(r)
<1>1. CASE Answer(r)
  BY <1>1, AnswerRequest DEF Control, Onward
<1>2. ASSUME NEW s \in Steps, Goto(r, s)
      PROVE  Onward(r)
  BY <1>2, GotoRequest DEF Control, Onward
<1>3. CASE Proceed(r)
  BY <1>1, <1>2, <1>3 DEF Proceed
<1>4. CASE Stages(r)
  <2>1. Late \subseteq Steps
    BY DEF Late, Reading, Steps
  <2> QED
    BY <1>2, <1>4, <2>1 DEF Stages, Staged
<1>5. {"project", "unlock", "remove", "stage"} \subseteq Steps
  BY DEF Steps
<1> QED
  BY <1>1, <1>2, <1>3, <1>4, <1>5 DEF Ends, End, Begin, Project, Unlock

\* What is remembered stays in its types.
LEMMA SessionStep ==
    ASSUME TypeOK, NEW r \in Requests, RequestStep(r), Control
    PROVE  verified' \in [Targets -> Artifacts \cup {None}] /\ ready' \subseteq Plans
<1>1. req[r] # None /\ req[r].plan \in Plans /\ Target(r) \in Targets /\ Artifact(r) \in Artifacts
  BY StepActive, RequestType DEF Control
<1>2. CASE HandlerStep(r)
  BY <1>1, <1>2 DEF TypeOK, HandlerStep, RecordVerified, Probe, Annotate, CleanupTargetRemnant, session
<1>3. CASE UNCHANGED session
  BY <1>3 DEF TypeOK, session
<1> QED
  BY <1>2, <1>3 DEF RequestStep

-----------------------------------------------------------------------------
(* The cache and the staging directories.                                  *)

\* A failure ends the request, or its operation.
LEMMA ErrorRequest ==
    ASSUME NEW r \in Requests, Error(r)
    PROVE  Answer(r) \/ Goto(r, "project")
BY DEF Error, RecoverTarget, End

\* Requests other than r are where they were.
LEMMA StagerKept ==
    ASSUME StageTypeOK, UNCHANGED stages, NEW r \in Requests,
           ~(At(r, "compare") \/ At(r, "extract")),
           \A q \in Requests \ {r} : req'[q] = req[q]
    PROVE  StageTypeOK'
BY DEF StageTypeOK, stages, At

\* The files of a directory, after a step that stages.
FilesKept(r) ==
    /\ \A a \in Artifacts : staged'[a].files = "changed" => staged[a].files = "changed"
    /\ req'[r] # None /\ req'[r].at \in Reading =>
          req[r].at \in Reading \/ staged'[Artifact(r)].files = "whole"

\* The cache keeps its types.
LEMMA CacheTypeStep ==
    ASSUME CacheTypeOK, NEW r \in Requests, RequestStep(r), Artifact(r) \in Artifacts
    PROVE  CacheTypeOK'
<1>1. CASE UNCHANGED cache
  BY <1>1 DEF CacheTypeOK, cache
<1>2. CASE CacheStep(r)
  BY <1>2 DEF CacheTypeOK, cache, Contents, CacheStep, Lookup, Unlink, Place,
              FindImage, PurgeImage, FetchImage, LoadImage
<1>3. CASE StagerStep(r)
  BY <1>1, <1>3 DEF StagerStep, Stage, Compare, Extract, ReadIdentity, ReadBundle, ReadFiles
<1> QED
  BY <1>1, <1>2, <1>3 DEF RequestStep

\* A step that does not stage.
LEMMA ElsewhereStep ==
    ASSUME Control, StageTypeOK, NEW r \in Requests, RequestStep(r), UNCHANGED stages,
           \/ HandlerStep(r) \/ OperationStep(r) \/ CacheStep(r)
           \/ ReadIdentity(r) \/ ReadBundle(r)
    PROVE  StageTypeOK' /\ FilesKept(r)
<1>1. req[r] # None /\ Onward(r) /\ RequestTypeOK
  BY StepActive, StepMoves, StepOnward DEF Control
<1>2. ~(At(r, "compare") \/ At(r, "extract"))
  BY DEF HandlerStep, RecordVerified, Probe, Annotate, CleanupTargetRemnant,
         OperationStep, Begin, Remove, Verify, Recover, Project, Unlock,
         CacheStep, Lookup, Unlink, Place, FindImage, PurgeImage, FetchImage, LoadImage,
         ReadIdentity, ReadBundle, At
<1>3. StageTypeOK'
  BY <1>1, <1>2, StagerKept DEF Onward
<1>4. ASSUME NEW s \in Steps \ Reading, Goto(r, s)
      PROVE  req'[r].at \notin Reading
  BY <1>1, <1>4, GotoRequest
<1>5. {"place", "record", "annotate", "project", "unlock", "stage", "remove", "verify", "unlink"} \subseteq Steps \ Reading
  BY DEF Steps, Reading
<1>6. \/ req[r].at \in Reading
      \/ Answer(r)
      \/ \E s \in Steps \ Reading : Goto(r, s)
  <2>1. CASE HandlerStep(r)
    BY <1>5, <2>1 DEF HandlerStep, RecordVerified, Probe, Annotate, CleanupTargetRemnant
  <2>2. CASE OperationStep(r)
    BY <1>5, <2>2, ErrorRequest DEF OperationStep, Begin, Remove, Verify, Recover, Project, Unlock,
       RecoverTarget, Staged, End
  <2>3. CASE Lookup(r) \/ Unlink(r) \/ Place(r)
    BY <1>5, <2>3 DEF Lookup, Unlink, Place
  <2>4. CASE \/ FindImage(r) \/ PurgeImage(r) \/ FetchImage(r) \/ LoadImage(r)
             \/ ReadIdentity(r) \/ ReadBundle(r)
    BY <2>4 DEF FindImage, PurgeImage, FetchImage, LoadImage, ReadIdentity, ReadBundle, At, Reading
  <2> QED
    BY <2>1, <2>2, <2>3, <2>4 DEF CacheStep
<1>7. req'[r] # None /\ req'[r].at \in Reading => req[r].at \in Reading
  BY <1>1, <1>4, <1>6, AnswerRequest
<1> QED
  BY <1>3, <1>7 DEF FilesKept, stages

\* A step that stages: what it leaves is what the archive holds, or unfinished.
LEMMA StagingStep ==
    ASSUME Control, StageTypeOK, NEW r \in Requests, RequestStep(r),
           Stage(r) \/ Compare(r) \/ Extract(r)
    PROVE  StageTypeOK' /\ FilesKept(r)
<1>1. req[r] # None /\ Onward(r) /\ RequestTypeOK
  BY StepActive, StepMoves, StepOnward DEF Control
<1>2. Target(r) \in Targets /\ Artifact(r) \in Artifacts
  BY <1>1, RequestType
<1>3. /\ {"compare", "extract", "project", "probe"} \subseteq Steps \ Reading
      /\ "identity" \in Steps
  BY DEF Steps, Reading
<1>4. ASSUME NEW s \in Steps, Goto(r, s)
      PROVE  req'[r] # None /\ req'[r].at = s
  BY <1>1, <1>4, GotoRequest
<1>5. ASSUME Error(r)
      PROVE  req'[r] = None \/ req'[r].at \notin Reading
  BY <1>1, <1>3, <1>4, <1>5, ErrorRequest, AnswerRequest
<1>6. StageTypeOK'
  <2>1. staged' \in [Artifacts -> [for : Targets \cup {None}, files : {"none", "part", "whole", "changed"}]]
    <3>1. staged \in [Artifacts -> [for : Targets \cup {None}, files : {"none", "part", "whole", "changed"}]]
      BY DEF StageTypeOK
    <3>2. \/ staged' = staged
          \/ staged' = [staged EXCEPT ![Artifact(r)].files = IF @ = "none" THEN "none" ELSE "part"]
          \/ staged' = [staged EXCEPT ![Artifact(r)] = [for |-> Target(r), files |-> "whole"]]
          \/ staged' = [staged EXCEPT ![Artifact(r)] = NotStaged]
      BY DEF Stage, Compare, Extract
    <3> QED
      BY <1>2, <3>1, <3>2 DEF NotStaged
  <2>2. \/ stager' = None
        \/ stager' = r /\ req'[r] # None /\ req'[r].at \in {"compare", "extract"}
        \/ stager' = stager /\ req'[r] # None /\ req'[r].at = "extract"
    BY <1>3, <1>4 DEF Stage, Compare, Extract
  <2>3. stager' # None => stager' \in Requests /\ (At(stager, "compare") \/ At(stager, "extract"))'
    BY <1>1, <2>2 DEF StageTypeOK, Onward, At
  <2> QED
    BY <2>1, <2>3 DEF StageTypeOK
<1>7. \A a \in Artifacts : staged'[a].files = "changed" => staged[a].files = "changed"
  BY <1>2 DEF StageTypeOK, Stage, Compare, Extract, NotStaged
<1>8. req'[r] # None /\ req'[r].at \in Reading => staged'[Artifact(r)].files = "whole"
  <2>1. ASSUME Handed(r), req'[r] # None, req'[r].at \in Reading
        PROVE  req[r].kind \notin {"stage", "preflight"}
    BY <1>1, <1>3, <1>4, <2>1, AnswerRequest DEF Handed
  <2>2. CASE Stage(r)
    BY <1>1, <1>3, <1>4, <1>5, <2>2, AnswerRequest DEF Stage
  <2>3. CASE Compare(r)
    <3>1. CASE Reusable(r) /\ UNCHANGED staged
      BY <3>1 DEF Reusable
    <3>2. CASE Error(r)
      BY <1>5, <3>2
    <3>3. CASE Goto(r, "extract")
      BY <1>3, <1>4, <3>3
    <3> QED
      BY <2>3, <3>1, <3>2, <3>3 DEF Compare
  <2>4. CASE Extract(r)
    <3>1. CASE Error(r)
      BY <1>5, <3>1
    <3>2. CASE staged' = [staged EXCEPT ![Artifact(r)] = [for |-> Target(r), files |-> "whole"]]
      BY <1>2, <3>2 DEF StageTypeOK
    <3> QED
      BY <2>4, <3>1, <3>2 DEF Extract
  <2> QED
    BY <2>2, <2>3, <2>4
<1> QED
  BY <1>7, <1>6, <1>8 DEF FilesKept

\* Both together.
LEMMA StageStep ==
    ASSUME Control, StageTypeOK, NEW r \in Requests, RequestStep(r)
    PROVE  StageTypeOK' /\ FilesKept(r)
<1>1. \/ Stage(r) \/ Compare(r) \/ Extract(r)
      \/ /\ UNCHANGED stages
         /\ \/ HandlerStep(r) \/ OperationStep(r) \/ CacheStep(r)
            \/ ReadIdentity(r) \/ ReadBundle(r)
  BY DEF RequestStep, StagerStep, ReadIdentity, ReadBundle, ReadFiles
<1> QED
  BY <1>1, StagingStep, ElsewhereStep

-----------------------------------------------------------------------------
(* The invariant is inductive.                                             *)

\* The initial states have the invariant.
LEMMA InvInit == Init => Inv
<1> SUFFICES ASSUME Init
             PROVE  Inv
  OBVIOUS
<1>1. /\ \A r \in Requests : req[r] = None
      /\ \A t \in Targets : op[t] = None
      /\ ready = {} /\ installed = {} /\ stager = None
  BY DEF Init, RequestInit, StageInit
<1>2. RequestTypeOK
  BY DEF Init, RequestInit, RequestTypeOK
<1>3. CacheTypeOK
  BY DEF Init, CacheInit, CacheTypeOK, Contents
<1>4. StageTypeOK
  BY DEF Init, StageInit, StageTypeOK, NotStaged
<1>5. TypeOK
  BY <1>1, <1>2, <1>3, <1>4 DEF TypeOK, Init
<1>6. StepsFit /\ Owned /\ OneOwner /\ RecoverAlone
  BY <1>1 DEF StepsFit, Owned, OneOwner, RecoverAlone, Busy
<1>7. Finalizing /\ OneCloses /\ Lawful
  BY <1>1 DEF Finalizing, OneCloses, Lawful, Closing, Open
<1>8. ReadingVerified
  BY <1>1 DEF ReadingVerified
<1> QED
  BY <1>2, <1>5, <1>6, <1>7, <1>8 DEF Inv, Control

\* A step of a request keeps it.
LEMMA InvRequestStep ==
    ASSUME Inv, NEW r \in Requests, RequestStep(r)
    PROVE  Inv'
<1>1. Control'
  BY StepControl DEF Inv
<1>3. req[r] # None /\ Onward(r) /\ Artifact(r) \in Artifacts
  BY StepActive, StepMoves, StepOnward, RequestType DEF Inv, Control
<1>4. StageTypeOK' /\ FilesKept(r)
  BY StageStep DEF Inv, TypeOK
<1>5. CacheTypeOK'
  BY <1>3, CacheTypeStep DEF Inv, TypeOK
<1>6. RequestTypeOK'
  BY <1>1 DEF Control
<1>7. /\ verified' \in [Targets -> Artifacts \cup {None}]
      /\ ready' \subseteq Plans
  BY SessionStep DEF Inv
<1>8. TypeOK'
  BY <1>4, <1>5, <1>6, <1>7 DEF TypeOK
<1>9. ReadingVerified'
  <2>1. SUFFICES ASSUME NEW q \in Requests, req'[q] # None, req'[q].at \in Reading
                 PROVE  staged'[Artifact(q)'].files # "changed"
    BY DEF ReadingVerified
  <2>2. req[q] # None /\ Artifact(q)' = Artifact(q) /\ Artifact(q) \in Artifacts
    BY <1>3, <2>1, RequestType DEF Onward, Artifact, Inv, Control
  <2>3. CASE req[q].at \in Reading
    BY <1>4, <2>2, <2>3 DEF FilesKept, Inv, ReadingVerified
  <2>4. CASE req[q].at \notin Reading
    BY <1>3, <1>4, <2>1, <2>2, <2>4 DEF FilesKept, Onward
  <2> QED
    BY <2>3, <2>4
<1> QED
  BY <1>1, <1>8, <1>9 DEF Inv

\* Accepting a request keeps it.
LEMMA InvNewRequest ==
    ASSUME Inv, NewRequest
    PROVE  Inv'
<1>1. PICK r \in Requests, p \in Plans : Request(r, p)
  BY DEF NewRequest
<1>2. PICK k \in Kinds, s \in Steps : Accepted(r, k, p, s)
  BY <1>1, RequestAccepted
<1>3. UNCHANGED <<lifecycle, cache, stages, session>>
  BY DEF NewRequest
<1>4. /\ Control' /\ req'[r] = [kind |-> k, plan |-> p, at |-> s]
      /\ req'[r] # None
      /\ \A q \in Requests \ {r} : req'[q] = req[q]
  BY <1>2, <1>3, AcceptedControl DEF Inv
<1>5. /\ op' = op /\ installed' = installed /\ archive' = archive /\ image' = image
      /\ staged' = staged /\ stager' = stager
      /\ verified' = verified /\ ready' = ready
  BY <1>3 DEF lifecycle, cache, stages, session
<1>6. req[r] = None /\ s \notin Reading
  BY <1>2 DEF Accepted
<1>7. StageTypeOK'
  <2>1. ~(At(r, "compare") \/ At(r, "extract"))
    BY <1>6 DEF At
  <2> QED
    BY <1>3, <1>4, <2>1, StagerKept DEF Inv, TypeOK
<1>8. TypeOK'
  BY <1>4, <1>5, <1>7 DEF Inv, TypeOK, Control, CacheTypeOK
<1>9. ReadingVerified'
  BY <1>4, <1>5, <1>6 DEF Inv, ReadingVerified, Artifact
<1> QED
  BY <1>4, <1>8, <1>9 DEF Inv

\* Starting the process again keeps it: nobody is reading in a new process.
LEMMA InvRestart ==
    ASSUME Inv, Restart
    PROVE  Inv'
<1>1. Control'
  BY RestartControl DEF Inv
<1>2. /\ \A r \in Requests : req'[r] = None
      /\ op' = op /\ installed' = installed /\ archive' = archive /\ image' = image
      /\ staged' = staged /\ stager' = None
      /\ verified' = [t \in Targets |-> None] /\ ready' = {}
  BY DEF Restart, lifecycle, cache
<1>3. TypeOK'
  BY <1>1, <1>2 DEF Inv, TypeOK, Control, CacheTypeOK, StageTypeOK
<1>4. ReadingVerified'
  BY <1>2 DEF ReadingVerified
<1> QED
  BY <1>1, <1>3, <1>4 DEF Inv

\* Damage keeps it, as nobody is reading.
LEMMA InvDamage ==
    ASSUME Inv, Damage
    PROVE  Inv'
<1>1. /\ \A r \in Requests : req[r] = None
      /\ req' = req /\ op' = op /\ installed' = installed /\ stager' = stager
      /\ verified' = verified /\ ready' = ready
  BY DEF Damage, lifecycle, session
<1>2. Control'
  BY <1>1 DEF Inv, Control, RequestTypeOK, StepsFit, Owned, OneOwner, RecoverAlone, Finalizing,
              OneCloses, Lawful, Busy, Open, Closing, Ended, At, Target
<1>3. archive' \in [Artifacts -> Contents] /\ image' \in Contents
  BY DEF Damage, Inv, TypeOK, CacheTypeOK, Contents
<1>4. staged' \in [Artifacts -> [for : Targets \cup {None}, files : {"none", "part", "whole", "changed"}]]
  BY DEF Damage, Inv, TypeOK, StageTypeOK
<1>5. StageTypeOK'
  BY <1>1, <1>4 DEF Inv, TypeOK, StageTypeOK, At
<1>6. TypeOK'
  BY <1>1, <1>2, <1>3, <1>5 DEF Inv, TypeOK, Control, CacheTypeOK
<1>7. ReadingVerified'
  BY <1>1 DEF Inv, ReadingVerified
<1> QED
  BY <1>2, <1>6, <1>7 DEF Inv

\* A step that changes nothing keeps it.
LEMMA InvStutter ==
    ASSUME Inv, UNCHANGED vars
    PROVE  Inv'
<1>1. /\ req' = req /\ op' = op /\ installed' = installed
      /\ archive' = archive /\ image' = image /\ staged' = staged /\ stager' = stager
      /\ verified' = verified /\ ready' = ready
  BY DEF vars, lifecycle, cache, stages, session
<1>2. Control'
  BY <1>1 DEF Inv, Control, RequestTypeOK, StepsFit, Owned, OneOwner, RecoverAlone, Finalizing,
              OneCloses, Lawful, Busy, Open, Closing, Ended, At, Target
<1>3. TypeOK'
  BY <1>1 DEF Inv, TypeOK, RequestTypeOK, CacheTypeOK, StageTypeOK, At
<1>4. ReadingVerified'
  BY <1>1 DEF Inv, ReadingVerified, Artifact
<1> QED
  BY <1>2, <1>3, <1>4 DEF Inv

\* The invariant holds of every run of the server.
THEOREM Invariance == Spec => []Inv
<1>1. Inv /\ [Next]_vars => Inv'
  BY InvNewRequest, InvRequestStep, InvRestart, InvDamage, InvStutter DEF Next
<1> QED
  BY <1>1, InvInit, PTL DEF Spec

-----------------------------------------------------------------------------
(* The properties.                                                         *)

\* The server's state, the cache and the staging directories are what they are
\* said to be; in particular the staging mutex is held by a request that is
\* staging, or free.
THEOREM TypeCorrect == Spec => []TypeOK
<1>1. Inv => TypeOK
  BY DEF Inv
<1> QED
  BY <1>1, Invariance, PTL

\* However often and however late an operation is asked for, no install is
\* applied over an active installation and nothing else without one.
THEOREM StaleReadiness == Spec => []StaleReadinessIsHarmless
<1>1. Inv => StaleReadinessIsHarmless
  BY DEF Inv, Control, Lawful, Open, Outcomes, StaleReadinessIsHarmless
<1> QED
  BY <1>1, Invariance, PTL

\* What an adapter reads when it is handed a staging directory was verified.
THEOREM VerifiedIsUsed == Spec => OnlyVerifiedIsUsed
<1> DEFINE A == \A r \in Requests :
                  /\ At(r, "identity") \/ At(r, "apply")
                  /\ req'[r] # None /\ req'[r].at \in {"image", "verify"}
                  => staged[Artifact(r)].files \in {"part", "whole"}
<1>1. ASSUME Inv, Next
      PROVE  A
  <2>1. SUFFICES ASSUME NEW r \in Requests, At(r, "identity") \/ At(r, "apply"),
                        req'[r] # None, req'[r].at \in {"image", "verify"}
                 PROVE  staged[Artifact(r)].files \in {"part", "whole"}
    OBVIOUS
  <2>2. req[r] # None /\ req[r].at \in {"identity", "apply"} /\ req'[r] # req[r]
    BY <2>1 DEF At
  <2>3. staged[Artifact(r)].files \in {"none", "part", "whole", "changed"}
    BY <1>1, <2>2, RequestType DEF Inv, TypeOK, StageTypeOK, Control
  <2>4. staged[Artifact(r)].files # "changed"
    BY <1>1, <2>2 DEF Inv, ReadingVerified, Reading
  <2>5. ASSUME NEW q \in Requests, RequestStep(q)
        PROVE  staged[Artifact(r)].files # "none"
    <3>1. q = r
      BY <1>1, <2>2, <2>5, StepActive, StepMoves, StepOnward DEF Inv, Onward
    <3>2. ReadIdentity(r) \/ ReadBundle(r)
      BY <2>2, <2>5, <3>1 DEF RequestStep, HandlerStep, RecordVerified, Probe, Annotate,
         CleanupTargetRemnant, OperationStep, Begin, Remove, Verify, Recover, Project, Unlock,
         CacheStep, Lookup, Unlink, Place, FindImage, PurgeImage, FetchImage, LoadImage,
         StagerStep, Stage, Compare, Extract, At
    <3>3. ASSUME Error(r)
          PROVE  FALSE
      <4>1. CASE Answer(r)
        BY <1>1, <2>1, <4>1, AnswerRequest DEF Inv, Control
      <4>2. CASE Goto(r, "project")
        BY <1>1, <2>1, <2>2, <4>2, GotoRequest DEF Inv, Control, Steps
      <4> QED
        BY <3>3, <4>1, <4>2, ErrorRequest
    <3> QED
      BY <3>2, <3>3 DEF ReadIdentity, ReadBundle, ReadFiles
  <2>6. ~NewRequest
    <3>1. SUFFICES ASSUME NewRequest
                   PROVE  FALSE
      OBVIOUS
    <3>2. PICK q \in Requests, p \in Plans : Request(q, p)
      BY <3>1 DEF NewRequest
    <3>3. PICK k \in Kinds, s \in Steps : Accepted(q, k, p, s)
      BY <3>2, RequestAccepted
    <3> QED
      BY <1>1, <2>2, <3>1, <3>3, AcceptedControl DEF NewRequest, Accepted, Inv
  <2>7. ~Restart /\ ~Damage
    BY <2>1, <2>2 DEF Restart, Damage
  <2> QED
    BY <1>1, <2>3, <2>4, <2>5, <2>6, <2>7 DEF Next
<1>2. Inv /\ [Next]_vars => [A]_vars
  BY <1>1
<1> QED
  BY <1>2, Invariance, PTL DEF Spec, OnlyVerifiedIsUsed
=============================================================================
