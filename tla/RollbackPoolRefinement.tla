----------------------- MODULE RollbackPoolRefinement -----------------------
(***************************************************************************)
(* The local adapter keeps the contract of AdapterContract, for any number *)
(* of backups and versions, whatever the application writes, any kinds     *)
(* requested and any faults, as long as nothing begins beside a pruning.   *)
(***************************************************************************)
EXTENDS RollbackPoolProofs

Current == Deployed(Named(Server))

\* What the container on v and its volume are to the contract.
Serving(v) == [version |-> container[v].version, content |-> content[v]]

-----------------------------------------------------------------------------
(* What a state of the local system is to the contract.                    *)

\* The server that is there is what is deployed.
ServerIsCurrent ==
    /\ \A v \in Volumes :
          container[v] # NoContainer /\ container[v].name = Server => Current = Serving(v)
    /\ NoServer => Current = NoArchive

LEMMA CurrentServer == Inv => ServerIsCurrent
<1>1. ASSUME Inv, NEW v \in Volumes, container[v] # NoContainer, container[v].name = Server
      PROVE  Current = Serving(v)
  <2>1. v \in Everything /\ v # NoVolume /\ EngineTypeOK /\ UniqueNames
    BY <1>1, Identities DEF Everything, Inv, TypeOK, EngineInv
  <2>2. Named(Server) = v
    BY <1>1, <2>1, NamedIs
  <2> QED
    BY <1>1, <2>1, <2>2 DEF Current, Deployed, OwnedContainer, Exists, Serving
<1>2. ASSUME Inv, NoServer, OwnedContainer(Named(Server)) PROVE FALSE
  <2>1. EngineTypeOK /\ Named(Server) \in Volumes /\ Named(Server) # NoVolume
    BY <1>2 DEF Inv, TypeOK, OwnedContainer, Exists
  <2> QED
    BY <1>2, <2>1, NamedFound DEF NoServer, NoServerBut
<1> QED
  BY <1>1, <1>2 DEF ServerIsCurrent, Current, Deployed

\* What each phase of an operation is to the contract.
Picture ==
    /\ op = NoOp =>
          /\ ContractStage = "idle" /\ Goal = NoVersion
          /\ Served = Current /\ Spare = NoArchive
    /\ op # NoOp =>
          /\ op \in Operations
          /\ Goal = IF op.kind = "uninstall" THEN NoVersion ELSE op.to
          /\ op.phase = "prepared" =>
                ContractStage = "untouched" /\ Served = Current /\ Spare = NoArchive
          /\ op.phase = "staged" => ContractStage = "changing" /\ Served = NoArchive
          /\ op.phase = "applied" => ContractStage = "delivered" /\ Served = Current
          /\ op.phase = "recovering" => ContractStage = "undoing" /\ Served = NoArchive
          /\ op.phase # "prepared" =>
                Spare = IF Replaces(op.kind)
                          THEN [version |-> op.from, content |-> content[op.prior]]
                          ELSE NoArchive

LEMMA Pictured == Inv => Picture
<1> SUFFICES ASSUME Inv
             PROVE  Picture
  OBVIOUS
<1>1. CASE op = NoOp
  BY <1>1 DEF Picture, ContractStage, Goal, Served, Spare, Current
<1>2. CASE op # NoOp
  <2> PICK o \in Operations : o = op
    BY <1>2 DEF Inv, TypeOK, AdapterTypeOK
  <2>1. Holding(o)
    BY <1>2 DEF Inv, OperationInv
  <2>2. /\ o.phase = "prepared" =>
              ContractStage = "untouched" /\ Served = Current /\ Spare = NoArchive
        /\ o.phase = "staged" => ContractStage = "changing" /\ Served = NoArchive
        /\ o.phase = "applied" => ContractStage = "delivered" /\ Served = Current
        /\ o.phase = "recovering" => ContractStage = "undoing" /\ Served = NoArchive
    BY <1>2, OperationTypes DEF ContractStage, Served, Spare, Current
  <2>3. ASSUME o.phase # "prepared", Replaces(o.kind)
        PROVE  Spare = [version |-> o.from, content |-> content[o.prior]]
    <3>1. /\ o.prior \in Volumes /\ o.prior # NoVolume
          /\ container[o.prior] # NoContainer /\ container[o.prior].version = o.from
      BY <2>1, <2>3, ReplacementHolds, Identities DEF Kept, Everything
    <3>2. Spare = Deployed(o.prior)
      BY <1>2, <2>3 DEF Spare
    <3> QED
      BY <3>1, <3>2 DEF Deployed, OwnedContainer, Exists
  <2>4. o.phase # "prepared" /\ ~Replaces(o.kind) => Spare = NoArchive
    BY DEF Spare
  <2>5. Goal = IF o.kind = "uninstall" THEN NoVersion ELSE o.to
    BY <1>2 DEF Goal
  <2> QED
    BY <1>2, <2>2, <2>3, <2>4, <2>5 DEF Picture
<1> QED
  BY <1>1, <1>2

\* Both hold after a step that keeps the invariant.
LEMMA Afterwards == Inv' => Picture' /\ ServerIsCurrent'
  BY Pictured, CurrentServer, PTL

-----------------------------------------------------------------------------
(* What a step of the adapter does to the operation and to the engine.     *)

Changing == InstallSteps \cup ReplaceSteps \cup RemoveSteps \cup UndoSteps \cup RevertSteps

\* A request fails, goes on, or is the last one of its call.
LEMMA StepForms ==
    AdapterStep =>
        \/ Fail
        \/ UNCHANGED <<op, store>>
        \/ BackupDone
        \/ Succeed /\ call.at \in Changing
        \/ Stage
        \/ Commit
<1>1. BackupStep => Fail \/ UNCHANGED <<op, store>> \/ BackupDone
  BY DEF BackupStep, BackupInspect, BackupStop, BackupArchive, BackupRestart, BackupReady,
         Request, Go, GoOn
<1>2. InstallStep => Fail \/ UNCHANGED <<op, store>> \/ (Succeed /\ call.at \in Changing)
  BY DEF InstallStep, InstallInspect, InstallVolume, InstallCreate, InstallStart,
         Request, Go, GoOn, Changing, InstallSteps
<1>3. ReplaceStep => Fail \/ UNCHANGED <<op, store>> \/ (Succeed /\ call.at \in Changing)
  BY DEF ReplaceStep, ReplaceInspect, ReplaceVolume, ReplaceStop, ReplaceRename,
         ReplaceCreate, ReplaceFill, ReplaceStart, Request, Go, GoOn, Changing, ReplaceSteps
<1>4. RemoveStep => Fail \/ UNCHANGED <<op, store>> \/ (Succeed /\ call.at \in Changing)
  BY DEF RemoveStep, RemoveInspect, RemoveServer, RemoveData, Request, Go, GoOn, Changing,
         RemoveSteps
<1>5. UndoStep => Fail \/ UNCHANGED <<op, store>> \/ (Succeed /\ call.at \in Changing)
  BY DEF UndoStep, UndoInspect, UndoContainer, Request, Go, GoOn, Changing, UndoSteps
<1>6. RevertStep => Fail \/ UNCHANGED <<op, store>> \/ (Succeed /\ call.at \in Changing)
  BY DEF RevertStep, RevertInspect, RevertContainer, RevertVolume, RevertRename,
         RevertStart, RevertReady, Request, Go, GoOn, Changing, RevertSteps
<1>7. Verify => Fail \/ UNCHANGED <<op, store>>
  BY DEF Verify, Go
<1> QED
  BY <1>1, <1>2, <1>3, <1>4, <1>5, <1>6, <1>7 DEF AdapterStep

\* Apply succeeds, with what Verify and the commit rely on.
Applied(o) == op' = [o EXCEPT !.phase = "applied"] /\ call' # Nothing

\* The changes of an operation o.
Turns(o) ==
    \/ op' = o /\ installed' = installed
    \/ o.phase = "prepared" /\ op' = NoOp /\ installed' = installed
    \/ Stage /\ op' = [o EXCEPT !.phase = "staged"]
    \/ o.phase = "staged" /\ Applied(o) /\ installed' = installed
    \/ o.phase \in {"staged", "applied"} /\ op' = [o EXCEPT !.phase = "recovering"]
       /\ installed' = installed
    \/ o.phase = "applied" /\ op' = NoOp /\ UNCHANGED engine
       /\ installed' = IF o.kind = "uninstall" THEN NoVersion ELSE o.to
    \/ o.phase = "recovering" /\ op' = NoOp
       /\ installed' = IF o.kind = "uninstall" THEN NoVersion ELSE installed

LEMMA FailTurns ==
    ASSUME NEW o \in Operations, o = op, Fail
    PROVE  Turns(o)
<1>1. installed' = installed
  BY DEF Fail, store
<1>2. o.phase \in {"prepared", "staged", "applied", "recovering"}
  BY OperationTypes
<1>3. CASE o.phase = "prepared"
  BY <1>1, <1>3 DEF Fail, Close, Turns
<1>4. CASE o.phase = "recovering"
  BY <1>1, <1>4 DEF Fail, Turns
<1>5. CASE o.phase \in {"staged", "applied"}
  BY <1>1, <1>5 DEF Fail, Turns
<1> QED
  BY <1>2, <1>3, <1>4, <1>5

LEMMA SucceedTurns ==
    ASSUME NEW o \in Operations, o = op, o.phase \in {"staged", "recovering"}, Succeed
    PROVE  Turns(o)
<1>1. CASE o.phase = "recovering"
  BY <1>1 DEF Succeed, Close, Turns
<1>2. CASE o.phase = "staged"
  <2> PICK c : c = call'
    OBVIOUS
  <2>1. /\ op' = [o EXCEPT !.phase = "applied"] /\ installed' = installed
        /\ c = [Nothing EXCEPT !.at = IF o.kind = "uninstall" THEN "commit" ELSE "verify"]
    BY <1>2 DEF Succeed, Enter
  <2>2. c.at # "none" /\ Nothing.at = "none"
    BY <2>1, CallTypes DEF Places
  <2> QED
    BY <1>2, <2>1, <2>2 DEF Turns, Applied
<1> QED
  BY <1>1, <1>2

LEMMA AdapterTurns ==
    ASSUME Working, AdapterStep, NEW o \in Operations, o = op
    PROVE  Turns(o)
<1>1. Holding(o) /\ call.at \in Steps(o)
  BY StepsAreCalls, Caller
<1>2. Legal(o)
  BY <1>1 DEF Holding
<1>3. CASE Fail
  BY <1>3, FailTurns
<1>4. CASE UNCHANGED <<op, store>> \/ BackupDone
  BY <1>4 DEF Turns, store, BackupDone
<1>5. CASE Succeed /\ call.at \in Changing
  <2>1. o.phase \in {"staged", "recovering"}
    BY <1>1, <1>2, <1>5, StepsTell DEF Changing
  <2> QED
    BY <1>5, <2>1, SucceedTurns
<1>6. CASE Stage
  <2>1. o.phase = "prepared"
    BY <1>1, <1>2, <1>6, StepsTell DEF Stage
  <2> QED
    BY <1>6, <2>1 DEF Stage, Close, Turns, store
<1>7. CASE Commit
  <2>1. \/ o.phase = "prepared" /\ o.kind = "backup"
        \/ o.phase = "applied" /\ o.kind # "backup"
    BY <1>1, <1>2, <1>7, StepsTell DEF Commit, Legal
  <2>2. /\ op' = NoOp /\ UNCHANGED engine
        /\ installed' = CASE o.kind = "uninstall" -> NoVersion
                          [] o.kind = "backup"    -> installed
                          [] OTHER                -> o.to
    BY <1>7 DEF Commit, Close
  <2> QED
    BY <2>1, <2>2 DEF Turns
<1> QED
  BY <1>3, <1>4, <1>5, <1>6, <1>7, StepForms

\* Requests for the volume v leave the data of the others, and a start leaves
\* all data.
LEMMA RequestsKeepData ==
    ASSUME EngineTypeOK, NEW w \in Volumes, content[w] # Empty, NEW v
    PROVE  /\ Start(v) \/ Stop(v) \/ RemoveContainer(v) => content'[w] = content[w]
           /\ \A n : Rename(v, n) \/ CreateContainer(v, n) => content'[w] = content[w]
           /\ v # w /\ (CreateVolume(v) \/ RemoveVolume(v)) => content'[w] = content[w]
           /\ UNCHANGED engine => content'[w] = content[w]
<1>1. Start(v) => content'[w] = content[w]
  BY DEF Start, EngineTypeOK
<1>2. Stop(v) \/ RemoveContainer(v) => content'[w] = content[w]
  BY DEF Stop, RemoveContainer
<1>3. \A n : Rename(v, n) \/ CreateContainer(v, n) => content'[w] = content[w]
  BY DEF Rename, CreateContainer
<1>4. v # w /\ (CreateVolume(v) \/ RemoveVolume(v)) => content'[w] = content[w]
  BY DEF CreateVolume, RemoveVolume, EngineTypeOK
<1> QED
  BY <1>1, <1>2, <1>3, <1>4 DEF engine

\* Once an Apply has succeeded nothing is requested that changes anything.
LEMMA AppliedRests ==
    ASSUME Working, AdapterStep, op.phase = "applied"
    PROVE  UNCHANGED engine
<1>1. op \in Operations /\ Holding(op) /\ call.at \in Steps(op)
  BY StepsAreCalls, Caller
<1>2. call.at \in {"verify", "commit"}
  BY <1>1 DEF Steps
<1> QED
  BY <1>2
  DEF AdapterStep, Stage, Commit, Verify, BackupStep, InstallStep, ReplaceStep, RemoveStep,
      UndoStep, RevertStep, BackupInspect, BackupStop, BackupArchive, BackupRestart,
      BackupReady, InstallInspect, InstallVolume, InstallCreate, InstallStart,
      ReplaceInspect, ReplaceVolume, ReplaceStop, ReplaceRename, ReplaceCreate,
      ReplaceFill, ReplaceStart, RemoveInspect, RemoveServer, RemoveData, UndoInspect,
      UndoContainer, RevertInspect, RevertContainer, RevertVolume, RevertRename,
      RevertStart, RevertReady

\* Apply and Recover of a replacement leave the data of what they replace.
LEMMA PriorDataKept ==
    ASSUME Working, AdapterStep, Replaces(op.kind), op.phase # "prepared"
    PROVE  content'[op.prior] = content[op.prior]
<1>1. /\ op \in Operations /\ Holding(op) /\ call.at \in Steps(op)
  BY StepsAreCalls, Caller
<1>2. /\ op.prior \in Volumes /\ op.prior # op.safety /\ op.safety \in Volumes
      /\ content[op.prior] # Empty /\ EngineTypeOK
  BY <1>1, ReplacementHolds DEF Kept, Working
<1>3. op.kind \notin {"install", "uninstall"}
  BY DEF Replaces
<1>4. CASE op.phase = "applied"
  BY <1>4, AppliedRests DEF engine
<1>5. CASE op.phase = "staged"
  <2>1. call.at \in ReplaceSteps
    BY <1>1, <1>3, <1>5 DEF Steps
  <2>2. ReplaceStep
    BY <2>1
    DEF AdapterStep, Stage, Commit, Verify, BackupStep, InstallStep, RemoveStep,
        UndoStep, RevertStep, BackupInspect, BackupStop, BackupArchive, BackupRestart,
        BackupReady, InstallInspect, InstallVolume, InstallCreate, InstallStart,
        RemoveInspect, RemoveServer, RemoveData, UndoInspect,
        UndoContainer, RevertInspect, RevertContainer, RevertVolume, RevertRename,
        RevertStart, RevertReady, ReplaceSteps
  <2>3. CASE ReplaceFill
    BY <1>2, <2>3 DEF ReplaceFill, Request, EngineTypeOK, engine
  <2>4. CASE ReplaceInspect \/ ReplaceVolume \/ ReplaceStop
    BY <1>2, <2>4, RequestsKeepData DEF ReplaceInspect, ReplaceVolume, ReplaceStop, Request
  <2>5. CASE ReplaceRename \/ ReplaceCreate \/ ReplaceStart
    BY <1>2, <2>5, RequestsKeepData DEF ReplaceRename, ReplaceCreate, ReplaceStart, Request
  <2> QED
    BY <2>2, <2>3, <2>4, <2>5 DEF ReplaceStep
<1>6. CASE op.phase = "recovering"
  <2>1. call.at \in RevertSteps
    BY <1>1, <1>3, <1>6 DEF Steps
  <2>2. RevertStep
    BY <2>1
    DEF AdapterStep, Stage, Commit, Verify, BackupStep, InstallStep, ReplaceStep, RemoveStep,
        UndoStep, BackupInspect, BackupStop, BackupArchive, BackupRestart,
        BackupReady, InstallInspect, InstallVolume, InstallCreate, InstallStart,
        ReplaceInspect, ReplaceVolume, ReplaceStop, ReplaceRename, ReplaceCreate,
        ReplaceFill, ReplaceStart, RemoveInspect, RemoveServer, RemoveData, UndoInspect,
        UndoContainer, RevertSteps
  <2>3. CASE RevertInspect \/ RevertContainer \/ RevertVolume
    BY <1>2, <2>3, RequestsKeepData DEF RevertInspect, RevertContainer, RevertVolume, Request
  <2>4. CASE RevertRename \/ RevertStart \/ RevertReady
    BY <1>2, <2>4, RequestsKeepData DEF RevertRename, RevertStart, RevertReady, Request
  <2> QED
    BY <2>2, <2>3, <2>4 DEF RevertStep
<1> QED
  BY <1>1, <1>4, <1>5, <1>6, OperationTypes

\* Backup leaves the server it is of, and its data.
LEMMA BackupLeaves ==
    ASSUME Working, BackupStep, NEW o, o = op
    PROVE  /\ Serves(o.prior, o.from) /\ Serves(o.prior, o.from)'
           /\ o.prior \in Volumes /\ content'[o.prior] = content[o.prior]
<1> PICK v : v = o.prior
  OBVIOUS
<1>1. call.at \in BackupSteps
  BY DEF BackupStep, BackupInspect, BackupStop, BackupArchive, BackupRestart, BackupReady,
         BackupSteps
<1>2. /\ Serves(v, o.from) /\ v \in Everything /\ v \in Volumes
      /\ call.at # "backup-inspect" => call.id = v
  BY <1>1, BackupFinds DEF Serves
<1>3. UNCHANGED engine \/ Start(v) \/ Stop(v)
  BY <1>2 DEF BackupStep, BackupInspect, BackupStop, BackupArchive, BackupRestart,
              BackupReady, Request
<1>4. EngineTypeOK /\ content[v] # Empty /\ container[v] \in Containers
  BY <1>2 DEF Working, Serves, EngineTypeOK, Everything
<1>5. content'[v] = content[v]
  BY <1>2, <1>3, <1>4, RequestsKeepData
<1>6. /\ container'[v] # NoContainer
      /\ container'[v].name = container[v].name /\ container'[v].version = container[v].version
  <2>1. container'[v] = container[v] \/ container'[v] = [container[v] EXCEPT !.running = TRUE]
        \/ container'[v] = [container[v] EXCEPT !.running = FALSE]
    BY <1>2, <1>3, <1>4 DEF engine, Start, Stop, EngineTypeOK, Everything
  <2> QED
    BY <1>2, <1>4, <2>1, ContainerType DEF Containers, Serves
<1> QED
  BY <1>2, <1>5, <1>6 DEF Serves

-----------------------------------------------------------------------------
(* Each step of the adapter is a step of the contract, or none.            *)

ContractStep == [Contract!Next]_(Contract!vars)

LEMMA SameEngine == UNCHANGED engine => Current' = Current
  BY DEF engine, Current, Deployed, Named, OwnedContainer, Exists

\* Nothing that a Backup or a staging does is seen.
LEMMA PreparedCurrent ==
    ASSUME Inv, Inv', AdapterStep, op.phase = "prepared"
    PROVE  Current' = Current
<1> PICK o : o = op
  OBVIOUS
<1>1. Working
  BY DEF Inv, TypeOK, Working
<1>2. op \in Operations /\ call.at \in Steps(op)
  BY <1>1, StepsAreCalls, Caller
<1>3. call.at \in BackupSteps \cup {"commit", "stage"}
  BY <1>2 DEF Steps
<1>4. BackupStep \/ UNCHANGED engine
  BY <1>3
  DEF AdapterStep, Stage, Commit, Verify, InstallStep, ReplaceStep, RemoveStep,
      UndoStep, RevertStep, InstallInspect, InstallVolume, InstallCreate, InstallStart,
      ReplaceInspect, ReplaceVolume, ReplaceStop, ReplaceRename, ReplaceCreate,
      ReplaceFill, ReplaceStart, RemoveInspect, RemoveServer, RemoveData, UndoInspect,
      UndoContainer, RevertInspect, RevertContainer, RevertVolume, RevertRename,
      RevertStart, RevertReady, BackupSteps
<1>5. CASE BackupStep
  <2>1. /\ Serves(o.prior, o.from) /\ Serves(o.prior, o.from)'
        /\ o.prior \in Volumes /\ content'[o.prior] = content[o.prior]
    BY <1>1, <1>5, BackupLeaves
  <2>2. ServerIsCurrent /\ ServerIsCurrent'
    BY CurrentServer, Afterwards
  <2>3. Current = Serving(o.prior) /\ Current' = Serving(o.prior)'
    BY <2>1, <2>2 DEF Serves, ServerIsCurrent
  <2> QED
    BY <2>1, <2>3 DEF Serves, Serving
<1> QED
  BY <1>4, <1>5, SameEngine

LEMMA SameOperation ==
    ASSUME Inv, Inv', AdapterStep, UNCHANGED <<op, installed>>
    PROVE  UNCHANGED Contract!vars
<1>1. Picture /\ Picture' /\ Working /\ op # NoOp
  BY Pictured, Afterwards, StepsAreCalls, Caller DEF Inv, TypeOK, Working
<1>2. Goal' = Goal /\ ContractStage' = ContractStage
  BY <1>1 DEF Goal, ContractStage
<1>3. Spare' = Spare
  BY <1>1, PriorDataKept DEF Picture
<1>4. Served' = Served
  <2>1. CASE op.phase = "prepared"
    BY <1>1, <2>1, PreparedCurrent DEF Picture
  <2>2. CASE op.phase = "applied"
    BY <1>1, <2>2, AppliedRests, SameEngine DEF Picture
  <2>3. CASE op.phase \in {"staged", "recovering"}
    BY <1>1, <2>3 DEF Picture
  <2> QED
    BY <1>1, <2>1, <2>2, <2>3, OperationTypes DEF Picture
<1> QED
  BY <1>2, <1>3, <1>4 DEF Contract!vars

LEMMA WithdrawRefines ==
    ASSUME Inv, Inv', AdapterStep, op.phase = "prepared", op' = NoOp, installed' = installed
    PROVE  Contract!Withdraw
<1>1. Picture /\ Picture' /\ op # NoOp
  BY Pictured, Afterwards, StepsAreCalls, Caller DEF Inv, TypeOK, Working
<1>2. Current' = Current
  BY PreparedCurrent
<1> QED
  BY <1>1, <1>2 DEF Picture, Contract!Withdraw

\* What serves as the operation is staged is what is set aside.
LEMMA StageRefines ==
    ASSUME Inv, Inv', Stage, NEW o \in Operations, o = op, op' = [o EXCEPT !.phase = "staged"]
    PROVE  Contract!Stage
<1>1. Picture /\ Picture' /\ Working /\ ServerIsCurrent
  BY Pictured, Afterwards, CurrentServer DEF Inv, TypeOK, Working
<1>2. Holding(o) /\ call.at \in Steps(o) /\ call.at = "stage"
  BY <1>1, Caller DEF Stage
<1>3. Legal(o) /\ o.phase = "prepared" /\ (o.kind = "install" \/ Replaces(o.kind)) /\ Untouched(o)
  BY <1>2, StepsTell DEF Holding
<1> PICK n : n = op'
  OBVIOUS
<1>4. /\ n # NoOp /\ n.phase = "staged" /\ n.kind = o.kind /\ n.to = o.to /\ n.from = o.from
      /\ n.prior = o.prior
  BY PhaseTypes
<1>5. content' = content /\ installed' = installed /\ o # NoOp
  BY OperationTypes DEF Stage, engine, store
<1>6. Spare' = Served
  <2>1. Served = Current
    BY <1>1, <1>3, <1>5 DEF Picture
  <2>2. CASE Replaces(o.kind)
    <3>1. Serves(o.prior, o.from)
      BY <1>3, <2>2 DEF Untouched, Replaces, TakesBackup
    <3>2. Current = [version |-> o.from, content |-> content[o.prior]]
      BY <1>1, <3>1 DEF Serves, ServerIsCurrent, Serving
    <3> QED
      BY <1>1, <1>4, <1>5, <2>1, <2>2, <3>2 DEF Picture
  <2>3. CASE ~Replaces(o.kind)
    <3>1. installed = NoVersion
      BY <1>3, <2>3 DEF Legal
    <3>2. Current = NoArchive
      BY <1>1, <1>3, <3>1 DEF Untouched, Settled, ServerIsCurrent
    <3> QED
      BY <1>1, <1>4, <2>1, <2>3, <3>2 DEF Picture
  <2> QED
    BY <2>2, <2>3
<1>7. /\ ContractStage = "untouched" /\ ContractStage' = "changing"
      /\ Served' = NoArchive /\ Goal' = Goal
  BY <1>1, <1>3, <1>4, <1>5 DEF Picture
<1> QED
  BY <1>5, <1>6, <1>7 DEF Contract!Stage, Contract!Nothing, NoArchive

\* An Apply that succeeds delivers the version asked for, with data.
LEMMA DeliverRefines ==
    ASSUME Inv, Inv', AdapterStep, NEW o \in Operations, o = op, o.phase = "staged", Applied(o),
           installed' = installed
    PROVE  Contract!Deliver
<1>1. Picture /\ Picture' /\ Working /\ Working' /\ ServerIsCurrent'
  BY Pictured, Afterwards DEF Inv, TypeOK, Working
<1>2. Holding(o) /\ o # NoOp
  BY <1>1, StepsAreCalls, Caller
<1>3. Legal(o) /\ o.kind # "backup" /\ o.kind \in Kinds
  BY <1>2, OperationTypes DEF Holding, Legal
<1> PICK n : n = op'
  OBVIOUS
<1>4. /\ n \in Operations /\ n # NoOp /\ n.phase = "applied"
      /\ n.kind = o.kind /\ n.to = o.to /\ n.from = o.from
      /\ n.prior = o.prior /\ n.safety = o.safety
  BY PhaseTypes DEF Applied
<1> PICK c : c = call'
  OBVIOUS
<1>5. Delivered(n)'
  <2>1. c.at \in Steps(n) /\ Going(n, c)'
    <3>1. Underway(n, c)'
      BY <1>1, <1>4 DEF Working, CallInv
    <3> QED
      BY <3>1 DEF Underway, Applied
  <2>2. c.at \in {"verify", "commit"}
    BY <1>4, <2>1 DEF Steps
  <2> QED
    BY <1>4, <2>1, <2>2 DEF Going, Delivered
<1>6. Current' \in { d \in Contract!Deployments \cup {NoArchive} : d.version = Goal }
  <2>1. CASE o.kind = "uninstall"
    <3>1. NoServer' /\ Goal = NoVersion
      BY <1>1, <1>2, <1>4, <1>5, <2>1 DEF Delivered, Picture
    <3> QED
      BY <1>1, <3>1 DEF ServerIsCurrent, NoArchive
  <2>2. CASE o.kind # "uninstall"
    <3>1. PICK v : Serves(v, o.to)'
      BY <1>4, <1>5, <2>2 DEF Delivered
    <3>2. Current' = [version |-> o.to, content |-> content'[v]] /\ content'[v] # Empty
      BY <1>1, <3>1 DEF Serves, ServerIsCurrent, Serving
    <3>3. o.to \in Versions /\ content'[v] \in Contents /\ Goal = o.to
      BY <1>1, <1>2, <2>2, <3>1, OperationTypes DEF Picture, Serves, Working, EngineTypeOK
    <3> QED
      BY <3>2, <3>3 DEF Contract!Deployments
  <2> QED
    BY <2>1, <2>2
<1>7. Spare' = Spare
  BY <1>1, <1>2, <1>4, PriorDataKept DEF Picture
<1>8. /\ ContractStage = "changing" /\ ContractStage' = "delivered"
      /\ Served' = Current' /\ Goal' = Goal
  BY <1>1, <1>2, <1>4 DEF Picture
<1> QED
  BY <1>6, <1>7, <1>8 DEF Contract!Deliver, Contract!Nothing, NoArchive

LEMMA UndoRefines ==
    ASSUME Inv, Inv', NEW o \in Operations, o = op, o.phase \in {"staged", "applied"},
           op' = [o EXCEPT !.phase = "recovering"], installed' = installed,
           Replaces(o.kind) => content'[o.prior] = content[o.prior]
    PROVE  Contract!Undo
<1>1. Picture /\ Picture' /\ o # NoOp
  BY Pictured, Afterwards, OperationTypes
<1> PICK n : n = op'
  OBVIOUS
<1>2. /\ n # NoOp /\ n.phase = "recovering" /\ n.kind = o.kind /\ n.to = o.to /\ n.from = o.from
      /\ n.prior = o.prior
  BY PhaseTypes
<1>3. /\ ContractStage \in {"changing", "delivered"} /\ ContractStage' = "undoing"
      /\ Served' = NoArchive /\ Goal' = Goal
  BY <1>1, <1>2 DEF Picture
<1>4. Spare' = Spare
  BY <1>1, <1>2 DEF Picture
<1> QED
  BY <1>3, <1>4 DEF Contract!Undo, Contract!Nothing, NoArchive

LEMMA CommitRefines ==
    ASSUME Inv, Inv', NEW o \in Operations, o = op, o.phase = "applied", op' = NoOp,
           UNCHANGED engine, installed' = IF o.kind = "uninstall" THEN NoVersion ELSE o.to
    PROVE  Contract!Commit
<1>1. Picture /\ Picture' /\ o # NoOp
  BY Pictured, Afterwards, OperationTypes
<1> QED
  BY <1>1, SameEngine DEF Picture, Contract!Commit, Contract!Nothing, NoArchive

\* A Recover that succeeds has what was set aside served again.
LEMMA RestoreRefines ==
    ASSUME Inv, Inv', AdapterStep, UNCHANGED prune, NEW o \in Operations, o = op,
           o.phase = "recovering", op' = NoOp,
           installed' = IF o.kind = "uninstall" THEN NoVersion ELSE installed
    PROVE  Contract!Restore
<1>1. Picture /\ Picture' /\ Working /\ ServerIsCurrent' /\ o # NoOp
  BY Pictured, Afterwards, OperationTypes DEF Inv, TypeOK, Working
<1>2. Holding(o) /\ Legal(o) /\ o.kind # "backup" /\ o.kind \in Kinds
  BY <1>1, StepsAreCalls, Caller, OperationTypes DEF Holding, Legal
<1>3. IF Replaces(o.kind)
        THEN container'[o.prior] = [name |-> Server, version |-> o.from, running |-> TRUE]
        ELSE \A v \in Volumes : container'[v] # NoContainer => container'[v].name # Server
  BY <1>1, RecoveryLeaves DEF Next
<1>4. Served' = Spare /\ installed' = Spare.version
  <2>1. CASE Replaces(o.kind)
    <3>1. o.prior \in Volumes /\ content'[o.prior] = content[o.prior]
      BY <1>1, <1>2, <2>1, ReplacementHolds, PriorDataKept
    <3>2. container'[o.prior] # NoContainer
      BY <1>3, <2>1, <1>2, ContainerType, OperationTypes DEF Legal, Replaces
    <3>3. Current' = [version |-> o.from, content |-> content[o.prior]]
      BY <1>1, <1>3, <2>1, <3>1, <3>2 DEF ServerIsCurrent, Serving
    <3>4. Spare = [version |-> o.from, content |-> content[o.prior]]
      BY <1>1, <2>1 DEF Picture
    <3>5. installed' = o.from
      BY <1>2, <2>1 DEF Legal, Replaces
    <3> QED
      BY <1>1, <3>3, <3>4, <3>5 DEF Picture
  <2>2. CASE ~Replaces(o.kind)
    <3>1. NoServer'
      BY <1>3, <2>2 DEF NoServer, NoServerBut
    <3>2. installed' = NoVersion
      BY <1>2, <2>2 DEF Legal, Replaces, Kinds
    <3> QED
      BY <1>1, <2>2, <3>1, <3>2 DEF ServerIsCurrent, Picture, NoArchive
  <2> QED
    BY <2>1, <2>2
<1>5. ContractStage = "undoing" /\ ContractStage' = "idle" /\ Goal' = NoVersion /\ Spare' = NoArchive
  BY <1>1 DEF Picture
<1> QED
  BY <1>4, <1>5 DEF Contract!Restore, Contract!Nothing, NoArchive

LEMMA AdapterRefines ==
    ASSUME Inv, Inv', AdapterStep, UNCHANGED prune
    PROVE  ContractStep
<1>1. Working
  BY DEF Inv, TypeOK, Working
<1> PICK o \in Operations : o = op
  BY <1>1, StepsAreCalls, Caller
<1>2. Turns(o)
  BY <1>1, AdapterTurns
<1>3. o.phase \in {"staged", "applied"} /\ Replaces(o.kind) => content'[o.prior] = content[o.prior]
  BY <1>1, PriorDataKept
<1> HIDE DEF Turns
<1> QED
  BY <1>2, <1>3, SameOperation, WithdrawRefines, StageRefines, DeliverRefines, UndoRefines,
     CommitRefines, RestoreRefines
  DEF Turns, ContractStep, Contract!Next

-----------------------------------------------------------------------------
(* The other steps.                                                        *)

LEMMA BeginRefines ==
    ASSUME Inv, Inv', OperatorBegins
    PROVE  ContractStep
<1>1. Picture /\ Picture' /\ Inv
  BY Pictured, Afterwards
<1>2. PICK kind \in RunKinds, to \in Versions, selected \in BackupIds \cup {NoBackup} :
         Begin(kind, to, selected)
  BY DEF OperatorBegins
<1> PICK n : n = op'
  OBVIOUS
<1>3. /\ op = NoOp /\ n.kind = kind /\ n.to = to
      /\ n.phase = IF kind = "uninstall" THEN "staged" ELSE "prepared"
      /\ UNCHANGED engine /\ installed' = installed
  BY <1>2 DEF Begin, store
<1>4. kind \in Kinds /\ Current' = Current
  BY <1>3, KindsAssumption, SameEngine
<1>5. n # NoOp
  <2>1. call' # Nothing
    <3> PICK c : c = call'
      OBVIOUS
    <3>1. c.at \in {"backup-inspect", "remove-inspect", "stage"}
      BY <1>2 DEF Begin, Enter, Nothing
    <3> QED
      BY <3>1 DEF Nothing
  <2> QED
    BY <2>1 DEF Inv, OperationInv
<1>6. CASE kind = "uninstall"
  <2>1. Contract!BeginRemoval
    BY <1>1, <1>3, <1>5, <1>6
    DEF Picture, Replaces, Contract!BeginRemoval, Contract!Nothing, NoArchive
  <2> QED
    BY <2>1 DEF ContractStep, Contract!Next
<1>7. CASE kind # "uninstall"
  <2>1. Contract!Begin
    BY <1>1, <1>3, <1>4, <1>5, <1>7 DEF Picture, Contract!Begin
  <2> QED
    BY <2>1 DEF ContractStep, Contract!Next
<1> QED
  BY <1>6, <1>7

\* What only works on the engine, or on a pruning, is seen by what it does to
\* the server and to what is set aside.
LEMMA RestRefines ==
    ASSUME Inv, Inv', UNCHANGED <<op, installed>>, Current' = Current,
           op # NoOp /\ op.phase # "prepared" /\ Replaces(op.kind) =>
              content'[op.prior] = content[op.prior]
    PROVE  ContractStep
<1>1. Picture /\ Picture'
  BY Pictured, Afterwards
<1>2. Goal' = Goal /\ ContractStage' = ContractStage
  BY DEF Goal, ContractStage
<1>3. Spare' = Spare
  BY <1>1 DEF Picture
<1>4. Served' = Served
  BY <1>2 DEF Served, Current
<1> QED
  BY <1>2, <1>3, <1>4 DEF ContractStep, Contract!vars

\* RecoverActive undoes what has begun to change the target.
LEMMA RecoverRefines ==
    ASSUME Inv, Inv', Recover
    PROVE  ContractStep
<1> PICK o \in Operations : o = op
  BY DEF Recover, Inv, TypeOK, AdapterTypeOK
<1>1. /\ Picture /\ Picture' /\ UNCHANGED engine /\ installed' = installed /\ o # NoOp
      /\ Current' = Current
  BY Pictured, Afterwards, OperationTypes, SameEngine DEF Recover, store
<1>2. CASE o.phase = "prepared"
  <2>1. op' = NoOp
    BY <1>2 DEF Recover, Close
  <2>2. Contract!Withdraw
    BY <1>1, <1>2, <2>1 DEF Picture, Contract!Withdraw
  <2> QED
    BY <2>2 DEF ContractStep, Contract!Next
<1>3. CASE o.phase = "recovering"
  <2>1. op' = o
    BY <1>3 DEF Recover, Operations
  <2> QED
    BY <1>1, <2>1, RestRefines DEF engine
<1>4. CASE o.phase \in {"staged", "applied"}
  <2>1. op' = [o EXCEPT !.phase = "recovering"]
    BY <1>4 DEF Recover
  <2>2. Contract!Undo
    BY <1>1, <1>4, <2>1, UndoRefines DEF engine
  <2> QED
    BY <2>2 DEF ContractStep, Contract!Next
<1> QED
  BY <1>2, <1>3, <1>4, OperationTypes

\* The server that is there stays, as it is.
LEMMA SameServer ==
    ASSUME Inv, Inv',
           \/ NoServer /\ NoServer'
           \/ \E v \in Volumes : /\ container[v] # NoContainer /\ container[v].name = Server
                                 /\ container'[v] = container[v] /\ content'[v] = content[v]
    PROVE  Current' = Current
<1>1. ServerIsCurrent /\ ServerIsCurrent'
  BY CurrentServer, Afterwards
<1> QED
  BY <1>1 DEF ServerIsCurrent, Serving

\* A pruning removes neither the server nor its volume.
LEMMA PruningRefines ==
    ASSUME Inv, Inv', PruningStep
    PROVE  ContractStep
<1>1. op = NoOp /\ UNCHANGED <<op, installed>> /\ Settled /\ Settled' /\ PruneInv
  <2>1. op = NoOp
    <3>1. op = NoOp \/ prune.at \in {"list", "check", "container", "volume"}
      BY DEF PruningStep, PruneBegin, PruneList, PruneFails, PruneCheck, PruneContainer,
             PruneVolume
    <3> QED
      BY <3>1 DEF Inv, PruneInv, NoPruning
  <2>2. UNCHANGED <<op, installed>>
    BY DEF PruningStep, PruneBegin, PruneList, PruneFails, PruneCheck, PruneContainer,
           PruneVolume, store
  <2> QED
    BY <2>1, <2>2 DEF Inv, OperationInv
<1>2. CASE UNCHANGED engine
  BY <1>1, <1>2, SameEngine, RestRefines
<1>3. CASE ~UNCHANGED engine
  <2>1. /\ prune.at \in {"container", "volume"} /\ prune.id \in Volumes
        /\ \/ /\ prune.at = "container" /\ Exists(prune.id) /\ RemoveContainer(prune.id)
           \/ ~Exists(prune.id) /\ RemoveVolume(prune.id)
    BY <1>1, <1>3
    DEF PruningStep, PruneBegin, PruneList, PruneFails, PruneCheck, PruneContainer,
        PruneVolume, Request, PruneInv
  <2>2. EngineTypeOK /\ EngineTypeOK' /\ prune.id # NoVolume
    BY <2>1, Identities DEF Inv, TypeOK, Everything
  <2>3. ASSUME NEW v \in Volumes, container[v] # NoContainer, container[v].name = Server
        PROVE  container'[v] = container[v] /\ content'[v] = content[v]
    <3>1. CASE prune.at = "container" /\ Exists(prune.id) /\ RemoveContainer(prune.id)
      <4>1. v # prune.id
        BY <1>1, <2>3, <3>1 DEF PruneInv
      <4> QED
        BY <2>2, <3>1, <4>1, <2>3 DEF RemoveContainer, EngineTypeOK
    <3>2. CASE ~Exists(prune.id) /\ RemoveVolume(prune.id)
      <4>1. v # prune.id
        BY <2>2, <2>3, <3>2 DEF Exists
      <4> QED
        BY <2>2, <3>2, <4>1, <2>3 DEF RemoveVolume, EngineTypeOK
    <3> QED
      BY <2>1, <3>1, <3>2
  <2>4. Current' = Current
    <3>1. CASE installed = NoVersion
      BY <1>1, <3>1, SameServer DEF Settled
    <3>2. CASE installed # NoVersion
      <4>1. PICK v \in Volumes : Serves(v, installed)
        BY <1>1, <3>2 DEF Settled
      <4> QED
        BY <2>3, <4>1, SameServer DEF Serves
    <3> QED
      BY <3>1, <3>2
  <2> QED
    BY <1>1, <2>4, RestRefines
<1> QED
  BY <1>2, <1>3

LEMMA StrangersRefine ==
    ASSUME Inv, Inv', StrangersLeave, UNCHANGED <<archive, store, op, call, prune>>
    PROVE  ContractStep
<1>1. content' = content /\ UNCHANGED <<op, installed>>
  BY DEF StrangersLeave, store
<1>2. \A v \in Volumes : container'[v] = container[v]
  BY Identities DEF StrangersLeave, Inv, TypeOK, EngineTypeOK
<1>3. Current' = Current
  <2>1. CASE \E v \in Volumes : container[v] # NoContainer /\ container[v].name = Server
    BY <1>1, <1>2, <2>1, SameServer
  <2>2. CASE ~ \E v \in Volumes : container[v] # NoContainer /\ container[v].name = Server
    BY <1>2, <2>2, SameServer DEF NoServer, NoServerBut
  <2> QED
    BY <2>1, <2>2
<1> QED
  BY <1>1, <1>3, RestRefines

-----------------------------------------------------------------------------
(* The application's writes.                                               *)

\* After an Apply the replaced container has the name of its backup: only the
\* replacement is written to.
Aside == op # NoOp /\ op.phase = "applied" /\ Replaces(op.kind) => PriorNamed(op, op.safety)

LEMMA AsideOnceApplied ==
    ASSUME Inv, Inv', AdapterStep, NEW o \in Operations, o = op, o.phase = "staged", Applied(o)
    PROVE  Aside'
<1> PICK n : n = op'
  OBVIOUS
<1>1. n \in Operations /\ n # NoOp /\ n.phase = "applied"
  BY PhaseTypes DEF Applied
<1> PICK c : c = call'
  OBVIOUS
<1> SUFFICES ASSUME Replaces(n.kind)
             PROVE  PriorNamed(n, n.safety)'
  BY DEF Aside, PriorNamed
<1>2. /\ Kept(n)' /\ n.safety \in Volumes
  <2>1. Holding(n)'
    BY <1>1 DEF Inv, OperationInv
  <2>2. Kept(n)' /\ n.safety \in BackupIds
    BY <1>1, <2>1 DEF Holding, Legal, Replaces, TakesBackup
  <2> QED
    BY <2>2, Identities
<1>3. Serves(n.safety, n.to)'
  <2>1. c.at \in Steps(n) /\ Going(n, c)'
    <3>1. Underway(n, c)'
      BY <1>1 DEF Inv, CallInv
    <3> QED
      BY <3>1 DEF Underway, Applied
  <2>2. c.at \in {"verify", "commit"}
    BY <1>1, <2>1 DEF Steps
  <2> QED
    BY <1>1, <2>1, <2>2 DEF Going, Replaces
<1> QED
  BY <1>2, <1>3 DEF Kept, Serves, PriorNamed

LEMMA AsideStays ==
    ASSUME Inv, Inv', Aside, [Next]_vars
    PROVE  Aside'
<1>1. Working
  BY DEF Inv, TypeOK, Working
<1>2. CASE UNCHANGED <<op, container>>
  BY <1>2 DEF Aside, PriorNamed
<1>3. CASE AdapterStep
  <2> PICK o \in Operations : o = op
    BY <1>1, <1>3, StepsAreCalls, Caller
  <2>1. Turns(o)
    BY <1>1, <1>3, AdapterTurns
  <2>2. CASE op' = o /\ o.phase = "applied"
    BY <1>1, <1>2, <1>3, <2>2, AppliedRests DEF engine
  <2>3. CASE op' = o /\ o.phase # "applied"
    BY <2>3 DEF Aside
  <2>4. CASE op' = NoOp
    BY <2>4 DEF Aside
  <2>5. ASSUME NEW p \in {"staged", "recovering"}, op' = [o EXCEPT !.phase = p]
        PROVE  Aside'
    <3>1. op'.phase # "applied"
      BY <2>5, PhaseTypes
    <3> QED
      BY <3>1 DEF Aside
  <2>6. CASE o.phase = "staged" /\ Applied(o)
    BY <1>3, <2>6, AsideOnceApplied
  <2> QED
    BY <2>1, <2>2, <2>3, <2>4, <2>5, <2>6 DEF Turns
<1>4. CASE OperatorBegins
  <2>1. op' # NoOp => op'.phase # "applied"
    BY <1>4 DEF OperatorBegins, Begin
  <2> QED
    BY <2>1 DEF Aside
<1>5. CASE Recover
  <2>1. op' = NoOp \/ op' = [op EXCEPT !.phase = "recovering"]
    BY <1>5 DEF Recover, Close
  <2>2. op \in Operations
    BY <1>5 DEF Recover, Inv, TypeOK, AdapterTypeOK
  <2>3. op' # NoOp => op'.phase # "applied"
    BY <2>1, <2>2, PhaseTypes
  <2> QED
    BY <2>3 DEF Aside
<1>6. CASE PruningStep
  <2>1. op = NoOp \/ prune.at \in {"list", "check", "container", "volume"}
    BY <1>6 DEF PruningStep, PruneBegin, PruneList, PruneFails, PruneCheck, PruneContainer,
                PruneVolume
  <2>2. op = NoOp
    BY <2>1 DEF Inv, PruneInv, NoPruning
  <2>3. op' = op
    BY <1>6 DEF PruningStep, PruneBegin, PruneList, PruneFails, PruneCheck, PruneContainer,
                PruneVolume
  <2> QED
    BY <2>2, <2>3 DEF Aside
<1>7. CASE StrangersLeave /\ UNCHANGED op
  <2>1. \A v \in Volumes : container'[v] = container[v]
    BY <1>7, Identities DEF StrangersLeave, Inv, TypeOK, EngineTypeOK
  <2>2. op # NoOp /\ op.phase = "applied" /\ Replaces(op.kind) => op.prior \in Volumes
    BY <1>1, ReplacementHolds DEF Working, OperationInv, AdapterTypeOK
  <2> QED
    BY <1>7, <2>1, <2>2 DEF Aside, PriorNamed
<1>8. CASE UNCHANGED vars \/ Crash \/ (ApplicationWrites /\ UNCHANGED op)
  BY <1>2, <1>8 DEF vars, Crash, ApplicationWrites, engine
<1> QED
  BY <1>3, <1>4, <1>5, <1>6, <1>7, <1>8 DEF Next

\* A write is to what is deployed or, while that changes, to what is set aside,
\* or it is not seen: a replacement that is being made, or undone, is written
\* to by its own application only.
LEMMA WritesRefine ==
    ASSUME Inv, Inv', Aside, ApplicationWrites, UNCHANGED <<archive, store, op, call, prune>>
    PROVE  ContractStep
<1> PICK v : v = Named(Server)
  OBVIOUS
<1>1. /\ v \in Volumes /\ container[v] # NoContainer /\ container[v].running
      /\ content[v] < MaxWrites
      /\ content' = [content EXCEPT ![v] = @ + 1] /\ container' = container
      /\ UNCHANGED <<op, installed>>
  BY DEF ApplicationWrites, OwnedContainer, Exists, store
<1>2. EngineTypeOK /\ EngineTypeOK' /\ EngineInv /\ AdapterTypeOK /\ OperationInv
  BY DEF Inv, TypeOK
<1>3. container[v].name = Server /\ content[v] # Empty /\ container[v].version \in Versions
  BY <1>1, <1>2, EngineShape DEF EngineInv, Sound, Everything
<1>4. /\ content[v] \in Contents \ {Empty} /\ content'[v] = content[v] + 1
      /\ content[v] \in Nat /\ content'[v] \in Contents
  BY <1>1, <1>2, <1>3, BoundsAssumption DEF EngineTypeOK, Contents
<1>5. content'[v] # Empty /\ content'[v] > content[v]
  BY <1>1, <1>4, IdentityAssumption, BoundsAssumption DEF Contents
<1>6. \A w \in Volumes \ {v} : content'[w] = content[w]
  BY <1>1, <1>2 DEF EngineTypeOK
<1>7. /\ Current = [version |-> container[v].version, content |-> content[v]]
      /\ Current' = [version |-> container[v].version, content |-> content'[v]]
  <2>1. ServerIsCurrent /\ ServerIsCurrent'
    BY CurrentServer, Afterwards
  <2> QED
    BY <1>1, <1>3, <2>1 DEF ServerIsCurrent, Serving
<1>8. \A x \in Versions : Contract!Grows([version |-> x, content |-> content[v]],
                                         [version |-> x, content |-> content'[v]])
  BY <1>4, <1>5 DEF Contract!Grows, Contract!Deployments
<1>9. Picture /\ Picture' /\ Goal' = Goal /\ ContractStage' = ContractStage
  BY <1>1, Pictured, Afterwards DEF Goal, ContractStage
<1>10. CASE op = NoOp \/ op.phase \in {"prepared", "applied"}
  <2>1. Contract!Grows(Served, Served')
    BY <1>1, <1>3, <1>7, <1>8, <1>9, <1>10 DEF Picture
  <2>2. ASSUME op # NoOp, op.phase = "applied", Replaces(op.kind)
        PROVE  content'[op.prior] = content[op.prior]
    <3>1. /\ op \in Operations /\ op.prior \in Volumes /\ op.safety # Server
          /\ PriorNamed(op, op.safety)
      BY <1>2, <2>2, ReplacementHolds DEF AdapterTypeOK, OperationInv, Aside
    <3>2. op.prior # v
      BY <1>3, <3>1 DEF PriorNamed
    <3> QED
      BY <1>6, <3>1, <3>2
  <2>3. Spare' = Spare
    BY <1>1, <1>9, <1>10, <2>2 DEF Picture
  <2>4. Contract!Write
    BY <1>1, <1>9, <2>1, <2>3 DEF Contract!Write
  <2> QED
    BY <2>4 DEF ContractStep, Contract!Next
<1>11. CASE op # NoOp /\ op.phase \in {"staged", "recovering"}
  <2>1. /\ Served' = Served /\ ContractStage \in {"changing", "undoing"}
    BY <1>1, <1>9, <1>11 DEF Picture
  <2>2. CASE Replaces(op.kind) /\ op.prior = v
    <3>1. op.from = container[v].version
      BY <1>2, <1>11, <2>2, ReplacementHolds DEF AdapterTypeOK, OperationInv, Kept
    <3>2. Contract!Grows(Spare, Spare')
      BY <1>1, <1>3, <1>8, <1>9, <1>11, <2>2, <3>1 DEF Picture
    <3>3. Contract!Write
      BY <1>1, <1>9, <2>1, <3>2 DEF Contract!Write
    <3> QED
      BY <3>3 DEF ContractStep, Contract!Next
  <2>3. CASE ~(Replaces(op.kind) /\ op.prior = v)
    <3>1. Replaces(op.kind) => op.prior \in Volumes
      BY <1>2, <1>11, ReplacementHolds DEF AdapterTypeOK, OperationInv
    <3>2. Spare' = Spare
      BY <1>1, <1>6, <1>9, <1>11, <2>3, <3>1 DEF Picture
    <3> QED
      BY <1>1, <1>9, <2>1, <3>2 DEF ContractStep, Contract!vars
  <2> QED
    BY <2>2, <2>3
<1> QED
  BY <1>2, <1>10, <1>11, OperationTypes DEF AdapterTypeOK

-----------------------------------------------------------------------------
(* The contract.                                                           *)

LEMMA InitRefines == Init => Contract!Init
<1> SUFFICES ASSUME Init
             PROVE  Contract!Init
  OBVIOUS
<1>1. Inv /\ Picture /\ ServerIsCurrent
  BY Initially, Pictured, CurrentServer
<1>2. op = NoOp /\ installed = NoVersion
  BY DEF Init, AdapterInit
<1>3. Current = NoArchive
  BY <1>1, <1>2 DEF Inv, OperationInv, Settled, ServerIsCurrent
<1> QED
  BY <1>1, <1>2, <1>3 DEF Picture, Contract!Init, Contract!Nothing, NoArchive

LEMMA StepRefines ==
    ASSUME Inv, Inv', Aside, [Next]_vars
    PROVE  ContractStep
<1>1. CASE (OperatorBegins \/ Recover \/ AdapterStep) /\ UNCHANGED prune
  BY <1>1, BeginRefines, RecoverRefines, AdapterRefines
<1>2. CASE PruningStep
  BY <1>2, PruningRefines
<1>3. CASE (ApplicationWrites \/ StrangersLeave) /\ UNCHANGED <<archive, store, op, call, prune>>
  BY <1>3, WritesRefine, StrangersRefine
<1>4. CASE Crash \/ UNCHANGED vars
  <2>1. UNCHANGED engine /\ UNCHANGED <<op, installed>>
    BY <1>4 DEF Crash, vars, store
  <2> QED
    BY <2>1, SameEngine, RestRefines DEF engine
<1> QED
  BY <1>1, <1>2, <1>3, <1>4 DEF Next

\* Every run of the local system is a run of the contract the coordinator
\* relies on: what is served changes only when an Apply or a Recover succeeds,
\* and what was set aside meanwhile is served again with all its data.
THEOREM AdapterKeepsContract ==
    ASSUME PruningAlone PROVE Spec => ImplementsContract
<1>1. Init => Aside
  BY DEF Init, AdapterInit, Aside
<1>2. Inv /\ Inv' /\ Aside /\ [Next]_vars => Aside'
  BY AsideStays
<1>3. Inv /\ Inv' /\ Aside /\ [Next]_vars => [Contract!Next]_(Contract!vars)
  BY StepRefines DEF ContractStep
<1> QED
  BY <1>1, <1>2, <1>3, InitRefines, Invariance, PTL DEF Spec, ImplementsContract, Contract!Spec
=============================================================================
