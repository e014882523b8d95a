------------------------ MODULE RemoteTargetsProofs -------------------------
(***************************************************************************)
(* Theorems about RemoteTargets, for any number of deployments with the    *)
(* same names, whatever fails, is not answered or is misread, and wherever *)
(* the process stops.                                                      *)
(***************************************************************************)
EXTENDS RemoteTargets, TLAPS

-----------------------------------------------------------------------------
(* The inductive invariant.                                                *)

\* One adapter call at a time.
OneCall ==
    \A d, e \in Deployments : call[d] # "none" /\ call[e] # "none" => d = e

\* How far the operation of d has come.
At(d, kind, phase) == op[d] = [kind |-> kind, phase |-> phase]

\* d's adapter call takes away: it is the one of an uninstall or of recovery.
Removing(d) == op[d] # NoOp /\ op[d].phase # "applied" /\ ~At(d, "install", "staged")

\* It is the one of an uninstall or of its recovery.
Uninstalling(d) == Removing(d) /\ op[d].kind = "uninstall"

\* The steps of an install.
ApplySteps == {"check", "mkdir", "compose", "override", "env", "marker", "up", "group", "deploy",
               "poll", "database", "mark", "migrate", "worker", "expose"}

\* The steps of a removal of what is found to be owned.
RemovalSteps == {"down", "erase", "delete", "gone", "find-worker", "delete-worker", "delete-database"}

\* The operation that a step is in, and the target that it is for.
Fits(d, step) ==
    /\ step \in ApplySteps => At(d, "install", "staged")
    /\ step = "verify" => At(d, "install", "applied")
    /\ step = "commit" => op[d] # NoOp /\ op[d].phase = "applied"
    /\ step \in {"undo", "wipe"} => At(d, "install", "recovering")
    /\ step \in {"remove", "rmdir"} => op[d] = NoOp \/ Uninstalling(d)
    /\ step = "confirm" => At(d, "uninstall", "staged")
    /\ step = "no-worker" => Uninstalling(d)
    /\ step \in RemovalSteps => Removing(d)
    /\ step \in ComposeSteps => Compose
    /\ step \in AzureSteps => target = "azure"
    /\ step \in CloudflareSteps => target = "cloudflare"

\* Installs are of what is not installed, and a call without an operation is
\* the clean-up of a remnant.
Control(d) ==
    /\ op[d] # NoOp => (op[d].kind = "install" <=> ~installed[d])
    /\ op[d] = NoOp /\ call[d] # "none" => ~installed[d] /\ target = "wsl"
    /\ Fits(d, call[d])

\* No container or volume of Ranch Hand's is there.
Vacant == container \notin Deployments /\ volume \notin Deployments

\* An install has come to a step when it has written these files.
Written(d, names) ==
    directory /\ Vacant /\ \A f \in FileNames : files[f] = IF f \in names THEN d ELSE None

\* What a call knows of the host by the step it has come to.
HostKnown(d) ==
    /\ call[d] = "mkdir" => ~directory /\ Vacant
    /\ call[d] = "compose" => Written(d, {})
    /\ call[d] = "override" => Written(d, {"compose"})
    /\ call[d] = "env" => Written(d, {"compose", "override"})
    /\ call[d] = "marker" => Written(d, DeploymentFiles)
    /\ call[d] = "up" => Written(d, DeploymentFiles \cup {"marker"})
    /\ call[d] = "down" => CleanupAllowed(d)
    /\ call[d] = "erase" => files.marker = d /\ FilesOf(d) /\ NoResources
    /\ call[d] \in {"wipe", "rmdir"} => NoResources

\* What it knows of the resource group.
CloudKnown(d) ==
    /\ call[d] = "group" => group = None
    /\ call[d] \in {"deploy", "poll"} => group = d /\ ~deleting
    /\ call[d] = "verify" /\ target = "azure" => group = d /\ ~deleting
    /\ call[d] = "delete" => group \in {None, d}

\* What it knows of the account.
AccountKnown(d) ==
    /\ call[d] = "database" => database = None /\ worker = None
    /\ call[d] = "mark" => database = d /\ worker = None
    /\ call[d] \in {"migrate", "worker"} => marked = d /\ worker = None
    /\ call[d] = "expose" => marked = d /\ worker = d
    /\ call[d] = "find-worker" => marked = d
    /\ call[d] = "delete-worker" => marked = d /\ worker = d
    /\ call[d] = "delete-database" => marked = d /\ worker = None
    /\ call[d] = "no-worker" => database = None

Known(d) == HostKnown(d) /\ CloudKnown(d) /\ AccountKnown(d)

\* Nothing of d's is there.
Absent(d) ==
    /\ container # d /\ volume # d /\ \A f \in FileNames : files[f] # d
    /\ group # d /\ database # d /\ marked # d /\ worker # d

\* Everything that d was committed with is there.
Intact(d) ==
    /\ Compose => /\ container = d /\ up /\ volume = d /\ files.marker = d
                  /\ \A f \in DeploymentFiles : files[f] \in {d, Foreign}
    /\ target = "azure" => AzureDeployed(d)
    /\ target = "cloudflare" => WorkerDeployed(d)

\* The files of d, while an uninstall may have to be recovered, have their
\* marker beside them.
Evident(d) == (\E f \in DeploymentFiles : files[f] = d) => files.marker = d

\* What is left of d's between operations and when one is committed.
Left(d) ==
    /\ op[d] = NoOp => IF installed[d] THEN Intact(d) ELSE Absent(d)
    /\ call[d] = "commit" => IF installed[d] THEN Absent(d) ELSE Intact(d)
    /\ op[d] # NoOp /\ op[d].kind = "uninstall" => Evident(d)
    /\ deleting /\ group = d => op[d] # NoOp

\* A container or a volume of d's has the marker and the files of d beside it;
\* a marker has its files beside it or is alone.
HostSound ==
    /\ ~directory => \A f \in FileNames : files[f] = None
    /\ files.marker # Foreign /\ files.override # Foreign /\ files.other \in {None, Foreign}
    /\ files.compose = Foreign => files.override = None /\ files.env = None /\ files.marker = None
    /\ \A d \in Deployments :
          /\ container = d \/ volume = d => files.marker = d /\ files.compose = d
          /\ files.marker = d =>
                \/ files.compose = d /\ files.override = d /\ files.env \in {d, Foreign}
                \/ files.compose = None /\ files.override = None /\ files.env = None
    /\ files.env = Foreign => container \in Deployments /\ container = files.marker
    /\ ~Compose => ~directory /\ container = None /\ volume = None

\* A group that is being deleted is an operation's.
CloudSound ==
    /\ group = None => ~deleting /\ arm = "none"
    /\ deleting => group \in Deployments
    /\ target # "azure" => group = None

\* The marker is in a database of its owner's, and a Worker of Ranch Hand's is
\* bound to the one with its marker.
AccountSound ==
    /\ marked # None => database = marked
    /\ worker \in Deployments => marked = worker
    /\ target # "cloudflare" => database = None /\ worker = None

Sound == HostSound /\ CloudSound /\ AccountSound

Inv ==
    /\ TypeOK /\ OneCall /\ Sound
    /\ \A d \in Deployments : Control(d) /\ Known(d) /\ Left(d)

\* A step of d's: the control of the others stays as it is.
Only(d) ==
    /\ target' = target
    /\ \A e \in Deployments \ {d} :
          op'[e] = op[e] /\ call'[e] = call[e] /\ installed'[e] = installed[e]

\* A step of d's leaves what the invariant says of what others have, and brings
\* nothing of theirs.
Spared(d) ==
    \A e \in Deployments \ {d} :
        /\ Intact(e) => Intact(e)'
        /\ Absent(e) => Absent(e)'
        /\ Evident(e) => Evident(e)'
        /\ deleting' /\ group' = e => deleting /\ group = e

\* It brings nothing of d's own either where there is nothing to be, and no
\* files without their marker where there are none.
Tidy(d) ==
    /\ op[d] = NoOp /\ Absent(d) => Absent(d)'
    /\ op[d] # NoOp /\ op[d].kind = "uninstall" /\ Evident(d) => Evident(d)'
    /\ deleting' /\ group' = d => op[d] # NoOp

\* What a step may do to the target.
Effect(d) == Sound' /\ Spared(d) /\ Tidy(d) /\ Untouched(d)

-----------------------------------------------------------------------------
(* Types.                                                                  *)

AdapterSteps == ComposeSteps \cup AzureSteps \cup CloudflareSteps

CallSteps == AdapterSteps \cup {"none", "check", "verify", "commit", "undo", "remove"}

\* A call that goes on.
LEMMA GoType ==
    ASSUME OperationTypeOK(AdapterSteps), NEW d \in Deployments, NEW s \in CallSteps, Go(d, s)
    PROVE  OperationTypeOK(AdapterSteps)' /\ Only(d) /\ op' = op /\ installed' = installed /\ call'[d] = s
BY DEF OperationTypeOK, Go, Only, CallSteps

\* An error that is recovered.
LEMMA RecoveringType ==
    ASSUME OperationTypeOK(AdapterSteps), NEW d \in Deployments, op[d] # NoOp, Recovering(d)
    PROVE  /\ OperationTypeOK(AdapterSteps)' /\ Only(d) /\ installed' = installed
           /\ op'[d] = [kind |-> op[d].kind, phase |-> "recovering"]
           /\ call'[d] = RecoverStep(op[d].kind)
<1>1. op[d] \in Operations
  BY DEF OperationTypeOK
<1>2. [op[d] EXCEPT !.phase = "recovering"] = [kind |-> op[d].kind, phase |-> "recovering"]
  BY <1>1 DEF Operations
<1>3. op' = [op EXCEPT ![d] = [kind |-> op[d].kind, phase |-> "recovering"]]
  BY <1>2 DEF Recovering, OperationTypeOK
<1>4. op' \in [Deployments -> Operations \cup {NoOp}] /\ op'[d] = [kind |-> op[d].kind, phase |-> "recovering"]
  BY <1>1, <1>3 DEF OperationTypeOK, Operations
<1>5. RecoverStep(op[d].kind) \in {"undo", "remove"}
  BY DEF RecoverStep
<1>6. call' \in [Deployments -> CallSteps] /\ call'[d] = RecoverStep(op[d].kind)
  BY <1>5 DEF Recovering, OperationTypeOK, CallSteps
<1>7. Only(d)
  BY <1>3 DEF Recovering, OperationTypeOK, Only
<1> QED
  BY <1>4, <1>6, <1>7 DEF Recovering, OperationTypeOK, CallSteps

\* An error that is reported or recovered.
LEMMA FailType ==
    ASSUME OperationTypeOK(AdapterSteps), NEW d \in Deployments, Fail(d)
    PROVE  OperationTypeOK(AdapterSteps)' /\ Only(d) /\ installed' = installed
<1>1. CASE op[d] = NoOp \/ op[d].phase = "recovering"
  <2>1. Go(d, "none")
    BY <1>1 DEF Fail
  <2> QED
    BY <2>1, GoType DEF CallSteps
<1>2. CASE op[d] # NoOp /\ op[d].phase # "recovering"
  BY <1>2, RecoveringType DEF Fail
<1> QED
  BY <1>1, <1>2

\* A call that returns without an error.
LEMMA SucceedType ==
    ASSUME OperationTypeOK(AdapterSteps), NEW d \in Deployments, Succeed(d)
    PROVE  OperationTypeOK(AdapterSteps)' /\ Only(d)
<1>1. CASE op[d] = NoOp
  <2>1. Go(d, "none")
    BY <1>1 DEF Succeed
  <2> QED
    BY <2>1, GoType DEF CallSteps
<1>2. CASE op[d] # NoOp /\ op[d].phase = "recovering"
  BY <1>2 DEF Succeed, Close, OperationTypeOK, Only
<1>3. CASE op[d] # NoOp /\ op[d].phase # "recovering"
  <2>1. op[d] \in Operations
    BY <1>3 DEF OperationTypeOK
  <2>2. [op[d] EXCEPT !.phase = "applied"] \in Operations
    BY <2>1 DEF Operations
  <2>3. op' = [op EXCEPT ![d] = [op[d] EXCEPT !.phase = "applied"]]
    BY <1>3 DEF Succeed, OperationTypeOK
  <2>4. op' \in [Deployments -> Operations \cup {NoOp}]
    BY <2>2, <2>3 DEF OperationTypeOK
  <2>5. call' = [call EXCEPT ![d] = IF op[d].kind = "install" THEN "verify" ELSE "commit"]
        /\ target' = target /\ installed' = installed
    BY <1>3 DEF Succeed
  <2> QED
    BY <2>3, <2>4, <2>5 DEF OperationTypeOK, Only
<1> QED
  BY <1>1, <1>2, <1>3

-----------------------------------------------------------------------------
(* Control.                                                                *)

\* An operation is not the value that stands for none.
LEMMA OperationIsNotNoOp ==
    \A k, p : [kind |-> k, phase |-> p] \in Operations => [kind |-> k, phase |-> p] # NoOp
BY NoOpAssumption

\* After an error the call is over, or the operation is being recovered by the
\* first step of its kind's recovery, which knows nothing yet.
LEMMA FailControl ==
    ASSUME OperationTypeOK(AdapterSteps), NEW d \in Deployments, Control(d), call[d] # "none",
           Fail(d)
    PROVE  /\ Control(d)' /\ Known(d)'
           /\ Left(d) /\ Tidy(d) => Left(d)'
<1>1. CASE op[d] = NoOp \/ op[d].phase = "recovering"
  <2>1. Go(d, "none")
    BY <1>1 DEF Fail
  <2>2. op' = op /\ call'[d] = "none" /\ installed' = installed
    BY <2>1, GoType DEF CallSteps
  <2>3. Control(d)'
    BY <2>2 DEF Control, Fits, ApplySteps, RemovalSteps, ComposeSteps, AzureSteps, CloudflareSteps
  <2>4. Known(d)'
    BY <2>2 DEF Known, HostKnown, CloudKnown, AccountKnown
  <2>5. Left(d) /\ Tidy(d) => Left(d)'
    BY <2>2 DEF Left, Tidy, Control
  <2> QED
    BY <2>3, <2>4, <2>5
<1>2. CASE op[d] # NoOp /\ op[d].phase # "recovering"
  <2>1. op[d] \in Operations
    BY <1>2 DEF OperationTypeOK
  <2> DEFINE k == op[d].kind
  <2>2. k \in {"install", "uninstall"}
    BY <2>1 DEF Operations
  <2>3. /\ op'[d] = [kind |-> k, phase |-> "recovering"] /\ installed' = installed
        /\ call'[d] = IF k = "install" THEN "undo" ELSE "remove"
    BY <1>2, RecoveringType DEF Fail, RecoverStep
  <2>4. op'[d] # NoOp /\ op'[d].kind = k /\ op'[d].phase = "recovering"
    BY <2>2, <2>3, OperationIsNotNoOp DEF Operations
  <2>5. op'[d].kind = "install" <=> ~installed'[d]
    BY <1>2, <2>3, <2>4 DEF Control
  <2> HIDE DEF k
  <2>6. Control(d)'
    BY <2>2, <2>3, <2>4, <2>5
    DEF Control, Fits, At, Uninstalling, Removing, ApplySteps, RemovalSteps, ComposeSteps, AzureSteps, CloudflareSteps
  <2>7. Known(d)'
    BY <2>3 DEF Known, HostKnown, CloudKnown, AccountKnown
  <2>8. Left(d) /\ Tidy(d) => Left(d)'
    BY <1>2, <2>3, <2>4 DEF Left, Tidy, k
  <2> QED
    BY <2>6, <2>7, <2>8
<1> QED
  BY <1>1, <1>2

\* A call of an install that returns is followed by its verification; any other
\* is over, or committed, and has left nothing.
LEMMA SucceedControl ==
    ASSUME OperationTypeOK(AdapterSteps), NEW d \in Deployments, Control(d), call[d] # "none",
           Succeed(d),
           op[d] # NoOp => op[d].phase # "applied",
           At(d, "install", "staged") /\ target = "azure" => group' = d /\ ~deleting',
           ~At(d, "install", "staged") => Absent(d)'
    PROVE  Control(d)' /\ Known(d)' /\ Left(d)'
<1>1. CASE op[d] = NoOp
  <2>1. Go(d, "none")
    BY <1>1 DEF Succeed
  <2>2. op' = op /\ call'[d] = "none" /\ installed' = installed
    BY <2>1, GoType DEF CallSteps
  <2>3. ~At(d, "install", "staged")
    BY <1>1, OperationIsNotNoOp DEF At, Operations
  <2>4. Control(d)' /\ Known(d)'
    BY <1>1, <2>2 DEF Control, Fits, ApplySteps, RemovalSteps, ComposeSteps, AzureSteps, CloudflareSteps,
                      Known, HostKnown, CloudKnown, AccountKnown
  <2>5. Left(d)'
    BY <1>1, <2>2, <2>3 DEF Left, Control, Absent
  <2> QED
    BY <2>4, <2>5
<1>2. CASE op[d] # NoOp /\ op[d].phase = "recovering"
  <2>1. op'[d] = NoOp /\ call'[d] = "none" /\ installed'[d] = FALSE
    BY <1>2 DEF Succeed, Close, OperationTypeOK
  <2>2. ~At(d, "install", "staged")
    BY <1>2 DEF At
  <2>3. Control(d)' /\ Known(d)'
    BY <2>1 DEF Control, Fits, ApplySteps, RemovalSteps, ComposeSteps, AzureSteps, CloudflareSteps,
                Known, HostKnown, CloudKnown, AccountKnown
  <2>4. Left(d)'
    BY <2>1, <2>2 DEF Left, Absent
  <2> QED
    BY <2>3, <2>4
<1>3. CASE op[d] # NoOp /\ op[d].phase = "staged"
  <2>1. op[d] \in Operations
    BY <1>3 DEF OperationTypeOK
  <2> DEFINE k == op[d].kind
  <2>2. k \in {"install", "uninstall"} /\ op[d] = [kind |-> k, phase |-> "staged"]
    BY <1>3, <2>1 DEF Operations
  <2>3. [op[d] EXCEPT !.phase = "applied"] = [kind |-> k, phase |-> "applied"]
    BY <2>1 DEF Operations
  <2>4. /\ op'[d] = [kind |-> k, phase |-> "applied"]
        /\ call'[d] = IF k = "install" THEN "verify" ELSE "commit"
        /\ installed' = installed /\ target' = target
    BY <1>3, <2>3 DEF Succeed, OperationTypeOK
  <2>5. op'[d] # NoOp /\ op'[d].kind = k /\ op'[d].phase = "applied"
    BY <2>2, <2>4, OperationIsNotNoOp DEF Operations
  <2>6. k = "install" <=> ~installed[d]
    BY <1>3 DEF Control
  <2>7. k = "install" <=> At(d, "install", "staged")
    BY <2>2 DEF At
  <2> HIDE DEF k
  <2>8. Control(d)'
    BY <2>2, <2>4, <2>5, <2>6
    DEF Control, Fits, At, ApplySteps, RemovalSteps, ComposeSteps, AzureSteps, CloudflareSteps
  <2>9. Known(d)'
    BY <2>4, <2>7 DEF Known, HostKnown, CloudKnown, AccountKnown
  <2>10. Left(d)'
    BY <2>2, <2>4, <2>5, <2>6, <2>7 DEF Left, Absent, Evident, DeploymentFiles, FileNames
  <2> QED
    BY <2>8, <2>9, <2>10
<1> QED
  BY <1>1, <1>2, <1>3 DEF OperationTypeOK, Operations

\* A call that goes on with a step that fits.
LEMMA GoControl ==
    ASSUME OperationTypeOK(AdapterSteps), NEW d \in Deployments, Control(d), Left(d), Tidy(d),
           call[d] # "none",
           NEW s \in CallSteps \ {"commit"}, Go(d, s), Fits(d, s)
    PROVE  Control(d)' /\ Left(d)' /\ call'[d] = s
<1>1. op' = op /\ installed' = installed /\ call'[d] = s /\ target' = target
  BY GoType DEF Go
<1>2. Control(d)'
  BY <1>1 DEF Control, Fits, At, Uninstalling, Removing, Compose
<1>3. Left(d)'
  BY <1>1 DEF Left, Tidy, Control
<1> QED
  BY <1>1, <1>2, <1>3

-----------------------------------------------------------------------------
(* Effects.                                                                *)

\* A request that only looks, or has no effect.
LEMMA NoEffect ==
    ASSUME Sound, NEW d \in Deployments, Left(d), target' = target,
           UNCHANGED <<host, cloud, account>>
    PROVE  Effect(d)
<1> USE DEF host, cloud, account
<1>1. Sound'
  BY DEF Sound, HostSound, CloudSound, AccountSound, Compose, NoFiles
<1>2. Spared(d)
  BY DEF Spared, Intact, Absent, Evident, AzureDeployed, Serving, WorkerDeployed, Compose
<1>3. Tidy(d)
  BY DEF Tidy, Absent, Evident, Left
<1>4. Untouched(d)
  BY DEF Untouched, NoResources
<1> QED
  BY <1>1, <1>2, <1>3, <1>4 DEF Effect

\* What is done on a host leaves the other targets sound.
LEMMA OnHost ==
    ASSUME Sound, target' = target, UNCHANGED <<cloud, account>>
    PROVE  CloudSound' /\ AccountSound'
BY DEF Sound, CloudSound, AccountSound, cloud, account

LEMMA MakeDirectoryEffect ==
    ASSUME TypeOK, Sound, NEW d \in Deployments, Control(d), Known(d), Left(d), target' = target,
           call[d] = "mkdir",
           directory' = TRUE, UNCHANGED <<files, container, volume, up, cloud, account>>
    PROVE  Effect(d)
<1>1. Compose /\ HostKnown(d)
  BY DEF Control, Fits, Known, ComposeSteps
<1>2. HostSound'
  BY <1>1 DEF Sound, HostSound, Compose
<1>3. Spared(d)
  BY DEF Spared, Intact, Absent, Evident, AzureDeployed, Serving, WorkerDeployed, Compose, cloud, account
<1>4. Tidy(d)
  BY DEF Tidy, Absent, Evident, Left, cloud, account
<1>5. Untouched(d)
  BY DEF Untouched, NoResources, cloud, account
<1> QED
  BY <1>2, <1>3, <1>4, <1>5, OnHost DEF Effect, Sound

LEMMA WriteFileEffect ==
    ASSUME TypeOK, Sound, NEW d \in Deployments, Control(d), Known(d), Left(d), target' = target,
           call[d] \in {"compose", "override", "env", "marker"},
           files' = [files EXCEPT ![call[d]] = d],
           UNCHANGED <<directory, container, volume, up, cloud, account>>
    PROVE  /\ Effect(d)
           /\ call[d] = "compose" => Written(d, {"compose"})'
           /\ call[d] = "override" => Written(d, {"compose", "override"})'
           /\ call[d] = "env" => Written(d, DeploymentFiles)'
           /\ call[d] = "marker" => Written(d, DeploymentFiles \cup {"marker"})'
<1> USE OwnersAssumption DEF FileNames, DeploymentFiles
<1>1. Compose /\ HostKnown(d) /\ op[d] # NoOp /\ op[d].kind = "install"
  BY OperationIsNotNoOp DEF Control, Fits, Known, ComposeSteps, ApplySteps, At, Operations
<1>2. /\ files \in [FileNames -> Owners \cup {None}]
      /\ \A f \in FileNames : files'[f] = IF f = call[d] THEN d ELSE files[f]
  BY DEF TypeOK, HostTypeOK
<1>3. /\ call[d] = "compose" => Written(d, {"compose"})'
      /\ call[d] = "override" => Written(d, {"compose", "override"})'
      /\ call[d] = "env" => Written(d, DeploymentFiles)'
      /\ call[d] = "marker" => Written(d, DeploymentFiles \cup {"marker"})'
  BY <1>1, <1>2 DEF HostKnown, Written, Vacant
<1>4. HostSound'
  BY <1>1, <1>2, <1>3 DEF Sound, HostSound, Compose, Written, Vacant, HostKnown
<1>5. Spared(d)
  BY <1>1, <1>2
  DEF Spared, Intact, Absent, Evident, AzureDeployed, Serving, WorkerDeployed, Compose, cloud, account,
      HostKnown, Written, Vacant
<1>6. Tidy(d)
  BY <1>1 DEF Tidy, Left, cloud
<1>7. Untouched(d)
  BY <1>1, <1>2 DEF Untouched, NoResources, cloud, account, HostKnown, Written
<1> QED
  BY <1>3, <1>4, <1>5, <1>6, <1>7, OnHost DEF Effect, Sound

LEMMA ComposeUpEffect ==
    ASSUME TypeOK, Sound, NEW d \in Deployments, Control(d), Known(d), Left(d), target' = target,
           call[d] = "up", CreateVolume,
           \/ container' = files.override /\ up' = TRUE /\ container # Foreign
           \/ container' \in {container, IF container = None THEN files.override ELSE container} /\ up' = up,
           UNCHANGED <<directory, files, cloud, account>>
    PROVE  Effect(d)
<1> USE OwnersAssumption DEF FileNames, DeploymentFiles
<1>1. Compose /\ HostKnown(d) /\ op[d] # NoOp /\ op[d].kind = "install"
  BY OperationIsNotNoOp DEF Control, Fits, Known, ComposeSteps, ApplySteps, At, Operations
<1>2. /\ directory /\ container \in {None, Foreign} /\ volume \in {None, Foreign}
      /\ files.compose = d /\ files.override = d /\ files.env = d /\ files.marker = d /\ files.other = None
  BY <1>1 DEF HostKnown, Written, Vacant, TypeOK, HostTypeOK, Owners
<1>3. container' \in {container, d} /\ volume' = (IF volume = None THEN d ELSE volume)
      /\ (container' # container => container = None)
  BY <1>2 DEF CreateVolume
<1>4. HostSound'
  BY <1>1, <1>2, <1>3 DEF Sound, HostSound, Compose
<1>5. Spared(d)
  BY <1>1, <1>2, <1>3
  DEF Spared, Intact, Absent, Evident, Compose, cloud, account
<1>6. Tidy(d)
  BY <1>1 DEF Tidy, Left, cloud
<1>7. Untouched(d)
  BY <1>1, <1>2, <1>3 DEF Untouched, NoResources, cloud, account
<1> QED
  BY <1>4, <1>5, <1>6, <1>7, OnHost DEF Effect, Sound

\* The project's container goes, and with the last step its volume.
LEMMA ComposeDownEffect ==
    ASSUME TypeOK, Sound, NEW d \in Deployments, Control(d), Known(d), Left(d), target' = target,
           call[d] = "down", container' = (IF container = Foreign THEN Foreign ELSE None),
           volume' \in {None, volume}, up' = FALSE,
           UNCHANGED <<directory, files, cloud, account>>
    PROVE  Effect(d) /\ container' = None
<1> USE OwnersAssumption DEF FileNames, DeploymentFiles
<1>1. Compose /\ HostKnown(d)
  BY DEF Control, Fits, Known, ComposeSteps
<1>2. /\ container \in {None, d} /\ volume \in {None, d} /\ container' = None
      /\ files.compose = d /\ files.override = d /\ files.env = d /\ files.marker = d
  BY <1>1 DEF HostKnown, CleanupAllowed, FilesOf
<1>3. HostSound'
  BY <1>1, <1>2 DEF Sound, HostSound, Compose
<1>4. Spared(d)
  BY <1>1, <1>2 DEF Spared, Intact, Absent, Evident, Compose, cloud, account
<1>5. Tidy(d)
  BY <1>1, <1>2 DEF Tidy, Absent, Evident, Left, cloud, account
<1>6. Untouched(d)
  BY <1>1, <1>2 DEF Untouched, NoResources, cloud, account
<1> QED
  BY <1>2, <1>3, <1>4, <1>5, <1>6, OnHost DEF Effect, Sound

\* Files go, and the directory when it is empty.
LEMMA DiscardFiles ==
    ASSUME TypeOK, HostSound, NEW names \in SUBSET FileNames, Discard(names)
    PROVE  /\ \A f \in FileNames : files'[f] = IF f \in names THEN None ELSE files[f]
           /\ ~directory' => \A f \in FileNames : files'[f] = None
           /\ UNCHANGED <<container, volume, up>>
<1>1. files' = [f \in FileNames |-> IF f \in names THEN None ELSE files[f]]
  BY DEF Discard
<1>2. ~directory' => ~directory \/ files' = NoFiles
  BY DEF Discard
<1>3. ~directory => \A f \in FileNames : files[f] = None
  BY DEF HostSound
<1> QED
  BY <1>1, <1>2, <1>3 DEF Discard, NoFiles

\* What a removal discards is d's, of nobody that has anything else there, or
\* nothing.
LEMMA DiscardEffect ==
    ASSUME TypeOK, Sound, NEW d \in Deployments, Control(d), Known(d), Left(d), target' = target,
           NEW names \in SUBSET FileNames, Discard(names),
           \/ call[d] = "erase" /\ names = FileNames \ {"other"}
           \/ call[d] = "wipe" /\ names = DeploymentFiles
           \/ call[d] = "rmdir" /\ names = {},
           UNCHANGED <<cloud, account>>
    PROVE  Effect(d)
<1> USE OwnersAssumption DEF FileNames, DeploymentFiles
<1>1. Compose /\ HostKnown(d)
  BY DEF Control, Fits, Known, ComposeSteps
<1>2. NoResources
  BY <1>1 DEF HostKnown
<1>3. call[d] = "erase" => files.marker = d /\ files.compose = d /\ files.override = d /\ files.env = d
  BY <1>1 DEF HostKnown, FilesOf
<1>4. /\ \A f \in FileNames : files'[f] = IF f \in names THEN None ELSE files[f]
      /\ ~directory' => \A f \in FileNames : files'[f] = None
      /\ UNCHANGED <<container, volume, up>>
  BY DiscardFiles DEF Sound
<1>5. HostSound'
  BY <1>1, <1>2, <1>3, <1>4 DEF Sound, HostSound, Compose, NoResources
<1>6. Spared(d)
  BY <1>1, <1>2, <1>3, <1>4 DEF Spared, Intact, Absent, Evident, Compose, cloud, account, NoResources
<1>7. Tidy(d)
  BY <1>1, <1>2, <1>3, <1>4 DEF Tidy, Absent, Evident, Left, cloud, account
<1>8. Untouched(d)
  BY <1>1, <1>2, <1>3, <1>4 DEF Untouched, NoResources, cloud, account
<1> QED
  BY <1>5, <1>6, <1>7, <1>8, OnHost DEF Effect, Sound

\* What is done in a subscription or an account leaves the hosts sound.
LEMMA OffHost ==
    ASSUME Sound, target' = target, UNCHANGED host
    PROVE  HostSound'
BY DEF Sound, HostSound, Compose, host

LEMMA CreateGroupEffect ==
    ASSUME TypeOK, Sound, NEW d \in Deployments, Control(d), Known(d), Left(d), target' = target,
           call[d] = "group", group' = d, UNCHANGED <<arm, deleting, host, account>>
    PROVE  Effect(d) /\ ~deleting'
<1>1. target = "azure" /\ group = None /\ ~deleting /\ op[d] # NoOp
  BY OperationIsNotNoOp
  DEF Control, Fits, Known, CloudKnown, AzureSteps, ApplySteps, At, Operations, Sound, CloudSound
<1>2. CloudSound' /\ AccountSound'
  BY <1>1, OwnersAssumption DEF Sound, CloudSound, AccountSound, account
<1>3. Spared(d)
  BY <1>1, OwnersAssumption
  DEF Spared, Intact, Absent, Evident, AzureDeployed, Serving, WorkerDeployed, Compose, host, account
<1>4. Tidy(d)
  BY <1>1 DEF Tidy, Evident, Left, host
<1>5. Untouched(d)
  BY <1>1 DEF Untouched, host, account
<1> QED
  BY <1>1, <1>2, <1>3, <1>4, <1>5, OffHost DEF Effect, Sound

LEMMA StartDeploymentEffect ==
    ASSUME TypeOK, Sound, NEW d \in Deployments, Control(d), Known(d), Left(d), target' = target,
           call[d] = "deploy", arm' = "running", UNCHANGED <<group, deleting, host, account>>
    PROVE  Effect(d)
<1>1. target = "azure" /\ group = d /\ ~deleting
  BY DEF Control, Fits, Known, CloudKnown, AzureSteps, ApplySteps
<1>2. CloudSound' /\ AccountSound'
  BY <1>1, OwnersAssumption DEF Sound, CloudSound, AccountSound, account
<1>3. Spared(d)
  BY <1>1, OwnersAssumption
  DEF Spared, Intact, Absent, Evident, AzureDeployed, Serving, WorkerDeployed, Compose, host, account
<1>4. Tidy(d)
  BY <1>1 DEF Tidy, Absent, Evident, Left, host, account
<1>5. Untouched(d)
  BY <1>1 DEF Untouched, host, account
<1> QED
  BY <1>2, <1>3, <1>4, <1>5, OffHost DEF Effect, Sound

LEMMA DeleteGroupEffect ==
    ASSUME TypeOK, Sound, NEW d \in Deployments, Control(d), Known(d), Left(d), target' = target,
           call[d] = "delete", group # None, deleting' = TRUE, UNCHANGED <<group, arm, host, account>>
    PROVE  Effect(d)
<1>1. target = "azure" /\ group = d /\ op[d] # NoOp
  BY DEF Control, Fits, Known, CloudKnown, AzureSteps, RemovalSteps, Removing
<1>2. CloudSound' /\ AccountSound'
  BY <1>1, OwnersAssumption DEF Sound, CloudSound, AccountSound, account
<1>3. Spared(d)
  BY <1>1, OwnersAssumption
  DEF Spared, Intact, Absent, Evident, AzureDeployed, Serving, WorkerDeployed, Compose, host, account
<1>4. Tidy(d)
  BY <1>1 DEF Tidy, Absent, Evident, Left, host, account
<1>5. Untouched(d)
  BY <1>1 DEF Untouched, host, account
<1> QED
  BY <1>2, <1>3, <1>4, <1>5, OffHost DEF Effect, Sound

\* What the steps of an install write in an account that has none of it.
LEMMA AccountWritten ==
    ASSUME TypeOK, Sound, NEW d \in Deployments, Control(d), Known(d), Left(d), target' = target,
           UNCHANGED <<host, cloud>>,
           \/ call[d] = "database" /\ database = None /\ database' = d /\ UNCHANGED <<marked, worker, exposed>>
           \/ call[d] = "mark" /\ marked' = d /\ UNCHANGED <<database, worker, exposed>>
           \/ call[d] = "worker" /\ worker' = d /\ exposed' = FALSE /\ UNCHANGED <<database, marked>>
           \/ call[d] = "expose" /\ exposed' = TRUE /\ UNCHANGED <<database, marked, worker>>
    PROVE  Effect(d)
<1>1. target = "cloudflare" /\ op[d] # NoOp /\ AccountKnown(d)
  BY OperationIsNotNoOp DEF Control, Fits, Known, CloudflareSteps, ApplySteps, At, Operations
<1>2. database \in {None, d} /\ marked \in {None, d} /\ worker \in {None, d}
  BY <1>1, OwnersAssumption DEF AccountKnown, Sound, AccountSound
<1>3. AccountSound' /\ CloudSound'
  BY <1>1, OwnersAssumption DEF Sound, CloudSound, AccountSound, AccountKnown, cloud
<1>4. Spared(d)
  BY <1>1, <1>2, OwnersAssumption DEF Spared, Intact, Absent, Evident, WorkerDeployed, Compose, host, cloud
<1>5. Tidy(d)
  BY <1>1 DEF Tidy, Evident, Left, host, cloud
<1>6. Untouched(d)
  BY <1>2 DEF Untouched, host, cloud
<1> QED
  BY <1>3, <1>4, <1>5, <1>6, OffHost DEF Effect, Sound

\* What a removal takes away there: the Worker, then the database.
LEMMA AccountEmptied ==
    ASSUME TypeOK, Sound, NEW d \in Deployments, Control(d), Known(d), Left(d), target' = target,
           UNCHANGED <<host, cloud>>,
           \/ call[d] = "delete-worker" /\ worker' = None /\ exposed' = FALSE /\ UNCHANGED <<database, marked>>
           \/ call[d] = "delete-database" /\ database' = None /\ marked' = None /\ UNCHANGED <<worker, exposed>>
    PROVE  Effect(d)
<1>1. target = "cloudflare" /\ op[d] # NoOp /\ AccountKnown(d)
  BY DEF Control, Fits, Known, CloudflareSteps, RemovalSteps, Removing
<1>2. database = d /\ marked = d /\ worker \in {None, d}
  BY <1>1, OwnersAssumption DEF AccountKnown, Sound, AccountSound
<1>3. AccountSound' /\ CloudSound'
  BY <1>1, <1>2, OwnersAssumption DEF Sound, CloudSound, AccountSound, AccountKnown, cloud
<1>4. Spared(d)
  BY <1>1, <1>2, OwnersAssumption DEF Spared, Intact, Absent, Evident, WorkerDeployed, Compose, host, cloud
<1>5. Tidy(d)
  BY <1>1 DEF Tidy, Evident, Left, host, cloud
<1>6. Untouched(d)
  BY <1>2 DEF Untouched, host, cloud
<1> QED
  BY <1>3, <1>4, <1>5, <1>6, OffHost DEF Effect, Sound

-----------------------------------------------------------------------------
(* The steps of a call.                                                    *)

\* What a step of d's call starts from.
Ready(d) ==
    TypeOK /\ Sound /\ Control(d) /\ Known(d) /\ Left(d) /\ call[d] # "none"

\* What it leads to.
Good(d) ==
    /\ OperationTypeOK(AdapterSteps)' /\ Only(d)
    /\ Control(d)' /\ Known(d)' /\ Left(d)' /\ Effect(d)

\* The call goes on.
LEMMA WentOn ==
    ASSUME NEW d \in Deployments, Ready(d), NEW s \in CallSteps \ {"commit"}, Go(d, s), Fits(d, s),
           target' = target => Effect(d),
           target' = target /\ call'[d] = s => Known(d)'
    PROVE  Good(d)
<1>1. OperationTypeOK(AdapterSteps)
  BY DEF Ready, TypeOK, AdapterSteps
<1>2. OperationTypeOK(AdapterSteps)' /\ Only(d) /\ call'[d] = s
  BY <1>1, GoType
<1>3. Effect(d) /\ Known(d)'
  BY <1>2 DEF Only
<1>4. Control(d)' /\ Left(d)'
  BY <1>1, <1>3, GoControl DEF Ready, Effect
<1> QED
  BY <1>2, <1>3, <1>4 DEF Good

\* The call returns an error.
LEMMA Failed ==
    ASSUME NEW d \in Deployments, Ready(d), Fail(d), target' = target => Effect(d)
    PROVE  Good(d)
<1>1. OperationTypeOK(AdapterSteps)
  BY DEF Ready, TypeOK, AdapterSteps
<1>2. OperationTypeOK(AdapterSteps)' /\ Only(d)
  BY <1>1, FailType
<1>3. Effect(d)
  BY <1>2 DEF Only
<1>4. Control(d)' /\ Known(d)' /\ Left(d)'
  BY <1>1, <1>3, FailControl DEF Ready, Effect
<1> QED
  BY <1>2, <1>3, <1>4 DEF Good

\* The call returns without one.
LEMMA Returned ==
    ASSUME NEW d \in Deployments, Ready(d), Succeed(d), target' = target => Effect(d),
           op[d] # NoOp => op[d].phase # "applied",
           At(d, "install", "staged") /\ target = "azure" => group' = d /\ ~deleting',
           ~At(d, "install", "staged") => Absent(d)'
    PROVE  Good(d)
<1>1. OperationTypeOK(AdapterSteps)
  BY DEF Ready, TypeOK, AdapterSteps
<1>2. OperationTypeOK(AdapterSteps)' /\ Only(d)
  BY <1>1, SucceedType
<1>3. Effect(d)
  BY <1>2 DEF Only
<1>4. Control(d)' /\ Known(d)' /\ Left(d)'
  BY <1>1, SucceedControl DEF Ready
<1> QED
  BY <1>2, <1>3, <1>4 DEF Good

\* An install that was verified is committed.
LEMMA Verified ==
    ASSUME NEW d \in Deployments, Ready(d), call[d] = "verify", Go(d, "commit"), Intact(d),
           UNCHANGED <<host, cloud, account>>
    PROVE  Good(d)
<1>1. OperationTypeOK(AdapterSteps)
  BY DEF Ready, TypeOK, AdapterSteps
<1>2. /\ OperationTypeOK(AdapterSteps)' /\ Only(d) /\ call'[d] = "commit"
      /\ op' = op /\ installed' = installed /\ target' = target
  BY <1>1, GoType DEF CallSteps, Go
<1>3. Effect(d)
  BY <1>2, NoEffect DEF Ready
<1>4. op[d] = [kind |-> "install", phase |-> "applied"] /\ op[d] # NoOp
  BY OperationIsNotNoOp DEF Ready, Control, Fits, At, Operations
<1>5. op[d].kind = "install" /\ op[d].phase = "applied" /\ ~installed[d]
  BY <1>4 DEF Ready, Control
<1>6. Control(d)'
  BY <1>2, <1>4, <1>5
  DEF Control, Fits, ApplySteps, RemovalSteps, ComposeSteps, AzureSteps, CloudflareSteps
<1>7. Known(d)'
  BY <1>2 DEF Known, HostKnown, CloudKnown, AccountKnown
<1>8. Intact(d)'
  BY <1>2 DEF Intact, Compose, AzureDeployed, Serving, WorkerDeployed, host, cloud, account
<1>9. Left(d)'
  BY <1>2, <1>4, <1>5, <1>8 DEF Left
<1> QED
  BY <1>2, <1>3, <1>6, <1>7, <1>9 DEF Good

\* A step that only looks.
LEMMA OnlyLooks ==
    ASSUME NEW d \in Deployments, Ready(d), UNCHANGED <<host, cloud, account>>
    PROVE  target' = target => Effect(d)
BY NoEffect DEF Ready

\* In a phase but "applied", and not both to apply and to remove.
LEMMA StagedOrRemoving ==
    ASSUME NEW d \in Deployments, Control(d)
    PROVE  /\ call[d] \in ApplySteps => At(d, "install", "staged") /\ op[d] # NoOp /\ op[d].phase # "applied"
           /\ call[d] \in RemovalSteps \cup {"undo", "wipe", "remove", "rmdir", "confirm", "no-worker"} =>
                 ~At(d, "install", "staged") /\ (op[d] # NoOp => op[d].phase # "applied")
<1>1. \A k \in {"install", "uninstall"}, p \in {"staged", "applied", "recovering"} :
         [kind |-> k, phase |-> p] # NoOp
  BY OperationIsNotNoOp DEF Operations
<1> QED
  BY <1>1 DEF Control, Fits, At, Removing, Uninstalling, ApplySteps, RemovalSteps

-----------------------------------------------------------------------------
(* On a host.                                                              *)

LEMMA ComposeCheckStep ==
    ASSUME NEW d \in Deployments, Ready(d), ComposeCheck(d), UNCHANGED <<cloud, account>>
    PROVE  Good(d)
<1>1. target' = target => Effect(d)
  BY OnlyLooks DEF ComposeCheck
<1>2. CASE BoundaryAvailable /\ Go(d, "mkdir")
  <2>1. Fits(d, "mkdir")
    BY DEF ComposeCheck, Ready, Control, Fits, ApplySteps, ComposeSteps, AzureSteps, CloudflareSteps, RemovalSteps
  <2>2. call'[d] = "mkdir" => Known(d)'
    BY <1>2 DEF ComposeCheck, BoundaryAvailable, Known, HostKnown, CloudKnown, AccountKnown, Vacant, host
  <2> QED
    BY <1>1, <1>2, <2>1, <2>2, WentOn DEF CallSteps, AdapterSteps, ComposeSteps
<1>3. CASE Fail(d)
  BY <1>1, <1>3, Failed
<1> QED
  BY <1>2, <1>3 DEF ComposeCheck

LEMMA MakeDirectoryStep ==
    ASSUME NEW d \in Deployments, Ready(d), MakeDirectory(d), UNCHANGED <<cloud, account>>
    PROVE  Good(d)
<1>1. ASSUME directory' = TRUE /\ UNCHANGED <<files, container, volume, up>>
      PROVE  target' = target => Effect(d)
  BY <1>1, MakeDirectoryEffect DEF Ready, MakeDirectory
<1>2. ASSUME UNCHANGED host
      PROVE  target' = target => Effect(d)
  BY <1>2, OnlyLooks
<1>3. CASE directory' = TRUE /\ UNCHANGED <<files, container, volume, up>> /\ Go(d, "compose")
  <2>1. Fits(d, "compose")
    BY DEF MakeDirectory, Ready, Control, Fits, ApplySteps, ComposeSteps, AzureSteps, CloudflareSteps, RemovalSteps
  <2>2. call'[d] = "compose" => Known(d)'
    BY <1>3 DEF MakeDirectory, Ready, Known, HostKnown, CloudKnown, AccountKnown, Vacant, Written, Sound, HostSound
  <2> QED
    BY <1>1, <1>3, <2>1, <2>2, WentOn DEF CallSteps, AdapterSteps, ComposeSteps
<1>4. CASE Fail(d)
  BY <1>1, <1>2, <1>4, Failed DEF MakeDirectory, Request
<1> QED
  BY <1>3, <1>4 DEF MakeDirectory, Request

LEMMA WriteFileStep ==
    ASSUME NEW d \in Deployments, Ready(d), WriteFile(d), UNCHANGED <<cloud, account>>
    PROVE  Good(d)
<1>1. /\ call[d] \in {"compose", "override", "env", "marker"}
      /\ call[d] = "compose" => After[call[d]] = "override"
      /\ call[d] = "override" => After[call[d]] = "env"
      /\ call[d] = "env" => After[call[d]] = "marker"
      /\ call[d] = "marker" => After[call[d]] = "up"
  BY DEF WriteFile, After
<1>2. ASSUME files' = [files EXCEPT ![call[d]] = d] /\ UNCHANGED <<directory, container, volume, up>>,
             target' = target
      PROVE  /\ Effect(d)
             /\ call[d] = "compose" => Written(d, {"compose"})'
             /\ call[d] = "override" => Written(d, {"compose", "override"})'
             /\ call[d] = "env" => Written(d, DeploymentFiles)'
             /\ call[d] = "marker" => Written(d, DeploymentFiles \cup {"marker"})'
  BY <1>1, <1>2, WriteFileEffect DEF Ready
<1>3. ASSUME UNCHANGED host
      PROVE  target' = target => Effect(d)
  BY <1>3, OnlyLooks
<1>4. CASE /\ files' = [files EXCEPT ![call[d]] = d] /\ UNCHANGED <<directory, container, volume, up>>
           /\ Go(d, After[call[d]])
  <2> DEFINE s == After[call[d]]
  <2>1. s \in {"override", "env", "marker", "up"}
    BY <1>1
  <2>2. Fits(d, s)
    BY <1>1, <2>1
    DEF Ready, Control, Fits, ApplySteps, ComposeSteps, AzureSteps, CloudflareSteps, RemovalSteps
  <2>3. target' = target /\ call'[d] = s => Known(d)'
    BY <1>1, <1>2, <1>4, <2>1 DEF Known, HostKnown, CloudKnown, AccountKnown
  <2>4. s \in CallSteps \ {"commit"}
    BY <2>1 DEF CallSteps, AdapterSteps, ComposeSteps
  <2> HIDE DEF s
  <2> QED
    BY <1>2, <1>4, <2>2, <2>3, <2>4, WentOn DEF s
<1>5. CASE Fail(d)
  BY <1>2, <1>3, <1>5, Failed DEF WriteFile, Request
<1> QED
  BY <1>4, <1>5 DEF WriteFile, Request

LEMMA ComposeUpStep ==
    ASSUME NEW d \in Deployments, Ready(d), ComposeUp(d), UNCHANGED <<cloud, account>>
    PROVE  Good(d)
<1>1. ASSUME CreateVolume, UNCHANGED <<directory, files>>,
             \/ container' = files.override /\ up' = TRUE /\ container # Foreign
             \/ container' \in {container, IF container = None THEN files.override ELSE container} /\ up' = up
      PROVE  target' = target => Effect(d)
  BY <1>1, ComposeUpEffect DEF Ready, ComposeUp
<1>2. ASSUME UNCHANGED host
      PROVE  target' = target => Effect(d)
  BY <1>2, OnlyLooks
<1>3. ComposeUp(d) => \/ (target' = target => Effect(d)) /\ Succeed(d)
                      \/ (target' = target => Effect(d)) /\ Fail(d)
  BY <1>1, <1>2 DEF ComposeUp, Request
<1>4. At(d, "install", "staged") /\ op[d] # NoOp /\ op[d].phase # "applied" /\ Compose
  BY StagedOrRemoving DEF Ready, ComposeUp, ApplySteps, ComposeSteps, Control, Fits
<1>5. ASSUME Succeed(d), target' = target => Effect(d)
      PROVE  Good(d)
  BY <1>4, <1>5, Returned DEF Compose
<1>6. ASSUME Fail(d), target' = target => Effect(d)
      PROVE  Good(d)
  BY <1>6, Failed
<1> QED
  BY <1>3, <1>5, <1>6

LEMMA ComposeVerifyStep ==
    ASSUME NEW d \in Deployments, Ready(d), ComposeVerify(d), UNCHANGED <<cloud, account>>
    PROVE  Good(d)
<1>1. CASE Deployed(d) /\ Go(d, "commit")
  <2>1. Intact(d)
    BY <1>1 DEF ComposeVerify, Deployed, FilesOf, Intact, Compose
  <2> QED
    BY <1>1, <2>1, Verified DEF ComposeVerify
<1>2. CASE Fail(d)
  BY <1>2, OnlyLooks, Failed DEF ComposeVerify
<1> QED
  BY <1>1, <1>2 DEF ComposeVerify

\* Where the host has been emptied, nothing of d's is anywhere.
LEMMA HostEmptied ==
    ASSUME NEW d \in Deployments, Sound', Compose', container' # d, volume' # d,
           \A f \in FileNames : files'[f] # d
    PROVE  Absent(d)'
BY OwnersAssumption DEF Sound, CloudSound, AccountSound, Compose, Absent

LEMMA ComposeUndoStep ==
    ASSUME NEW d \in Deployments, Ready(d), ComposeUndo(d), UNCHANGED <<cloud, account>>
    PROVE  Good(d)
<1>1. target' = target => Effect(d)
  BY OnlyLooks DEF ComposeUndo
<1>2. Compose /\ At(d, "install", "recovering") /\ Removing(d)
  BY OperationIsNotNoOp DEF ComposeUndo, Ready, Control, Fits, At, Removing, Operations
<1>3. CASE CleanupAllowed(d) /\ Go(d, "down")
  <2>1. Fits(d, "down")
    BY <1>2 DEF Fits, ApplySteps, ComposeSteps, AzureSteps, CloudflareSteps, RemovalSteps
  <2>2. call'[d] = "down" => Known(d)'
    BY <1>3 DEF ComposeUndo, Known, HostKnown, CloudKnown, AccountKnown, CleanupAllowed, FilesOf, host
  <2> QED
    BY <1>1, <1>3, <2>1, <2>2, WentOn DEF CallSteps, AdapterSteps, ComposeSteps
<1>4. CASE NoResources /\ Go(d, "wipe")
  <2>1. Fits(d, "wipe")
    BY <1>2 DEF Fits, ApplySteps, ComposeSteps, AzureSteps, CloudflareSteps, RemovalSteps
  <2>2. call'[d] = "wipe" => Known(d)'
    BY <1>4 DEF ComposeUndo, Known, HostKnown, CloudKnown, AccountKnown, NoResources, host
  <2> QED
    BY <1>1, <1>4, <2>1, <2>2, WentOn DEF CallSteps, AdapterSteps, ComposeSteps
<1>5. CASE Fail(d)
  BY <1>1, <1>5, Failed
<1> QED
  BY <1>3, <1>4, <1>5 DEF ComposeUndo

LEMMA ComposeDownStep ==
    ASSUME NEW d \in Deployments, Ready(d), ComposeDown(d), UNCHANGED <<cloud, account>>
    PROVE  Good(d)
<1>1. ASSUME container' = (IF container = Foreign THEN Foreign ELSE None), volume' \in {None, volume},
             up' = FALSE, UNCHANGED <<directory, files>>
      PROVE  target' = target => Effect(d) /\ container' = None
  BY <1>1, ComposeDownEffect DEF Ready, ComposeDown
<1>2. ASSUME UNCHANGED host
      PROVE  target' = target => Effect(d)
  BY <1>2, OnlyLooks
<1>3. CASE /\ container' = (IF container = Foreign THEN Foreign ELSE None)
           /\ volume' = None /\ up' = FALSE /\ UNCHANGED <<directory, files>>
           /\ Go(d, "erase")
  <2>1. Fits(d, "erase")
    BY DEF ComposeDown, Ready, Control, Fits, ApplySteps, ComposeSteps, AzureSteps, CloudflareSteps, RemovalSteps
  <2>2. target' = target /\ call'[d] = "erase" => Known(d)'
    BY <1>1, <1>3
    DEF ComposeDown, Ready, Known, HostKnown, CloudKnown, AccountKnown, CleanupAllowed, FilesOf, NoResources
  <2> QED
    BY <1>1, <1>3, <2>1, <2>2, WentOn DEF CallSteps, AdapterSteps, ComposeSteps
<1>4. CASE Fail(d)
  <2>1. target' = target => Effect(d)
    BY <1>1, <1>2 DEF ComposeDown, Request
  <2> QED
    BY <1>4, <2>1, Failed
<1> QED
  BY <1>3, <1>4 DEF ComposeDown, Request

\* One command that discards: it fails, or leaves nothing.
LEMMA CommandOutcome ==
    ASSUME NEW d \in Deployments, Ready(d), NEW names \in SUBSET FileNames, NEW ACTION done,
           Command(d, names, done),
           \/ call[d] = "erase" /\ names = FileNames \ {"other"}
           \/ call[d] = "wipe" /\ names = DeploymentFiles
           \/ call[d] = "rmdir" /\ names = {},
           UNCHANGED <<cloud, account>>
    PROVE  /\ target' = target => Effect(d)
           /\ Fail(d) \/ (done /\ UNCHANGED <<container, volume>> /\ \A f \in FileNames : files'[f] = None)
<1>1. target' = target /\ Discard(names) => Effect(d)
  BY DiscardEffect DEF Ready
<1>2. UNCHANGED host => (target' = target => Effect(d))
  BY OnlyLooks
<1>3. Discard(names) => /\ \A f \in FileNames : files'[f] = IF f \in names THEN None ELSE files[f]
                        /\ UNCHANGED <<container, volume>>
  BY DiscardFiles DEF Ready, Sound
<1>4. (directory => \A f \in FileNames \ names : files[f] = None) => \A f \in FileNames \ names : files[f] = None
  BY DEF Ready, Sound, HostSound
<1> QED
  BY <1>1, <1>2, <1>3, <1>4 DEF Command, Request

\* A removal that has taken a step of its own further.
LEMMA HostRemoved ==
    ASSUME NEW d \in Deployments, Ready(d), target' = target => Effect(d), Compose,
           call[d] \in {"erase", "wipe", "rmdir"}, UNCHANGED <<container, volume>>,
           \A f \in FileNames : files'[f] = None, Succeed(d)
    PROVE  Good(d)
<1>1. ~At(d, "install", "staged") /\ (op[d] # NoOp => op[d].phase # "applied")
  BY StagedOrRemoving DEF Ready, RemovalSteps
<1>2. NoResources
  BY DEF Ready, Known, HostKnown
<1>3. target' = target
  BY SucceedType DEF Ready, TypeOK, AdapterSteps, Only
<1>4. Absent(d)'
  BY <1>2, <1>3, HostEmptied, OwnersAssumption DEF Effect, NoResources, Compose
<1> QED
  BY <1>1, <1>4, Returned

LEMMA RemovedStep ==
    ASSUME NEW d \in Deployments, Ready(d), target' = target => Effect(d), Compose,
           call[d] \in {"erase", "rmdir"}, UNCHANGED <<container, volume>>,
           \A f \in FileNames : files'[f] = None, Removed(d)
    PROVE  Good(d)
<1>1. CASE target = "wsl" /\ op[d] = [kind |-> "uninstall", phase |-> "staged"] /\ Go(d, "confirm")
  <2>1. Fits(d, "confirm")
    BY <1>1 DEF Fits, At, ApplySteps, ComposeSteps, AzureSteps, CloudflareSteps, RemovalSteps, Compose
  <2>2. call'[d] = "confirm" => Known(d)'
    BY DEF Known, HostKnown, CloudKnown, AccountKnown
  <2> QED
    BY <1>1, <2>1, <2>2, WentOn DEF CallSteps, AdapterSteps, ComposeSteps
<1>2. CASE Succeed(d)
  BY <1>2, HostRemoved
<1> QED
  BY <1>1, <1>2 DEF Removed

LEMMA EraseStep ==
    ASSUME NEW d \in Deployments, Ready(d), Erase(d), UNCHANGED <<cloud, account>>
    PROVE  Good(d)
<1>1. Compose
  BY DEF Erase, Ready, Control, Fits, ComposeSteps
<1>2. /\ target' = target => Effect(d)
      /\ Fail(d) \/ (Removed(d) /\ UNCHANGED <<container, volume>> /\ \A f \in FileNames : files'[f] = None)
  BY CommandOutcome DEF Erase
<1> QED
  BY <1>1, <1>2, Failed, RemovedStep DEF Erase

LEMMA WipeStep ==
    ASSUME NEW d \in Deployments, Ready(d), Wipe(d), UNCHANGED <<cloud, account>>
    PROVE  Good(d)
<1>1. Compose
  BY DEF Wipe, Ready, Control, Fits, ComposeSteps
<1>2. DeploymentFiles \in SUBSET FileNames
  BY DEF FileNames
<1>3. /\ target' = target => Effect(d)
      /\ Fail(d) \/ (Succeed(d) /\ UNCHANGED <<container, volume>> /\ \A f \in FileNames : files'[f] = None)
  BY <1>2, CommandOutcome DEF Wipe
<1> QED
  BY <1>1, <1>3, Failed, HostRemoved DEF Wipe

LEMMA RemoveDirectoryStep ==
    ASSUME NEW d \in Deployments, Ready(d), RemoveDirectory(d), UNCHANGED <<cloud, account>>
    PROVE  Good(d)
<1>1. Compose
  BY DEF RemoveDirectory, Ready, Control, Fits, ComposeSteps
<1>2. CASE Command(d, {}, Removed(d))
  <2>1. /\ target' = target => Effect(d)
        /\ Fail(d) \/ (Removed(d) /\ UNCHANGED <<container, volume>> /\ \A f \in FileNames : files'[f] = None)
    BY <1>2, CommandOutcome DEF RemoveDirectory
  <2> QED
    BY <1>1, <2>1, Failed, RemovedStep DEF RemoveDirectory
<1>3. CASE UNCHANGED host /\ Fail(d)
  BY <1>3, OnlyLooks, Failed
<1> QED
  BY <1>2, <1>3 DEF RemoveDirectory

LEMMA ConfirmRemovedStep ==
    ASSUME NEW d \in Deployments, Ready(d), ConfirmRemoved(d), UNCHANGED <<cloud, account>>
    PROVE  Good(d)
<1>1. target' = target => Effect(d)
  BY OnlyLooks DEF ConfirmRemoved
<1>2. CASE ~directory /\ NoResources /\ Succeed(d)
  <2>1. Compose /\ ~At(d, "install", "staged") /\ (op[d] # NoOp => op[d].phase # "applied")
    BY StagedOrRemoving DEF ConfirmRemoved, Ready, Control, Fits, ComposeSteps
  <2>2. target' = target
    BY <1>2, SucceedType DEF Ready, TypeOK, AdapterSteps, Only
  <2>3. container' # d /\ volume' # d /\ \A f \in FileNames : files'[f] # d
    BY <1>2, OwnersAssumption DEF ConfirmRemoved, Ready, Sound, HostSound, NoResources, host
  <2>4. Absent(d)'
    BY <1>1, <2>1, <2>2, <2>3, HostEmptied DEF Effect, Compose
  <2> QED
    BY <1>1, <1>2, <2>1, <2>4, Returned
<1>3. CASE Fail(d)
  BY <1>1, <1>3, Failed
<1> QED
  BY <1>2, <1>3 DEF ConfirmRemoved

\* The first look of an uninstall, and of the clean-up of a remnant.
LEMMA HostRemoveStep ==
    ASSUME NEW d \in Deployments, Ready(d), RemoteRemove(d) \/ WslRemove(d), UNCHANGED <<cloud, account>>
    PROVE  Good(d)
<1>1. target' = target => Effect(d)
  BY OnlyLooks DEF RemoteRemove, WslRemove
<1>2. Compose /\ call[d] = "remove" /\ (op[d] = NoOp \/ Uninstalling(d))
  BY DEF RemoteRemove, WslRemove, Compose, Ready, Control, Fits
<1>3. CASE CleanupAllowed(d) /\ Go(d, "down")
  <2>1. Removing(d)
    <3>1. CASE op[d] = NoOp
      <4>1. Absent(d)
        BY <1>2, <3>1 DEF Ready, Left, Control
      <4> QED
        BY <1>3, <4>1 DEF Absent, CleanupAllowed, FileNames
    <3> QED
      BY <1>2, <3>1 DEF Uninstalling
  <2>2. Fits(d, "down")
    BY <1>2, <2>1 DEF Fits, ApplySteps, ComposeSteps, AzureSteps, CloudflareSteps, RemovalSteps
  <2>3. call'[d] = "down" => Known(d)'
    BY <1>3
    DEF RemoteRemove, WslRemove, Known, HostKnown, CloudKnown, AccountKnown, CleanupAllowed, FilesOf, host
  <2> QED
    BY <1>1, <1>3, <2>2, <2>3, WentOn DEF CallSteps, AdapterSteps, ComposeSteps
<1>4. CASE NoResources /\ Go(d, "rmdir")
  <2>1. Fits(d, "rmdir")
    BY <1>2 DEF Fits, ApplySteps, ComposeSteps, AzureSteps, CloudflareSteps, RemovalSteps
  <2>2. call'[d] = "rmdir" => Known(d)'
    BY <1>4 DEF RemoteRemove, WslRemove, Known, HostKnown, CloudKnown, AccountKnown, NoResources, host
  <2> QED
    BY <1>1, <1>4, <2>1, <2>2, WentOn DEF CallSteps, AdapterSteps, ComposeSteps
<1>5. CASE Fail(d)
  BY <1>1, <1>5, Failed
<1> QED
  BY <1>3, <1>4, <1>5 DEF RemoteRemove, WslRemove

LEMMA HostStep ==
    ASSUME NEW d \in Deployments, Ready(d), ComposeStep(d), UNCHANGED <<cloud, account>>
    PROVE  Good(d)
BY ComposeCheckStep, MakeDirectoryStep, WriteFileStep, ComposeUpStep, ComposeVerifyStep, ComposeUndoStep,
   WipeStep, ComposeDownStep, EraseStep, HostRemoveStep, RemoveDirectoryStep, ConfirmRemovedStep
DEF ComposeStep

-----------------------------------------------------------------------------
(* In a subscription.                                                      *)

LEMMA GroupCheckStep ==
    ASSUME NEW d \in Deployments, Ready(d), GroupCheck(d), UNCHANGED <<host, account>>
    PROVE  Good(d)
<1>1. target' = target => Effect(d)
  BY OnlyLooks DEF GroupCheck
<1>2. CASE group = None /\ Go(d, "group")
  <2>1. Fits(d, "group")
    BY DEF GroupCheck, Ready, Control, Fits, ApplySteps, ComposeSteps, AzureSteps, CloudflareSteps, RemovalSteps
  <2>2. call'[d] = "group" => Known(d)'
    BY <1>2 DEF GroupCheck, Known, HostKnown, CloudKnown, AccountKnown, cloud
  <2> QED
    BY <1>1, <1>2, <2>1, <2>2, WentOn DEF CallSteps, AdapterSteps, AzureSteps
<1>3. CASE Fail(d)
  BY <1>1, <1>3, Failed
<1> QED
  BY <1>2, <1>3 DEF GroupCheck

LEMMA CreateGroupStep ==
    ASSUME NEW d \in Deployments, Ready(d), CreateGroup(d), UNCHANGED <<host, account>>
    PROVE  Good(d)
<1>1. ASSUME group' = d, UNCHANGED <<arm, deleting>>
      PROVE  target' = target => Effect(d) /\ ~deleting'
  BY <1>1, CreateGroupEffect DEF Ready, CreateGroup
<1>2. ASSUME UNCHANGED cloud
      PROVE  target' = target => Effect(d)
  BY <1>2, OnlyLooks
<1>3. CASE group' = d /\ UNCHANGED <<arm, deleting>> /\ Go(d, "deploy")
  <2>1. Fits(d, "deploy")
    BY DEF CreateGroup, Ready, Control, Fits, ApplySteps, ComposeSteps, AzureSteps, CloudflareSteps, RemovalSteps
  <2>2. target' = target /\ call'[d] = "deploy" => Known(d)'
    BY <1>1, <1>3 DEF Known, HostKnown, CloudKnown, AccountKnown
  <2> QED
    BY <1>1, <1>3, <2>1, <2>2, WentOn DEF CallSteps, AdapterSteps, AzureSteps
<1>4. CASE Fail(d)
  BY <1>1, <1>2, <1>4, Failed DEF CreateGroup, Request
<1> QED
  BY <1>3, <1>4 DEF CreateGroup, Request

LEMMA StartDeploymentStep ==
    ASSUME NEW d \in Deployments, Ready(d), StartDeployment(d), UNCHANGED <<host, account>>
    PROVE  Good(d)
<1>1. ASSUME arm' = "running", UNCHANGED <<group, deleting>>
      PROVE  target' = target => Effect(d)
  BY <1>1, StartDeploymentEffect DEF Ready, StartDeployment
<1>2. ASSUME UNCHANGED cloud
      PROVE  target' = target => Effect(d)
  BY <1>2, OnlyLooks
<1>3. CASE arm' = "running" /\ UNCHANGED <<group, deleting>> /\ Go(d, "poll")
  <2>1. Fits(d, "poll")
    BY DEF StartDeployment, Ready, Control, Fits, ApplySteps, ComposeSteps, AzureSteps, CloudflareSteps, RemovalSteps
  <2>2. call'[d] = "poll" => Known(d)'
    BY <1>3 DEF StartDeployment, Ready, Known, HostKnown, CloudKnown, AccountKnown
  <2> QED
    BY <1>1, <1>3, <2>1, <2>2, WentOn DEF CallSteps, AdapterSteps, AzureSteps
<1>4. CASE Fail(d)
  BY <1>1, <1>2, <1>4, Failed DEF StartDeployment, Request
<1> QED
  BY <1>3, <1>4 DEF StartDeployment, Request

LEMMA PollStep ==
    ASSUME NEW d \in Deployments, Ready(d), Poll(d), UNCHANGED <<host, account>>
    PROVE  Good(d)
<1>1. target' = target => Effect(d)
  BY OnlyLooks DEF Poll
<1>2. CASE Succeed(d)
  <2>1. At(d, "install", "staged") /\ op[d] # NoOp /\ op[d].phase # "applied"
    BY StagedOrRemoving DEF Ready, Poll, ApplySteps
  <2>2. group' = d /\ ~deleting'
    BY DEF Ready, Known, CloudKnown, Poll, cloud
  <2> QED
    BY <1>1, <1>2, <2>1, <2>2, Returned
<1>3. CASE Fail(d)
  BY <1>1, <1>3, Failed
<1> QED
  BY <1>2, <1>3 DEF Poll

LEMMA AzureVerifyStep ==
    ASSUME NEW d \in Deployments, Ready(d), AzureVerify(d), UNCHANGED <<host, account>>
    PROVE  Good(d)
<1>1. CASE Serving /\ Go(d, "commit")
  <2>1. Intact(d)
    BY <1>1 DEF AzureVerify, Ready, Known, CloudKnown, Intact, AzureDeployed, Compose
  <2> QED
    BY <1>1, <2>1, Verified DEF AzureVerify
<1>2. CASE Fail(d)
  BY <1>2, OnlyLooks, Failed DEF AzureVerify
<1> QED
  BY <1>1, <1>2 DEF AzureVerify

\* The group is gone, and the operation with it.
LEMMA GroupRemoved ==
    ASSUME NEW d \in Deployments, Ready(d), target = "azure", group = None,
           UNCHANGED <<host, cloud, account>>, Succeed(d),
           call[d] \in {"undo", "remove", "gone"}
    PROVE  Good(d)
<1>1. target' = target => Effect(d)
  BY OnlyLooks
<1>2. ~At(d, "install", "staged") /\ (op[d] # NoOp => op[d].phase # "applied")
  BY StagedOrRemoving DEF Ready, RemovalSteps
<1>3. Absent(d)'
  BY OwnersAssumption DEF Ready, Sound, HostSound, AccountSound, Compose, Absent, host, cloud, account
<1> QED
  BY <1>1, <1>2, <1>3, Returned

LEMMA InspectGroupStep ==
    ASSUME NEW d \in Deployments, Ready(d), InspectGroup(d), UNCHANGED <<host, account>>
    PROVE  Good(d)
<1>1. target' = target => Effect(d)
  BY OnlyLooks DEF InspectGroup
<1>2. CASE group = None /\ Succeed(d)
  BY <1>2, GroupRemoved DEF InspectGroup
<1>3. CASE group = d /\ Go(d, "delete")
  <2>1. Removing(d)
    BY OperationIsNotNoOp
    DEF InspectGroup, Ready, Control, Fits, Removing, Uninstalling, At, Operations
  <2>2. Fits(d, "delete")
    BY <2>1 DEF InspectGroup, Fits, ApplySteps, ComposeSteps, AzureSteps, CloudflareSteps, RemovalSteps
  <2>3. call'[d] = "delete" => Known(d)'
    BY <1>3 DEF InspectGroup, Known, HostKnown, CloudKnown, AccountKnown, cloud
  <2> QED
    BY <1>1, <1>3, <2>2, <2>3, WentOn DEF CallSteps, AdapterSteps, AzureSteps
<1>4. CASE Fail(d)
  BY <1>1, <1>4, Failed
<1> QED
  BY <1>2, <1>3, <1>4 DEF InspectGroup

LEMMA DeleteGroupStep ==
    ASSUME NEW d \in Deployments, Ready(d), DeleteGroup(d), UNCHANGED <<host, account>>
    PROVE  Good(d)
<1>1. ASSUME group # None, deleting' = TRUE, UNCHANGED <<group, arm>>
      PROVE  target' = target => Effect(d)
  BY <1>1, DeleteGroupEffect DEF Ready, DeleteGroup
<1>2. ASSUME UNCHANGED cloud
      PROVE  target' = target => Effect(d)
  BY <1>2, OnlyLooks
<1>3. CASE group # None /\ deleting' = TRUE /\ UNCHANGED <<group, arm>> /\ Go(d, "gone")
  <2>1. Fits(d, "gone")
    BY DEF DeleteGroup, Ready, Control, Fits, ApplySteps, ComposeSteps, AzureSteps, CloudflareSteps, RemovalSteps
  <2>2. call'[d] = "gone" => Known(d)'
    BY DEF Known, HostKnown, CloudKnown, AccountKnown
  <2> QED
    BY <1>1, <1>3, <2>1, <2>2, WentOn DEF CallSteps, AdapterSteps, AzureSteps
<1>4. CASE Fail(d)
  BY <1>1, <1>2, <1>4, Failed DEF DeleteGroup, Request
<1> QED
  BY <1>3, <1>4 DEF DeleteGroup, Request

LEMMA AwaitGoneStep ==
    ASSUME NEW d \in Deployments, Ready(d), AwaitGone(d), UNCHANGED <<host, account>>
    PROVE  Good(d)
<1>1. target = "azure"
  BY DEF AwaitGone, Ready, Control, Fits, AzureSteps
<1>2. CASE group = None /\ Succeed(d)
  BY <1>1, <1>2, GroupRemoved DEF AwaitGone
<1>3. CASE Fail(d)
  BY <1>3, OnlyLooks, Failed DEF AwaitGone
<1> QED
  BY <1>2, <1>3 DEF AwaitGone

LEMMA CloudStep ==
    ASSUME NEW d \in Deployments, Ready(d), AzureStep(d), UNCHANGED <<host, account>>
    PROVE  Good(d)
BY GroupCheckStep, CreateGroupStep, StartDeploymentStep, PollStep, AzureVerifyStep, InspectGroupStep,
   DeleteGroupStep, AwaitGoneStep
DEF AzureStep

-----------------------------------------------------------------------------
(* In an account.                                                          *)

LEMMA NamesCheckStep ==
    ASSUME NEW d \in Deployments, Ready(d), NamesCheck(d), UNCHANGED <<host, cloud>>
    PROVE  Good(d)
<1>1. target' = target => Effect(d)
  BY OnlyLooks DEF NamesCheck
<1>2. CASE NamesAvailable /\ Go(d, "database")
  <2>1. Fits(d, "database")
    BY DEF NamesCheck, Ready, Control, Fits, ApplySteps, ComposeSteps, AzureSteps, CloudflareSteps, RemovalSteps
  <2>2. call'[d] = "database" => Known(d)'
    BY <1>2 DEF NamesCheck, NamesAvailable, Known, HostKnown, CloudKnown, AccountKnown, account
  <2> QED
    BY <1>1, <1>2, <2>1, <2>2, WentOn DEF CallSteps, AdapterSteps, CloudflareSteps
<1>3. CASE Fail(d)
  BY <1>1, <1>3, Failed
<1> QED
  BY <1>2, <1>3 DEF NamesCheck

LEMMA CreateDatabaseStep ==
    ASSUME NEW d \in Deployments, Ready(d), CreateDatabase(d), UNCHANGED <<host, cloud>>
    PROVE  Good(d)
<1>1. ASSUME database = None /\ database' = d /\ UNCHANGED <<marked, worker, exposed>>
      PROVE  target' = target => Effect(d)
  BY <1>1, AccountWritten DEF Ready, CreateDatabase
<1>2. ASSUME UNCHANGED account
      PROVE  target' = target => Effect(d)
  BY <1>2, OnlyLooks
<1>3. CASE database = None /\ database' = d /\ UNCHANGED <<marked, worker, exposed>> /\ Go(d, "mark")
  <2>1. Fits(d, "mark")
    BY DEF CreateDatabase, Ready, Control, Fits, ApplySteps, ComposeSteps, AzureSteps, CloudflareSteps, RemovalSteps
  <2>2. call'[d] = "mark" => Known(d)'
    BY <1>3 DEF CreateDatabase, Ready, Known, HostKnown, CloudKnown, AccountKnown
  <2> QED
    BY <1>1, <1>3, <2>1, <2>2, WentOn DEF CallSteps, AdapterSteps, CloudflareSteps
<1>4. CASE Fail(d)
  BY <1>1, <1>2, <1>4, Failed DEF CreateDatabase, Request
<1> QED
  BY <1>3, <1>4 DEF CreateDatabase, Request

LEMMA WriteOwnershipMarkerStep ==
    ASSUME NEW d \in Deployments, Ready(d), WriteOwnershipMarker(d), UNCHANGED <<host, cloud>>
    PROVE  Good(d)
<1>1. ASSUME marked' = d /\ UNCHANGED <<database, worker, exposed>>
      PROVE  target' = target => Effect(d)
  BY <1>1, AccountWritten DEF Ready, WriteOwnershipMarker
<1>2. ASSUME UNCHANGED account
      PROVE  target' = target => Effect(d)
  BY <1>2, OnlyLooks
<1>3. CASE marked' = d /\ UNCHANGED <<database, worker, exposed>> /\ Go(d, "migrate")
  <2>1. Fits(d, "migrate")
    BY DEF WriteOwnershipMarker, Ready, Control, Fits, ApplySteps, ComposeSteps, AzureSteps, CloudflareSteps, RemovalSteps
  <2>2. call'[d] = "migrate" => Known(d)'
    BY <1>3 DEF WriteOwnershipMarker, Ready, Known, HostKnown, CloudKnown, AccountKnown
  <2> QED
    BY <1>1, <1>3, <2>1, <2>2, WentOn DEF CallSteps, AdapterSteps, CloudflareSteps
<1>4. CASE Fail(d)
  BY <1>1, <1>2, <1>4, Failed DEF WriteOwnershipMarker, Request
<1> QED
  BY <1>3, <1>4 DEF WriteOwnershipMarker, Request

LEMMA MigrateStep ==
    ASSUME NEW d \in Deployments, Ready(d), Migrate(d), UNCHANGED <<host, cloud>>
    PROVE  Good(d)
<1>1. target' = target => Effect(d)
  BY OnlyLooks DEF Migrate, Request
<1>2. CASE UNCHANGED account /\ Go(d, "worker")
  <2>1. Fits(d, "worker")
    BY DEF Migrate, Ready, Control, Fits, ApplySteps, ComposeSteps, AzureSteps, CloudflareSteps, RemovalSteps
  <2>2. call'[d] = "worker" => Known(d)'
    BY <1>2 DEF Migrate, Ready, Known, HostKnown, CloudKnown, AccountKnown, account
  <2> QED
    BY <1>1, <1>2, <2>1, <2>2, WentOn DEF CallSteps, AdapterSteps, CloudflareSteps
<1>3. CASE Fail(d)
  BY <1>1, <1>3, Failed
<1> QED
  BY <1>2, <1>3 DEF Migrate, Request

LEMMA UploadWorkerStep ==
    ASSUME NEW d \in Deployments, Ready(d), UploadWorker(d), UNCHANGED <<host, cloud>>
    PROVE  Good(d)
<1>1. ASSUME worker' = d /\ exposed' = FALSE /\ UNCHANGED <<database, marked>>
      PROVE  target' = target => Effect(d)
  BY <1>1, AccountWritten DEF Ready, UploadWorker
<1>2. ASSUME UNCHANGED account
      PROVE  target' = target => Effect(d)
  BY <1>2, OnlyLooks
<1>3. CASE worker' = d /\ exposed' = FALSE /\ UNCHANGED <<database, marked>> /\ Go(d, "expose")
  <2>1. Fits(d, "expose")
    BY DEF UploadWorker, Ready, Control, Fits, ApplySteps, ComposeSteps, AzureSteps, CloudflareSteps, RemovalSteps
  <2>2. call'[d] = "expose" => Known(d)'
    BY <1>3 DEF UploadWorker, Ready, Known, HostKnown, CloudKnown, AccountKnown
  <2> QED
    BY <1>1, <1>3, <2>1, <2>2, WentOn DEF CallSteps, AdapterSteps, CloudflareSteps
<1>4. CASE Fail(d)
  BY <1>1, <1>2, <1>4, Failed DEF UploadWorker, Request
<1> QED
  BY <1>3, <1>4 DEF UploadWorker, Request

LEMMA ExposeStep ==
    ASSUME NEW d \in Deployments, Ready(d), Expose(d), UNCHANGED <<host, cloud>>
    PROVE  Good(d)
<1>1. target' = target => Effect(d)
  BY OnlyLooks, AccountWritten DEF Ready, Expose, Request
<1>2. CASE Succeed(d)
  <2>1. At(d, "install", "staged") /\ op[d] # NoOp /\ op[d].phase # "applied" /\ target = "cloudflare"
    BY StagedOrRemoving DEF Ready, Expose, ApplySteps, CloudflareSteps, Control, Fits
  <2> QED
    BY <1>1, <1>2, <2>1, Returned
<1>3. CASE Fail(d)
  BY <1>1, <1>3, Failed
<1> QED
  BY <1>2, <1>3 DEF Expose, Request

LEMMA CloudflareVerifyStep ==
    ASSUME NEW d \in Deployments, Ready(d), CloudflareVerify(d), UNCHANGED <<host, cloud>>
    PROVE  Good(d)
<1>1. CASE WorkerDeployed(d) /\ Go(d, "commit")
  <2>1. Intact(d)
    BY <1>1 DEF CloudflareVerify, Intact, Compose
  <2> QED
    BY <1>1, <2>1, Verified DEF CloudflareVerify
<1>2. CASE Fail(d)
  BY <1>2, OnlyLooks, Failed DEF CloudflareVerify
<1> QED
  BY <1>1, <1>2 DEF CloudflareVerify

\* The account has been emptied, and the operation is over.
LEMMA AccountRemoved ==
    ASSUME NEW d \in Deployments, Ready(d), target = "cloudflare", UNCHANGED <<host, cloud>>,
           target' = target => Effect(d), database' = None, Succeed(d),
           call[d] \in {"undo", "no-worker", "delete-database"}
    PROVE  Good(d)
<1>1. ~At(d, "install", "staged") /\ (op[d] # NoOp => op[d].phase # "applied")
  BY StagedOrRemoving DEF Ready, RemovalSteps
<1>2. target' = target
  BY SucceedType DEF Ready, TypeOK, AdapterSteps, Only
<1>3. AccountSound'
  BY <1>2 DEF Effect, Sound
<1>4. marked' = None /\ worker' # d
  BY <1>3, OwnersAssumption DEF AccountSound
<1>5. Absent(d)'
  BY <1>4, OwnersAssumption DEF Ready, Sound, HostSound, CloudSound, Compose, Absent, host, cloud
<1> QED
  BY <1>1, <1>5, Returned

LEMMA FindDatabaseStep ==
    ASSUME NEW d \in Deployments, Ready(d), FindDatabase(d), UNCHANGED <<host, cloud>>
    PROVE  Good(d)
<1>1. target' = target => Effect(d)
  BY OnlyLooks DEF FindDatabase
<1>2. Removing(d) /\ (call[d] = "remove" => Uninstalling(d))
  BY OperationIsNotNoOp
  DEF FindDatabase, Ready, Control, Fits, Removing, Uninstalling, At, Operations
<1>3. CASE database = None /\ call[d] = "undo" /\ Succeed(d)
  BY <1>1, <1>3, AccountRemoved DEF FindDatabase, account
<1>4. CASE database = None /\ call[d] = "remove" /\ Go(d, "no-worker")
  <2>1. Fits(d, "no-worker")
    BY <1>2, <1>4
    DEF FindDatabase, Fits, ApplySteps, ComposeSteps, AzureSteps, CloudflareSteps, RemovalSteps
  <2>2. call'[d] = "no-worker" => Known(d)'
    BY <1>4 DEF FindDatabase, Known, HostKnown, CloudKnown, AccountKnown, account
  <2> QED
    BY <1>1, <1>4, <2>1, <2>2, WentOn DEF CallSteps, AdapterSteps, CloudflareSteps
<1>5. CASE marked = d /\ Go(d, "find-worker")
  <2>1. Fits(d, "find-worker")
    BY <1>2 DEF FindDatabase, Fits, ApplySteps, ComposeSteps, AzureSteps, CloudflareSteps, RemovalSteps
  <2>2. call'[d] = "find-worker" => Known(d)'
    BY <1>5 DEF FindDatabase, Known, HostKnown, CloudKnown, AccountKnown, account
  <2> QED
    BY <1>1, <1>5, <2>1, <2>2, WentOn DEF CallSteps, AdapterSteps, CloudflareSteps
<1>6. CASE Fail(d)
  BY <1>1, <1>6, Failed
<1> QED
  BY <1>3, <1>4, <1>5, <1>6 DEF FindDatabase

LEMMA NoWorkerStep ==
    ASSUME NEW d \in Deployments, Ready(d), NoWorker(d), UNCHANGED <<host, cloud>>
    PROVE  Good(d)
<1>1. target' = target => Effect(d)
  BY OnlyLooks DEF NoWorker
<1>2. CASE Succeed(d)
  <2>1. target = "cloudflare" /\ database' = None
    BY DEF NoWorker, Ready, Control, Fits, CloudflareSteps, Known, AccountKnown, account
  <2> QED
    BY <1>1, <1>2, <2>1, AccountRemoved DEF NoWorker
<1>3. CASE Fail(d)
  BY <1>1, <1>3, Failed
<1> QED
  BY <1>2, <1>3 DEF NoWorker

LEMMA FindWorkerStep ==
    ASSUME NEW d \in Deployments, Ready(d), FindWorker(d), UNCHANGED <<host, cloud>>
    PROVE  Good(d)
<1>1. target' = target => Effect(d)
  BY OnlyLooks DEF FindWorker
<1>2. Removing(d) /\ target = "cloudflare" /\ marked = d
  BY DEF FindWorker, Ready, Control, Fits, RemovalSteps, CloudflareSteps, Known, AccountKnown
<1>3. ASSUME NEW s \in {"delete-worker", "delete-database"}, Go(d, s),
             worker = IF s = "delete-worker" THEN d ELSE None
      PROVE  Good(d)
  <2>1. Fits(d, s)
    BY <1>2, <1>3 DEF Fits, ApplySteps, ComposeSteps, AzureSteps, CloudflareSteps, RemovalSteps
  <2>2. call'[d] = s => Known(d)'
    BY <1>2, <1>3 DEF FindWorker, Known, HostKnown, CloudKnown, AccountKnown, account
  <2> QED
    BY <1>1, <1>3, <2>1, <2>2, WentOn DEF CallSteps, AdapterSteps, CloudflareSteps
<1>4. CASE Fail(d)
  BY <1>1, <1>4, Failed
<1> QED
  BY <1>3, <1>4 DEF FindWorker

LEMMA DeleteWorkerStep ==
    ASSUME NEW d \in Deployments, Ready(d), DeleteWorker(d), UNCHANGED <<host, cloud>>
    PROVE  Good(d)
<1>1. ASSUME worker' = None /\ exposed' = FALSE /\ UNCHANGED <<database, marked>>
      PROVE  target' = target => Effect(d)
  BY <1>1, AccountEmptied DEF Ready, DeleteWorker
<1>2. ASSUME UNCHANGED account
      PROVE  target' = target => Effect(d)
  BY <1>2, OnlyLooks
<1>3. CASE worker' = None /\ exposed' = FALSE /\ UNCHANGED <<database, marked>> /\ Go(d, "delete-database")
  <2>1. Fits(d, "delete-database")
    BY DEF DeleteWorker, Ready, Control, Fits, ApplySteps, ComposeSteps, AzureSteps, CloudflareSteps, RemovalSteps
  <2>2. call'[d] = "delete-database" => Known(d)'
    BY <1>3 DEF DeleteWorker, Ready, Known, HostKnown, CloudKnown, AccountKnown
  <2> QED
    BY <1>1, <1>3, <2>1, <2>2, WentOn DEF CallSteps, AdapterSteps, CloudflareSteps
<1>4. CASE Fail(d)
  BY <1>1, <1>2, <1>4, Failed DEF DeleteWorker, Request
<1> QED
  BY <1>3, <1>4 DEF DeleteWorker, Request

LEMMA DeleteDatabaseStep ==
    ASSUME NEW d \in Deployments, Ready(d), DeleteDatabase(d), UNCHANGED <<host, cloud>>
    PROVE  Good(d)
<1>1. target' = target => Effect(d)
  BY OnlyLooks, AccountEmptied DEF Ready, DeleteDatabase, Request
<1>2. CASE database' = None /\ Succeed(d)
  <2>1. target = "cloudflare"
    BY DEF DeleteDatabase, Ready, Control, Fits, CloudflareSteps
  <2> QED
    BY <1>1, <1>2, <2>1, AccountRemoved DEF DeleteDatabase
<1>3. CASE Fail(d)
  BY <1>1, <1>3, Failed
<1> QED
  BY <1>2, <1>3 DEF DeleteDatabase, Request

LEMMA AccountStep ==
    ASSUME NEW d \in Deployments, Ready(d), CloudflareStep(d), UNCHANGED <<host, cloud>>
    PROVE  Good(d)
BY NamesCheckStep, CreateDatabaseStep, WriteOwnershipMarkerStep, MigrateStep, UploadWorkerStep, ExposeStep,
   CloudflareVerifyStep, FindDatabaseStep, NoWorkerStep, FindWorkerStep, DeleteWorkerStep, DeleteDatabaseStep
DEF CloudflareStep

-----------------------------------------------------------------------------
(* Every step of a call.                                                   *)

LEMMA CommitStep ==
    ASSUME NEW d \in Deployments, Ready(d), Commit(d), UNCHANGED <<host, cloud, account>>
    PROVE  Good(d)
<1>1. OperationTypeOK(AdapterSteps)
  BY DEF Ready, TypeOK, AdapterSteps
<1>2. op[d] # NoOp /\ op[d] \in Operations
  BY <1>1 DEF Commit, Ready, Control, Fits, OperationTypeOK
<1>3. /\ op'[d] = NoOp /\ call'[d] = "none" /\ target' = target
      /\ installed'[d] = (op[d].kind = "install")
  BY <1>1 DEF Commit, Close, OperationTypeOK
<1>4. OperationTypeOK(AdapterSteps)' /\ Only(d)
  BY <1>1 DEF Commit, Close, OperationTypeOK, Only
<1>5. Effect(d)
  BY <1>3, NoEffect DEF Ready
<1>6. Control(d)' /\ Known(d)'
  BY <1>3
  DEF Control, Fits, ApplySteps, RemovalSteps, ComposeSteps, AzureSteps, CloudflareSteps,
      Known, HostKnown, CloudKnown, AccountKnown
<1>7. IF installed[d] THEN Absent(d) /\ op[d].kind = "uninstall" ELSE Intact(d) /\ op[d].kind = "install"
  BY <1>2 DEF Commit, Ready, Left, Control, Operations
<1>8. ~(deleting /\ group = d)
  BY <1>7, OwnersAssumption
  DEF Absent, Intact, AzureDeployed, Serving, Ready, Sound, CloudSound, TypeOK, OperationTypeOK
<1>9. Absent(d) => Absent(d)'
  BY DEF Absent, host, cloud, account
<1>10. Intact(d) => Intact(d)'
  BY <1>3 DEF Intact, Compose, AzureDeployed, Serving, WorkerDeployed, host, cloud, account
<1>11. Left(d)'
  BY <1>3, <1>7, <1>8, <1>9, <1>10 DEF Left, cloud
<1> QED
  BY <1>4, <1>5, <1>6, <1>11 DEF Good

\* Every step of a call keeps what the invariant says of its deployment, and
\* leaves what others have.
LEMMA AdapterStepGood ==
    ASSUME NEW d \in Deployments, TypeOK, Sound, Control(d), Known(d), Left(d), AdapterStep(d)
    PROVE  call[d] # "none" /\ Good(d)
<1>1. call[d] # "none"
  BY DEF AdapterStep, Commit, ComposeStep, ComposeCheck, MakeDirectory, WriteFile, After, ComposeUp,
         ComposeVerify, ComposeUndo, Wipe, ComposeDown, Erase, RemoteRemove, WslRemove, RemoveDirectory,
         ConfirmRemoved, AzureStep, GroupCheck, CreateGroup, StartDeployment, Poll, AzureVerify,
         InspectGroup, DeleteGroup, AwaitGone, CloudflareStep, NamesCheck, CreateDatabase,
         WriteOwnershipMarker, Migrate, UploadWorker, Expose, CloudflareVerify, FindDatabase, NoWorker,
         FindWorker, DeleteWorker, DeleteDatabase
<1>2. Ready(d)
  BY <1>1 DEF Ready
<1> QED
  BY <1>1, <1>2, HostStep, CloudStep, AccountStep, CommitStep DEF AdapterStep

\* The other deployments have no call under way.
LEMMA OthersHold ==
    ASSUME Inv, NEW d \in Deployments, Only(d), Spared(d), \A e \in Deployments \ {d} : call[e] = "none"
    PROVE  \A e \in Deployments \ {d} : Control(e)' /\ Known(e)' /\ Left(e)'
<1> SUFFICES ASSUME NEW e \in Deployments \ {d}
             PROVE  Control(e)' /\ Known(e)' /\ Left(e)'
  OBVIOUS
<1>1. op'[e] = op[e] /\ call'[e] = "none" /\ installed'[e] = installed[e] /\ call[e] = "none"
  BY DEF Only
<1>2. Control(e) /\ Left(e)
  BY DEF Inv
<1>3. Control(e)' /\ Known(e)'
  BY <1>1, <1>2
  DEF Control, Fits, ApplySteps, RemovalSteps, ComposeSteps, AzureSteps, CloudflareSteps,
      Known, HostKnown, CloudKnown, AccountKnown
<1>4. Left(e)'
  BY <1>1, <1>2 DEF Left, Spared
<1> QED
  BY <1>3, <1>4

-----------------------------------------------------------------------------
(* Types.                                                                  *)

LEMMA HostType ==
    ASSUME TypeOK, NEW d \in Deployments, ComposeStep(d)
    PROVE  HostTypeOK'
<1> USE DEF TypeOK, HostTypeOK, host, Owners
<1>1. UNCHANGED host => HostTypeOK'
  OBVIOUS
<1>2. \A names : Discard(names) => HostTypeOK'
  BY DEF Discard, FileNames
<1>3. CASE ComposeCheck(d) \/ ComposeVerify(d) \/ ComposeUndo(d) \/ RemoteRemove(d) \/ WslRemove(d) \/ ConfirmRemoved(d)
  BY <1>1, <1>3 DEF ComposeCheck, ComposeVerify, ComposeUndo, RemoteRemove, WslRemove, ConfirmRemoved
<1>4. CASE MakeDirectory(d)
  BY <1>4 DEF MakeDirectory, Request
<1>5. CASE WriteFile(d)
  BY <1>5 DEF WriteFile, Request, After, FileNames, DeploymentFiles
<1>6. CASE ComposeUp(d)
  BY <1>6 DEF ComposeUp, Request, CreateVolume, FileNames, DeploymentFiles
<1>7. CASE ComposeDown(d)
  BY <1>7 DEF ComposeDown, Request
<1>8. CASE Erase(d) \/ Wipe(d) \/ RemoveDirectory(d)
  BY <1>1, <1>2, <1>8 DEF Erase, Wipe, RemoveDirectory, Command, Request
<1> QED
  BY <1>3, <1>4, <1>5, <1>6, <1>7, <1>8 DEF ComposeStep

LEMMA CloudType ==
    ASSUME TypeOK, NEW d \in Deployments, AzureStep(d)
    PROVE  CloudTypeOK'
BY DEF TypeOK, CloudTypeOK, cloud, Owners, AzureStep, GroupCheck, CreateGroup, StartDeployment, Poll,
       AzureVerify, InspectGroup, DeleteGroup, AwaitGone, Request

LEMMA AccountType ==
    ASSUME TypeOK, NEW d \in Deployments, CloudflareStep(d)
    PROVE  AccountTypeOK'
BY DEF TypeOK, AccountTypeOK, account, Owners, CloudflareStep, NamesCheck, CreateDatabase,
       WriteOwnershipMarker, Migrate, UploadWorker, Expose, CloudflareVerify, FindDatabase, NoWorker,
       FindWorker, DeleteWorker, DeleteDatabase, Request

\* Where a call goes.
LEMMA AdapterMoves ==
    ASSUME NEW d \in Deployments, AdapterStep(d)
    PROVE  Fail(d) \/ Succeed(d) \/ Commit(d) \/ \E s \in CallSteps : Go(d, s)
<1> USE DEF Request, CallSteps, AdapterSteps
<1>1. CASE ComposeStep(d)
  <2> USE DEF ComposeSteps
  <2>1. After \in [DOMAIN After -> ComposeSteps]
    BY DEF After
  <2> QED
    BY <1>1, <2>1
    DEF ComposeStep, ComposeCheck, MakeDirectory, WriteFile, ComposeUp, ComposeVerify, ComposeUndo, Wipe,
        ComposeDown, Erase, RemoteRemove, WslRemove, RemoveDirectory, ConfirmRemoved, Command, Removed
<1>2. CASE AzureStep(d)
  BY <1>2 DEF AzureSteps, AzureStep, GroupCheck, CreateGroup, StartDeployment, Poll, AzureVerify,
              InspectGroup, DeleteGroup, AwaitGone
<1>3. CASE CloudflareStep(d)
  BY <1>3 DEF CloudflareSteps, CloudflareStep, NamesCheck, CreateDatabase, WriteOwnershipMarker, Migrate,
              UploadWorker, Expose, CloudflareVerify, FindDatabase, NoWorker, FindWorker, DeleteWorker,
              DeleteDatabase
<1> QED
  BY <1>1, <1>2, <1>3 DEF AdapterStep

\* Every step keeps the types.
LEMMA TypeStep ==
    ASSUME TypeOK, [Next]_vars
    PROVE  TypeOK'
<1>1. OperationTypeOK(AdapterSteps) /\ HostTypeOK /\ CloudTypeOK /\ AccountTypeOK
  BY DEF TypeOK, AdapterSteps
<1>2. (OperationTypeOK(AdapterSteps) /\ HostTypeOK /\ CloudTypeOK /\ AccountTypeOK)' => TypeOK'
  BY DEF TypeOK, AdapterSteps
<1>3. /\ UNCHANGED operation => OperationTypeOK(AdapterSteps)'
      /\ UNCHANGED host => HostTypeOK'
      /\ UNCHANGED cloud => CloudTypeOK'
      /\ UNCHANGED account => AccountTypeOK'
  BY <1>1 DEF operation, host, cloud, account, OperationTypeOK, HostTypeOK, CloudTypeOK, AccountTypeOK
<1>4. ASSUME NEW d \in Deployments, AdapterStep(d)
      PROVE  TypeOK'
  <2>1. OperationTypeOK(AdapterSteps)'
    <3>1. Commit(d) => OperationTypeOK(AdapterSteps)'
      BY <1>1 DEF Commit, Close, OperationTypeOK
    <3> QED
      BY <1>1, <1>4, <3>1, AdapterMoves, GoType, FailType, SucceedType
  <2>2. HostTypeOK' /\ CloudTypeOK' /\ AccountTypeOK'
    BY <1>3, <1>4, HostType, CloudType, AccountType DEF AdapterStep, Commit
  <2> QED
    BY <1>2, <2>1, <2>2
<1>5. ASSUME NEW d \in Deployments, OperatorStep(d)
      PROVE  TypeOK'
  <2>1. UNCHANGED <<host, cloud, account>>
    BY <1>5 DEF OperatorStep, CleanupTargetRemnant
  <2>2. ASSUME Recover(d)
        PROVE  OperationTypeOK(AdapterSteps)'
    BY <1>1, <2>2, RecoveringType DEF Recover
  <2>3. ASSUME CleanupTargetRemnant(d)
        PROVE  OperationTypeOK(AdapterSteps)'
    BY <1>1, <2>3, GoType DEF CleanupTargetRemnant, CallSteps
  <2>4. ASSUME NEW kind \in {"install", "uninstall"}, Begin(d, kind)
        PROVE  OperationTypeOK(AdapterSteps)'
    BY <1>1, <2>4 DEF Begin, OperationTypeOK, Operations
  <2>5. OperationTypeOK(AdapterSteps)'
    BY <1>5, <2>2, <2>3, <2>4 DEF OperatorStep
  <2> QED
    BY <1>2, <1>3, <2>1, <2>5 DEF host, cloud, account
<1>6. CASE Crash
  BY <1>1, <1>2, <1>3, <1>6 DEF Crash, OperationTypeOK
<1>7. CASE ArmStep
  <2>1. CloudTypeOK'
    BY <1>1, <1>7 DEF ArmStep, DeploymentSettles, GroupGone, CloudTypeOK, Owners
  <2> QED
    BY <1>2, <1>3, <1>7, <2>1 DEF ArmStep, DeploymentSettles, GroupGone
<1>8. CASE Strangers
  <2>1. HostStrangersLeave \/ (\E d \in Deployments : OperatorEdits(d)) => HostTypeOK'
    BY <1>1 DEF HostStrangersLeave, OperatorEdits, HostTypeOK, Owners, FileNames
  <2>2. GroupStrangersLeave => CloudTypeOK'
    BY <1>1 DEF GroupStrangersLeave, CloudTypeOK
  <2>3. AccountStrangersLeave => AccountTypeOK'
    BY <1>1 DEF AccountStrangersLeave, AccountTypeOK
  <2>4. UNCHANGED operation
    BY <1>8 DEF Strangers, HostStrangersLeave, OperatorEdits, GroupStrangersLeave, AccountStrangersLeave
  <2> QED
    BY <1>2, <1>3, <1>8, <2>1, <2>2, <2>3, <2>4 DEF Strangers
<1>9. CASE UNCHANGED vars
  BY <1>2, <1>3, <1>9 DEF vars
<1> QED
  BY <1>4, <1>5, <1>6, <1>7, <1>8, <1>9 DEF Next

\* The types hold at the start.
LEMMA TypeInit == Init => TypeOK
BY DEF Init, TypeOK, OperationInit, OperationTypeOK, HostInit, HostTypeOK, CloudInit, CloudTypeOK,
       AccountInit, AccountTypeOK, Operations, Owners, NoFiles, FileNames, DeploymentFiles, Targets, Compose

-----------------------------------------------------------------------------
(* The operator's steps, and those of others.                              *)

\* Begin, recovery and clean-up find no call under way and start one.
LEMMA OperatorStepGood ==
    ASSUME Inv, ~Overlap, NEW d \in Deployments, OperatorStep(d)
    PROVE  (\A e \in Deployments : call[e] = "none") /\ Good(d)
<1>1. \A e \in Deployments : call[e] = "none"
  BY DEF OperatorStep, Recover, CleanupTargetRemnant, Begin, MayCall
<1>2. UNCHANGED <<host, cloud, account>>
  BY DEF OperatorStep, CleanupTargetRemnant
<1>3. OperationTypeOK(AdapterSteps) /\ Sound /\ Control(d) /\ Left(d)
  BY DEF Inv, TypeOK, AdapterSteps
<1>4. target' = target => Effect(d)
  BY <1>2, <1>3, NoEffect
<1>5. ASSUME call'[d] \in {"check", "remove", "undo"}
      PROVE  Known(d)'
  BY <1>5 DEF Known, HostKnown, CloudKnown, AccountKnown
<1>6. CASE Recover(d)
  <2> DEFINE k == op[d].kind
  <2>1. op[d] # NoOp /\ op[d] \in Operations
    BY <1>3, <1>6 DEF Recover, OperationTypeOK
  <2>2. /\ OperationTypeOK(AdapterSteps)' /\ Only(d) /\ installed' = installed
        /\ op'[d] = [kind |-> k, phase |-> "recovering"]
        /\ call'[d] = IF k = "install" THEN "undo" ELSE "remove"
    BY <1>3, <1>6, RecoveringType DEF Recover, RecoverStep
  <2>3. k \in {"install", "uninstall"} /\ (k = "install" <=> ~installed[d])
    BY <1>3, <2>1 DEF Control, Operations
  <2>4. op'[d] # NoOp /\ op'[d].kind = k /\ op'[d].phase = "recovering"
    BY <2>2, <2>3, OperationIsNotNoOp DEF Operations
  <2>5. Effect(d)
    BY <1>4, <2>2 DEF Only
  <2>6. Left(d)'
    BY <1>3, <2>1, <2>2, <2>4, <2>5 DEF Left, Effect, Tidy
  <2> HIDE DEF k
  <2>7. Control(d)'
    BY <2>2, <2>3, <2>4
    DEF Control, Fits, At, Uninstalling, Removing, ApplySteps, RemovalSteps, ComposeSteps, AzureSteps, CloudflareSteps
  <2>8. Known(d)'
    BY <1>5, <2>2
  <2> QED
    BY <1>1, <2>2, <2>5, <2>6, <2>7, <2>8 DEF Good
<1>7. CASE CleanupTargetRemnant(d)
  <2>1. op[d] = NoOp /\ ~installed[d] /\ target = "wsl" /\ Go(d, "remove")
    BY <1>7 DEF CleanupTargetRemnant
  <2>2. /\ OperationTypeOK(AdapterSteps)' /\ Only(d) /\ op' = op /\ installed' = installed
        /\ call'[d] = "remove" /\ target' = target
    BY <1>3, <2>1, GoType DEF CallSteps, Go
  <2>3. Effect(d) /\ Known(d)'
    BY <1>4, <1>5, <2>2
  <2>4. Control(d)'
    BY <2>1, <2>2 DEF Control, Fits, ApplySteps, RemovalSteps, ComposeSteps, AzureSteps, CloudflareSteps
  <2>5. Left(d)'
    BY <1>3, <2>1, <2>2, <2>3 DEF Left, Effect, Tidy
  <2> QED
    BY <1>1, <2>2, <2>3, <2>4, <2>5 DEF Good
<1>8. ASSUME NEW kind \in {"install", "uninstall"}, Begin(d, kind)
      PROVE  Good(d)
  <2>1. /\ op[d] = NoOp /\ ((kind = "install") <=> ~installed[d])
        /\ op'[d] = [kind |-> kind, phase |-> "staged"]
        /\ call'[d] = (IF kind = "install" THEN "check" ELSE "remove")
        /\ target' = target /\ installed' = installed
    BY <1>3, <1>8 DEF Begin, OperationTypeOK
  <2>2. OperationTypeOK(AdapterSteps)' /\ Only(d)
    BY <1>3, <1>8 DEF Begin, OperationTypeOK, Only, Operations
  <2>3. op'[d] # NoOp /\ op'[d].kind = kind /\ op'[d].phase = "staged"
    BY <2>1, OperationIsNotNoOp DEF Operations
  <2>4. Effect(d) /\ Known(d)'
    BY <1>4, <1>5, <2>1
  <2>5. Control(d)'
    BY <2>1, <2>3
    DEF Control, Fits, At, Uninstalling, Removing, ApplySteps, RemovalSteps, ComposeSteps, AzureSteps, CloudflareSteps
  <2>6. kind = "uninstall" => Evident(d)'
    <3>1. kind = "uninstall" => Intact(d)
      BY <1>3, <2>1 DEF Left
    <3>2. ~Compose => \A f \in FileNames : files[f] = None
      BY <1>3 DEF Sound, HostSound
    <3> QED
      BY <1>2, <3>1, <3>2, OwnersAssumption DEF Evident, Intact, host, FileNames
  <2>7. Left(d)'
    BY <2>1, <2>3, <2>6 DEF Left
  <2> QED
    BY <1>1, <2>2, <2>4, <2>5, <2>7 DEF Good
<1> QED
  BY <1>1, <1>6, <1>7, <1>8 DEF OperatorStep

\* A step of a call or of the operator keeps the invariant.
LEMMA InvCall ==
    ASSUME Inv, ~Overlap, NEW d \in Deployments, AdapterStep(d) \/ OperatorStep(d), TypeOK'
    PROVE  Inv'
<1>1. Good(d) /\ \A e \in Deployments \ {d} : call[e] = "none"
  <2>1. CASE AdapterStep(d)
    BY <2>1, AdapterStepGood DEF Inv, OneCall
  <2>2. CASE OperatorStep(d)
    BY <2>2, OperatorStepGood
  <2> QED
    BY <2>1, <2>2
<1>2. Only(d) /\ Spared(d) /\ Sound' /\ Control(d)' /\ Known(d)' /\ Left(d)'
  BY <1>1 DEF Good, Effect
<1>3. \A e \in Deployments \ {d} : Control(e)' /\ Known(e)' /\ Left(e)'
  BY <1>1, <1>2, OthersHold
<1>4. OneCall'
  BY <1>1, <1>2 DEF OneCall, Only
<1> QED
  BY <1>2, <1>3, <1>4 DEF Inv

\* A crash ends the calls, and leaves what was done.
LEMMA InvCrash ==
    ASSUME Inv, Crash, TypeOK'
    PROVE  Inv'
<1>1. \A d \in Deployments : call'[d] = "none" /\ op'[d] = op[d] /\ installed'[d] = installed[d]
  BY DEF Crash
<1>2. UNCHANGED <<target, host, cloud, account>>
  BY DEF Crash
<1>3. Sound'
  BY <1>2 DEF Inv, Sound, HostSound, CloudSound, AccountSound, Compose, host, cloud, account
<1>4. OneCall'
  BY <1>1 DEF OneCall
<1>5. ASSUME NEW d \in Deployments
      PROVE  Control(d)' /\ Known(d)' /\ Left(d)'
  <2>1. Control(d)' /\ Known(d)'
    BY <1>1
    DEF Inv, Control, Fits, ApplySteps, RemovalSteps, ComposeSteps, AzureSteps, CloudflareSteps,
        Known, HostKnown, CloudKnown, AccountKnown
  <2>2. /\ Intact(d) => Intact(d)'
        /\ Absent(d) => Absent(d)'
        /\ Evident(d) => Evident(d)'
    BY <1>2 DEF Intact, Absent, Evident, Compose, AzureDeployed, Serving, WorkerDeployed, host, cloud, account
  <2>3. Left(d)'
    BY <1>1, <1>2, <2>2 DEF Inv, Left, cloud
  <2> QED
    BY <2>1, <2>3
<1> QED
  BY <1>3, <1>4, <1>5 DEF Inv

\* What is done by others than the adapters.
LEMMA InvOthers ==
    ASSUME Inv, TypeOK', UNCHANGED operation, Sound',
           \A d \in Deployments : /\ Known(d)'
                                  /\ Left(d) => Left(d)'
    PROVE  Inv'
BY DEF Inv, operation, OneCall, Control, Fits, At, Removing, Uninstalling, Compose

\* Azure Resource Manager goes on.
LEMMA InvArm ==
    ASSUME Inv, ArmStep, TypeOK'
    PROVE  Inv'
<1>1. UNCHANGED operation /\ UNCHANGED <<host, account>>
  BY DEF ArmStep, DeploymentSettles, GroupGone
<1>2. CASE DeploymentSettles
  <2>1. arm = "running" /\ UNCHANGED <<group, deleting>>
    BY <1>2 DEF DeploymentSettles
  <2>2. Sound'
    BY <1>1, <2>1 DEF Inv, Sound, HostSound, CloudSound, AccountSound, Compose, operation, host, account
  <2>3. ASSUME NEW d \in Deployments
        PROVE  Known(d)' /\ (Left(d) => Left(d)')
    <3>1. Known(d)'
      BY <1>1, <2>1
      DEF Inv, Known, HostKnown, CloudKnown, AccountKnown, Vacant, Written, CleanupAllowed, FilesOf,
          NoResources, operation, host, account
    <3>2. Left(d) => Left(d)'
      BY <1>1, <2>1
      DEF Left, Intact, Absent, Evident, Compose, AzureDeployed, Serving, WorkerDeployed,
          operation, host, account
    <3> QED
      BY <3>1, <3>2
  <2> QED
    BY <1>1, <2>2, <2>3, InvOthers
<1>3. CASE GroupGone
  <2>1. deleting /\ group' = None /\ arm' = "none" /\ ~deleting'
    BY <1>3 DEF GroupGone
  <2>2. group \in Deployments /\ target = "azure"
    BY <2>1, OwnersAssumption DEF Inv, Sound, CloudSound
  <2>3. Sound'
    BY <1>1, <2>1, <2>2 DEF Inv, Sound, HostSound, CloudSound, AccountSound, Compose, operation, host, account
  <2>4. ASSUME NEW d \in Deployments
        PROVE  Known(d)' /\ (Left(d) => Left(d)')
    <3>1. Known(d)'
      BY <1>1, <2>1
      DEF Inv, Known, HostKnown, CloudKnown, AccountKnown, Vacant, Written, CleanupAllowed, FilesOf,
          NoResources, operation, host, account
    <3>2. Left(d) => Left(d)'
      BY <1>1, <2>1, <2>2, OwnersAssumption
      DEF Left, Intact, Absent, Evident, Compose, AzureDeployed, Serving, WorkerDeployed,
          operation, host, account
    <3> QED
      BY <3>1, <3>2
  <2> QED
    BY <1>1, <2>3, <2>4, InvOthers
<1> QED
  BY <1>2, <1>3 DEF ArmStep

\* Strangers give up a group or what they have in an account.
LEMMA InvCloudStrangers ==
    ASSUME Inv, TypeOK', \/ GroupStrangersLeave /\ UNCHANGED <<host, account>>
                         \/ AccountStrangersLeave /\ UNCHANGED <<host, cloud>>
    PROVE  Inv'
<1>1. UNCHANGED operation /\ UNCHANGED host
  BY DEF GroupStrangersLeave, AccountStrangersLeave
<1>2. /\ group' = group \/ (group = Foreign /\ group' = None)
      /\ UNCHANGED <<arm, deleting, marked, exposed>>
      /\ group' # group => arm = "none"
      /\ database' = database \/ (database = Foreign /\ database' = None)
      /\ worker' = worker \/ (worker = Foreign /\ worker' = None)
  BY DEF GroupStrangersLeave, AccountStrangersLeave, cloud, account
<1>3. Sound'
  BY <1>1, <1>2, OwnersAssumption
  DEF Inv, TypeOK, AccountTypeOK, Sound, HostSound, CloudSound, AccountSound, Compose, operation, host
<1>4. ASSUME NEW d \in Deployments
      PROVE  Known(d)' /\ (Left(d) => Left(d)')
  <2>1. Known(d)'
    BY <1>1, <1>2, OwnersAssumption
    DEF Inv, Known, HostKnown, CloudKnown, AccountKnown, Vacant, Written, CleanupAllowed, FilesOf,
        NoResources, operation, host
  <2>2. Left(d) => Left(d)'
    BY <1>1, <1>2, OwnersAssumption
    DEF Left, Intact, Absent, Evident, Compose, AzureDeployed, Serving, WorkerDeployed, operation, host
  <2> QED
    BY <2>1, <2>2
<1> QED
  BY <1>1, <1>3, <1>4, InvOthers

\* Strangers take what is theirs from a host, and the operator undoes an edit.
LEMMA InvHostStrangers ==
    ASSUME Inv, TypeOK', HostStrangersLeave, UNCHANGED <<cloud, account>>
    PROVE  Inv'
<1> USE OwnersAssumption DEF FileNames, DeploymentFiles
<1>1. UNCHANGED operation
  BY DEF HostStrangersLeave
<1>2. /\ container' = (IF container = Foreign THEN None ELSE container)
      /\ volume' = (IF volume = Foreign THEN None ELSE volume)
      /\ \A f \in FileNames : files'[f] = IF files[f] # Foreign THEN files[f]
                                          ELSE IF f = "env" THEN files.marker ELSE None
      /\ directory' = (directory /\ (files' = files \/ files' # NoFiles))
      /\ up' = up
  BY DEF HostStrangersLeave
<1>3. files \in [FileNames -> Owners \cup {None}] /\ files' \in [FileNames -> Owners \cup {None}]
  BY DEF Inv, TypeOK, HostTypeOK
<1>4. /\ ~directory' => \A f \in FileNames : files'[f] = None
      /\ directory /\ (\A f \in FileNames : files[f] # Foreign) => directory'
      /\ directory' => directory
  <2>1. directory /\ (\A f \in FileNames : files[f] # Foreign) => files' = files
    BY <1>2, <1>3
  <2>2. ~directory => \A f \in FileNames : files[f] = None
    BY DEF Inv, Sound, HostSound
  <2> QED
    BY <1>2, <2>1, <2>2 DEF NoFiles
<1>5. HostSound /\ CloudSound' /\ AccountSound'
  BY <1>1, OnHost DEF Inv, Sound, operation
<1>6. HostSound'
  BY <1>1, <1>2, <1>4, <1>5 DEF HostSound, Compose, operation
<1>7. ASSUME NEW d \in Deployments
      PROVE  Known(d)' /\ (Left(d) => Left(d)')
  <2>1. HostKnown(d)'
    BY <1>1, <1>2, <1>4
    DEF Inv, Known, HostKnown, Vacant, Written, CleanupAllowed, FilesOf, NoResources, operation
  <2>2. CloudKnown(d)' /\ AccountKnown(d)'
    BY <1>1 DEF Inv, Known, CloudKnown, AccountKnown, operation, cloud, account
  <2>3. /\ Intact(d) => Intact(d)'
        /\ Absent(d) => Absent(d)'
        /\ Evident(d) => Evident(d)'
    BY <1>1, <1>2, <1>5
    DEF Intact, Absent, Evident, HostSound, Compose, AzureDeployed, Serving, WorkerDeployed,
        operation, cloud, account
  <2>4. Left(d) => Left(d)'
    BY <1>1, <2>3 DEF Left, operation, cloud
  <2> QED
    BY <2>1, <2>2, <2>4 DEF Known
<1> QED
  BY <1>1, <1>5, <1>6, <1>7, InvOthers DEF Sound

\* The operator edits a file of what is installed, where nobody else has
\* anything and no call is at work.
LEMMA InvEdit ==
    ASSUME Inv, TypeOK', NEW d \in Deployments, OperatorEdits(d), UNCHANGED <<cloud, account>>
    PROVE  Inv'
<1> USE OwnersAssumption DEF FileNames, DeploymentFiles
<1>1. UNCHANGED operation /\ UNCHANGED <<directory, container, volume, up>> /\ Compose
      /\ op[d] = NoOp /\ installed[d]
  BY DEF OperatorEdits
<1>2. PICK f \in {"env", "other"} : files' = [files EXCEPT ![f] = Foreign]
  BY DEF OperatorEdits
<1>3. \A g \in FileNames : files'[g] = IF g = f THEN Foreign ELSE files[g]
  BY <1>2 DEF Inv, TypeOK, HostTypeOK
<1>4. /\ container = d /\ volume = d /\ files.marker = d /\ directory
      /\ files.compose = d /\ files.override = d /\ files.env \in {d, Foreign}
  BY <1>1 DEF Inv, Left, Intact, Sound, HostSound
<1>5. Sound'
  BY <1>1, <1>3, <1>4, OnHost DEF Inv, Sound, HostSound, Compose, operation
<1>6. ASSUME NEW e \in Deployments
      PROVE  Known(e)' /\ (Left(e) => Left(e)')
  <2>1. call[e] \notin {"mkdir", "compose", "override", "env", "marker", "up", "down", "erase", "wipe", "rmdir"}
    <3>1. call[d] = "none"
      BY <1>1 DEF Inv, Control
    <3> QED
      BY <1>4, <3>1 DEF Inv, Known, HostKnown, Vacant, Written, CleanupAllowed, NoResources
  <2>2. Known(e)'
    BY <1>1, <2>1 DEF Inv, Known, HostKnown, CloudKnown, AccountKnown, operation, cloud, account
  <2>3. /\ Intact(e) => Intact(e)'
        /\ Absent(e) => Absent(e)'
        /\ Evident(e) => Evident(e)'
    BY <1>1, <1>3, <1>4
    DEF Intact, Absent, Evident, Compose, AzureDeployed, Serving, WorkerDeployed, operation, cloud, account
  <2>4. Left(e) => Left(e)'
    BY <1>1, <2>3 DEF Left, operation, cloud
  <2> QED
    BY <2>2, <2>4
<1> QED
  BY <1>1, <1>5, <1>6, InvOthers

\* Nothing changes.
LEMMA InvStutter ==
    ASSUME Inv, TypeOK', UNCHANGED vars
    PROVE  Inv'
<1>1. UNCHANGED operation /\ UNCHANGED <<host, cloud, account>>
  BY DEF vars
<1>2. Sound'
  BY <1>1 DEF Inv, Sound, HostSound, CloudSound, AccountSound, Compose, operation, host, cloud, account
<1>3. ASSUME NEW d \in Deployments
      PROVE  Known(d)' /\ (Left(d) => Left(d)')
  <2>1. Known(d)'
    BY <1>1
    DEF Inv, Known, HostKnown, CloudKnown, AccountKnown, Vacant, Written, CleanupAllowed, FilesOf,
        NoResources, operation, host, cloud, account
  <2>2. Left(d) => Left(d)'
    BY <1>1
    DEF Left, Intact, Absent, Evident, Compose, AzureDeployed, Serving, WorkerDeployed,
        operation, host, cloud, account
  <2> QED
    BY <2>1, <2>2
<1> QED
  BY <1>1, <1>2, <1>3, InvOthers

\* At the start the names may be strangers', and nothing is Ranch Hand's.
LEMMA InvInit ==
    ASSUME Init
    PROVE  Inv
<1> USE OwnersAssumption DEF FileNames, DeploymentFiles
<1>1. /\ op = [d \in Deployments |-> NoOp] /\ call = [d \in Deployments |-> "none"]
      /\ installed = [d \in Deployments |-> FALSE] /\ target \in Targets
  BY DEF Init, OperationInit
<1>2. /\ container \in {None, Foreign} /\ volume \in {None, Foreign}
      /\ \A f \in FileNames : files[f] \in IF f \in {"compose", "other"} THEN {None, Foreign} ELSE {None}
      /\ ~directory => \A f \in FileNames : files[f] = None
      /\ ~Compose => ~directory /\ container = None /\ volume = None
  BY DEF Init, HostInit, NoFiles
<1>3. /\ group \in {None, Foreign} /\ arm = "none" /\ ~deleting
      /\ target # "azure" => group = None
  BY DEF Init, CloudInit
<1>4. /\ database \in {None, Foreign} /\ marked = None /\ worker \in {None, Foreign}
      /\ target # "cloudflare" => database = None /\ worker = None
  BY DEF Init, AccountInit
<1>5. Sound
  BY <1>2, <1>3, <1>4 DEF Sound, HostSound, CloudSound, AccountSound
<1>6. OneCall
  BY <1>1 DEF OneCall
<1>7. ASSUME NEW d \in Deployments
      PROVE  Control(d) /\ Known(d) /\ Left(d)
  <2>1. Control(d) /\ Known(d)
    BY <1>1
    DEF Control, Fits, ApplySteps, RemovalSteps, ComposeSteps, AzureSteps, CloudflareSteps,
        Known, HostKnown, CloudKnown, AccountKnown
  <2>2. Left(d)
    BY <1>1, <1>2, <1>3, <1>4 DEF Left, Absent
  <2> QED
    BY <2>1, <2>2
<1> QED
  BY <1>5, <1>6, <1>7, TypeInit DEF Inv

\* The invariant holds of every run with one adapter call at a time.
THEOREM Invariance ==
    ASSUME ~Overlap
    PROVE  Spec => []Inv
<1>1. Init => Inv
  BY InvInit
<1>2. ASSUME Inv, [Next]_vars
      PROVE  Inv'
  <2>1. TypeOK'
    BY <1>2, TypeStep DEF Inv
  <2>2. CASE \E d \in Deployments : AdapterStep(d) \/ OperatorStep(d)
    BY <1>2, <2>1, <2>2, InvCall
  <2>3. CASE Crash
    BY <1>2, <2>1, <2>3, InvCrash
  <2>4. CASE ArmStep
    BY <1>2, <2>1, <2>4, InvArm
  <2>5. CASE Strangers
    BY <1>2, <2>1, <2>5, InvHostStrangers, InvEdit, InvCloudStrangers DEF Strangers
  <2>6. CASE UNCHANGED vars
    BY <1>2, <2>1, <2>6, InvStutter
  <2> QED
    BY <1>2, <2>2, <2>3, <2>4, <2>5, <2>6 DEF Next
<1> QED
  BY <1>1, <1>2, PTL DEF Spec

-----------------------------------------------------------------------------
(* The properties.                                                         *)

\* The state is what it is said to be, however many calls overlap.
THEOREM TypeCorrect == Spec => []TypeOK
<1>1. TypeOK /\ [Next]_vars => TypeOK'
  BY TypeStep
<1> QED
  BY <1>1, TypeInit, PTL DEF Spec

\* What the inventory says is there is there, whatever failed on the way: an
\* active deployment has all it was committed with, and one that was removed or
\* undone has left no resource and no evidence under its names.
THEOREM DeployedAsSaid ==
    ASSUME ~Overlap
    PROVE  Spec => []InventoryIsDeployed
<1>1. ASSUME Inv
      PROVE  InventoryIsDeployed
  <2> SUFFICES ASSUME NEW d \in Deployments, op[d] = NoOp
               PROVE  IF ~installed[d] THEN d \notin Evidence
                      ELSE CASE Compose -> /\ container = d /\ up /\ volume = d /\ files.marker = d
                                           /\ \A f \in DeploymentFiles : files[f] \in {d, Foreign}
                             [] OTHER   -> TargetDeployed(d)
    BY DEF InventoryIsDeployed
  <2>1. IF installed[d] THEN Intact(d) ELSE Absent(d)
    BY <1>1 DEF Inv, Left
  <2>2. Absent(d) => d \notin Evidence
    BY DEF Absent, Evidence, FileNames
  <2>3. Compose \/ target = "azure" \/ target = "cloudflare"
    BY <1>1 DEF Inv, TypeOK, OperationTypeOK, Targets, Compose
  <2>4. ~Compose /\ Intact(d) => TargetDeployed(d)
    BY <2>3 DEF Intact, TargetDeployed, Compose
  <2> QED
    BY <2>1, <2>2, <2>4 DEF Intact
<1> QED
  BY <1>1, Invariance, PTL

\* Neither does one that was undone leave files that never had a marker.
THEOREM TransfersAreCleared ==
    ASSUME ~Overlap
    PROVE  Spec => []TransferCleared
<1>1. Inv => TransferCleared
  BY DEF Inv, Left, Absent, TransferCleared, FileNames
<1> QED
  BY <1>1, Invariance, PTL

\* Whatever an operation left where it stopped, recovery takes it on, unless
\* others have something of those names or the evidence of who owns it is lost.
THEOREM RecoveryAccepts ==
    ASSUME ~Overlap
    PROVE  Spec => []OnlyLostEvidenceIsRefused
<1> USE OwnersAssumption DEF FileNames, DeploymentFiles
<1>1. ASSUME Inv
      PROVE  OnlyLostEvidenceIsRefused
  <2> SUFFICES ASSUME NEW d \in Deployments, op[d] # NoOp, Present \subseteq {None, d}
               PROVE  Accepted(d) \/ EvidenceLost(d)
    BY DEF OnlyLostEvidenceIsRefused
  <2>1. /\ container \in {None, d} /\ volume \in {None, d} /\ \A f \in FileNames : files[f] \in {None, d}
        /\ group \in {None, d} /\ database \in {None, d} /\ marked \in {None, d} /\ worker \in {None, d}
    BY DEF Present, HostOwners, Evidence
  <2>2. HostSound /\ AccountSound /\ TypeOK /\ Left(d)
    BY <1>1 DEF Inv, Sound
  <2>3. files \in [FileNames -> Owners \cup {None}] /\ op[d].kind \in {"install", "uninstall"}
    BY <2>2 DEF TypeOK, HostTypeOK, OperationTypeOK, Operations
  <2>4. CASE Compose
    <3>1. CASE files.marker = d /\ files.compose = d
      <4>1. HostAccepts(d)
        BY <2>1, <2>2, <3>1 DEF HostSound, HostAccepts, CleanupAllowed, FilesOf
      <4> QED
        BY <2>4, <4>1 DEF Accepted, Compose
    <3>2. CASE files.marker = d /\ files.compose = None
      <4>1. \A f \in FileNames : files[f] = IF f = "marker" THEN d ELSE None
        BY <2>1, <2>2, <3>2 DEF HostSound
      <4>2. files = [NoFiles EXCEPT !.marker = d]
        BY <2>3, <4>1 DEF NoFiles
      <4> QED
        BY <2>4, <4>2 DEF EvidenceLost, HostEvidenceLost, Compose
    <3>3. CASE files.marker = None
      <4>1. NoResources
        BY <2>1, <2>2, <3>3 DEF HostSound, NoResources
      <4>2. op[d].kind = "uninstall" => \A f \in FileNames : files[f] = None
        BY <2>1, <2>2, <3>3 DEF HostSound, Left, Evident
      <4>3. op[d].kind = "uninstall" => files = NoFiles
        BY <2>3, <4>2 DEF NoFiles
      <4> QED
        BY <2>3, <2>4, <3>3, <4>1, <4>3
        DEF Compose, Accepted, HostAccepts, EvidenceLost, HostEvidenceLost
    <3> QED
      BY <2>1, <2>2, <3>1, <3>2, <3>3
  <2>5. CASE target = "azure"
    BY <2>1, <2>5 DEF Accepted, Compose
  <2>6. CASE target = "cloudflare"
    <3>1. database = None => worker = None
      BY <2>1, <2>2 DEF AccountSound
    <3>2. database = d /\ marked # d => worker = None
      BY <2>1, <2>2 DEF AccountSound
    <3> QED
      BY <2>1, <2>6, <3>1, <3>2 DEF Accepted, EvidenceLost, Compose
  <2> QED
    BY <2>2, <2>4, <2>5, <2>6 DEF TypeOK, OperationTypeOK, Targets, Compose
<1> QED
  BY <1>1, Invariance, PTL

\* Nothing that carries the evidence of another owner is touched by the calls of
\* a deployment.
THEOREM NobodyElsesTouched ==
    ASSUME ~Overlap
    PROVE  Spec => OthersUntouched
<1> DEFINE A == \A d \in Deployments : call'[d] # call[d] => Untouched(d)
<1>1. ASSUME Inv, [Next]_vars
      PROVE  A
  <2>1. ASSUME NEW d \in Deployments, AdapterStep(d) \/ OperatorStep(d)
        PROVE  A
    <3>1. Good(d)
      BY <1>1, <2>1, AdapterStepGood, OperatorStepGood DEF Inv
    <3> QED
      BY <3>1 DEF Good, Only, Effect
  <2>2. CASE Crash
    BY <2>2 DEF Crash, Untouched, host, cloud, account
  <2>3. CASE ArmStep \/ Strangers \/ UNCHANGED vars
    BY <2>3
    DEF ArmStep, DeploymentSettles, GroupGone, Strangers, HostStrangersLeave, OperatorEdits,
        GroupStrangersLeave, AccountStrangersLeave, vars, operation
  <2> QED
    BY <1>1, <2>1, <2>2, <2>3 DEF Next
<1>2. Inv /\ [Next]_vars => [A]_vars
  BY <1>1
<1> QED
  BY <1>2, Invariance, PTL DEF Spec, OthersUntouched

=============================================================================
