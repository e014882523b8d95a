# Ranch Hand: a verification project

TLA+ models of Ranch Hand's lifecycle core, the configurations that model-check
them with TLC, and theorems about them that TLAPS checks. Paths are relative to
the repository root; `PROJECT.json` gives, for every definition, the lines of
code it models, and lists the runs, the mutants that show each property can
fail, the findings, the hazards and the theorems.

## 1. The system

Ranch Hand is one Windows process that serves a loopback web interface and
installs, updates, backs up, restores, rolls back, repairs and removes a
RepoWrangler deployment on one of five kinds of target. It must never lose a
deployment it was in the middle of changing: every operation is journalled on
disk under an exclusive per-deployment lock, changes are backup-first, and an
interrupted operation is closed or recovered later, perhaps by another process.

| Component | State it keeps | Operations | What makes it correct |
|---|---|---|---|
| **Lifecycle store** `internal/lifecycle` | per deployment, on disk: the lock file `active`, one journal per operation, the plan copy, `installation.json`, backup records; in memory one mutex | `Begin`, `Transition`, `RecordBackup`, the reads | journals it writes can be read; an open operation keeps the lock; the inventory changes exactly once per committed operation and before the lock is released; a crash or a failed write at any point leaves a state that is visible and can go on |
| **Operation coordinator** `internal/operations` | none of its own; the sessions under way | `Run`, `RecoverActive`, `recover` | the target changes only under the lock and after `staged` is durable; recovery uses the operation's own backup; the lock is not released while the target is uncertain; every operation ends |
| **Local Docker adapter** `internal/adapter/docker_*.go` | containers and volumes in the engine, archives on disk | `Backup`, `Apply`, `Verify`, `Recover`, `RollbackPool`, `PruneRollbackPool` | what is replaced survives until it is not needed; recovery accepts and undoes every state Apply can stop in; resources of others are untouched |
| **Loopback server** `internal/server` | for one run of the process: the release verified for each version and target, the plans whose preflight was ready | the handlers of the loopback API, each in a goroutine | only verified releases and plans that passed preflight reach the coordinator, however old the preflight is; pruning and recovery do not collide with operations |
| **Release service** `internal/release`, **companion image** `adapter/wsl_image.go` | a cache on disk, one archive per artifact, one image archive | look up, download, replace | what is used was verified, although files are removed and renamed without a lock |
| **Bundle stager** `internal/bundle` | a staging directory per artifact and target family, a mutex | `Stage` | what an adapter is handed is what the archive holds, although the directory is read after the mutex is released |
| **WSL adapter**, **remote Linux adapter** `adapter/wsl*.go`, `adapter/remote*.go` | an owned directory with a marker, a Compose project | install, verify, recover, remove, clean up remnants | removal only of what the marker, or the absence of anything else, shows to be ours; recovery accepts every state an install or a removal can stop in |
| **Azure adapter**, **Cloudflare adapter** `adapter/azure*.go`, `adapter/cloudflare*.go` | a tagged resource group and its deployment; a marked database and a Worker bound to it | install, verify, recover, remove | ordered creation and deletion, evidence of ownership before any deletion, polling of what goes on by itself |
| **Plan**, **preflight**, **diagnostics**, **web interface** | none | validation, probes, projections | pure functions or read-only |

How they interact: an HTTP handler of the server calls the coordinator in its
own goroutine; the coordinator calls the store and one adapter in turn; the
store's handlers exclude one another by a mutex, the sessions do not. Pruning
goes from the server to the Docker adapter past the coordinator and the lock.
The server's handlers run beside one another: they share the session's maps (a
mutex), the staging directory (a mutex for the stager, none for its readers) and
the application cache (no lock). What outlives the process is the store's
directory, the cache, the staging directories and the target.

What is hard here:

- a crash or a failed write between any two durable writes (the journal, the
  record it projects, the lock);
- a recovery request that acts on a journal read before the session that runs
  the operation moved on;
- a target call that fails half-way, or takes effect without its answer
  arriving, followed by a recovery that may itself be interrupted and repeated;
- wall-clock times in durable records that are validated against one another;
- the same rules written twice (`Transition` and `Journal.Validate`, `Begin` and
  the projection): a disagreement makes a deployment unusable for ever;
- the pruning of a rollback pool beside an operation that fills it;
- evidence of ownership that is written after what it is evidence for, and
  removed before or after it;
- names that are configured and not reserved: two deployments may have the same;
- what a process remembers of a target whose state another request, or an
  earlier process, has changed.

`PROJECT.json` lists these hazards one by one, at their lines, with the
properties that cover them.

## 2. The modules

    LifecycleJournal          the journal, its phases, its validation, its projection
      └─ LifecycleStore       the store of one deployment, a durable write per step
           ├─ MCLifecycleStore          bounds for TLC
           ├─ LifecycleStoreProofs      invariants, proved
           ├─ LifecycleStoreRefinement  the refinement, proved
           └─ Coordinator               sessions and an abstract target over the store
                └─ CoordinatorProofs       its five invariants, proved
    LifecycleTransactions     what the store promises: one transaction at a time
    DockerEngine              containers, volumes, requests that fail or go unanswered
      └─ LocalDocker          Backup, Apply, Verify and Recover as request sequences
           └─ RollbackPool    pruning, and the whole local system
                └─ RollbackPoolProofs      its eight invariants and action properties, proved
                     └─ RollbackPoolRefinement  the adapter contract, proved
    AdapterContract           what the coordinator relies on in an adapter
    TargetOperation           an install or uninstall of any other target
      ├─ ComposeDirectory     remote Linux and WSL
      ├─ AzureGroup           Azure Container Apps
      ├─ CloudflareWorker     Cloudflare Workers
      └─ RemoteTargets        the three together, operators, strangers, crashes
           └─ RemoteTargetsProofs    its five safety properties, proved
    ServerRequests            concurrent requests and the operations they begin
      └─ ReleaseCache         release archives and the companion image
           └─ BundleStager    staging directories and those who read them
                └─ LoopbackServer          the session, restarts, damaged files
                     ├─ MCLoopbackServer       bounds for TLC
                     └─ LoopbackServerProofs   its three properties, proved

**LifecycleJournal** has the constants and the pure part of
`internal/lifecycle`: the phase graph (`Transitions`, journal.go:90), the
sequence a commit needs (`RequiredPhases`, :384), `Journal.Validate`
(`JournalValid`, :426) and `recordInstallationLocked` (`RecordAllowed`,
`RecordAfter`, installations.go:120). A journal is a record whose `events` is the
sequence of phases with their references and times. Event hashes, the plan
snapshot's digest and free-text fields are identities and left out.

**LifecycleStore** keeps `lock`, `journal`, `record`, `backups` (the files),
`clock`, and `call`, the handler that holds the mutex, with the next write it
will do. `Begin` and `Transition` are the in-memory part of the handlers up to
their first write; `CreateLock`, `WriteLock`, `WriteFirstJournal`, `WritePlan`,
`WriteRecord` and `RemoveLock` are one write each. A write may fail (`"write"`),
with the cleanup the code attempts, the process may stop before any (`Crash`),
and the clock may go back (`"clock"`). `reply` is what the caller is told.

**LifecycleTransactions** is the abstract specification: `Start`, `Run`, `End`,
`Settle`, `Release`. `ImplementsTransactions` in LifecycleStore maps the files
onto it: the owner is the operation the lock names, its status comes from the
last phase and from whether the record names it.

**Coordinator** adds `session`, the place of each goroutine in `Run`, `recover`
or `RecoverActive`, and `target`, the version in place and whether an adapter
left it half changed. A place names the store call or adapter call the session
is in, so that whatever a session read before a call may be stale after it.
Adapters are reduced to what the coordinator relies on: `ApplyDisturbs` and
`RecoverDisturbs` dirty the target, the calls then succeed or fail.
`RequestFormed` is what `runOperation` of the server lets through.

**DockerEngine** is Docker as the adapter uses it. A container is identified by
the volume it mounts, since each one the adapter creates has a volume of its own:
the configured one for an install, `rhv-…-<safety backup>` for a replacement. Its
`name` is the server's or that of a rollback container. `Request` is a call: it
is answered, takes effect without being answered (`"lost"`), or fails.
`Stranger` is a container, and a volume, of somebody else with the same name.

**LocalDocker** is docker_mutator.go, one action per request, in the order of
the code; `call.at` says which request is next and what the code remembers from
its inspection (`id`, `running`, `found`). The coordinator is reduced to the
phase of the operation (`Begin`, `Stage`, `Commit`, `Fail`, `Succeed`,
`Recover`), which **Coordinator** shows to be what it keeps to: an open operation
holds the deployment, Apply runs after `staged`, a failure leads to Recover, a
failed Recover leaves the operation to be recovered again.

**RollbackPool** is docker_retention.go and the server's `pruneRollbackPool`, the
application that writes to its volume, the owner of the stranger, and the crash;
`Pruning` says whether operations may begin while a pruning runs. In the code
they may; `"alone"` is the assumption under which the other properties are
checked, `"any"` is the code.

**AdapterContract** is an abstract specification of `operations.Mutator`
(coordinator.go:30) without containers, names, requests or faults: what is served
and what is set aside (`spare`), each a version with the data its application has
written. `Stage` sets aside what serves, `Deliver` is an Apply that succeeds,
`Undo` a failure after which nothing is promised, `Restore` a Recover that
succeeds, and `Write` the application, which goes on writing to what is set aside
until Apply stops it. `ImplementsContract` in RollbackPool maps the phases of the
operation, the server and the replaced container onto it; while an operation is
`staged` or recovering, whatever the containers are is hidden.

**TargetOperation** is an operation on a target that is not local Docker. `op`
is, per deployment, the operation that holds its lock; `call` the next request
of the adapter call under way. A deployment is its whole configuration: two that
differ in anything have locks of their own, and may have the same names. `Fail`
and `Succeed` are what the coordinator does with the result of a call (a failed
Apply or Verify is recovered, a failed Recover waits for the operator).
`Request` is a command or an API call: answered, done without an answer, or
failed. `Overlap` says whether two adapter calls may be under way at once.

**ComposeDirectory** is remote_mutator.go and wsl.go: one command on the host
per action. Each of the files (`compose`, `override`, `env`, the marker, and
`other` for anything else) is as good as the deployment that wrote it, since the
marker records their digests; the container and the volume are as good as their
labels. `ComposeUndo` is the decision of `Recover` between the state before the
marker was written and after it, `RemoteRemove` and `WslRemove` those of an
uninstall; WSL's second look (`ConfirmRemoved`) and the clean-up of remnants
(`CleanupTargetRemnant`) are actions of their own. `misread`
is any error of `cat` on the marker, which the remote adapter takes for a marker
that is not there.

**AzureGroup** has the group's tags, the ARM deployment and the deletion, which
ARM carries on with by itself (`DeploymentSettles`, `GroupGone`) while the
adapter polls, or after it has given up. **CloudflareWorker** has the database,
the marker in it, the Worker with its binding, and whether it is exposed.
**RemoteTargets** adds the operator's requests, the crash, and the strangers'
resources that may have the configured names and may go away.

**ServerRequests** has `req`, the goroutine's request with the next step of its
handler, and of the store and the coordinator only what the handlers can tell
apart: per target the operation of `active.lock` (`prepared`, `applying`, or its
outcome while it is not yet unlocked) and the active installations. An operation
ends in three writes, each of which may fail or be the last before the process
stops: `End` is the terminal journal, `Project` the installation record
(`Recorded`), `Unlock` the removal of the lock. `StoreFree` is the store's mutex,
which is held from the first to the last. `Begin` records and unlocks an
operation that was left in between, before it looks at the inventory. `change` stands for update, restore, rollback, repair and backup, which
the handlers treat alike.

**ReleaseCache** has the three steps of `cacheArtifact` (look up, remove,
rename) and those of the image cache. **BundleStager** has `Stage` under its
mutex (`Stage`, `Compare`, `Extract`) and the two times an Apply reads the
directory without it: the release identity first, the deployment files after the
image. A directory whose files are being removed is `part`.

**LoopbackServer** has what one run of the process remembers: `verified` and
`ready`. `VerifyRelease` to `RecoverActiveOperation` are what each handler
accepts, a definition for each; the steps after that are the handler's own
(`RecordVerified`, `Probe`, `Annotate`, `CleanupTargetRemnant`) and those of the
modules below. `Restart` empties the memory at any point, `Damage` changes files
of the cache or of a staging directory while nothing is under way.

## 3. The runs

| Run | Instance | What it shows |
|---|---|---|
| `store_faults` | 2 operations, 2 versions, 1 backup, 1 caller, crashes and failed writes; 179k states | the store's five invariants, `ReleasedAfterRecorded`, and that it implements `LifecycleTransactions` |
| `store_clock` *(violation)* | 2 operations, a clock that may be set back | a committed journal that can never be projected (finding) |
| `store_crash_in_begin` *(violation)* | a crash | a lock that names no journal (finding) |
| `coordinator_faults` | 3 operations of all kinds, 2 backups, 1 session at a time, crashes and failed writes; 220k states | inventory and target stay in step except by one named path; mutation under the lock; own backup; `OperationsClose` |
| `coordinator_fallback` *(violation)* | failed writes | that path, shown: the lock is released with the target half changed (finding) |
| `coordinator_concurrent` *(violation)* | 2 sessions, no fault | a recovery of a `prepared` operation closes it under a running Apply (finding) |
| `docker_faults` | all kinds, 2 backups, failed and unanswered requests, crashes, pruning; 46k states | what serves and what is preserved in every state an operation can stop in (eight invariants and action properties), that the local system implements `AdapterContract`, and `OperationsEnd` |
| `docker_uninstall` *(violation)* | install, repair, uninstall; no fault | after a replacement an uninstall and its recovery are always refused (finding) |
| `docker_prune` *(violation)* | install, update, pruning beside them; no fault | a pruning removes the container an update preserves (finding) |
| `targets_faults` | each of the four targets, 2 deployments with the same names, strangers' resources, failed, unanswered and misread requests, crashes; 6k states | the inventory says what is there, nothing an undone install transferred is left, others are not touched, recovery accepts every state an operation can stop in unless the evidence is gone, and operations end |
| `server_session` | 2 concurrent requests of every kind, 1 release, 2 targets that share a staging directory, failed writes, restarts, damaged files; 1.6M states | only verified files are used, and a stale ready plan does no harm |
| `server_managed` *(violation)* | 1 request at a time, local Docker | the preflight of a recorded installation is not ready, so that it cannot be changed (finding) |

**Bounds and why they are enough.** `Ops`, `BackupIds` and `MaxBackups` bound
how many operations and backups a behaviour has: when they are used up nothing
begins, which is the only reason the Coordinator and Docker configurations say
`CHECK_DEADLOCK FALSE`. Two operations are the shortest history in which one can
inherit another's record, times or lock; the coordinator has three, so that an
install, an update and a restore or rollback of the first backup fit, and the
Docker runs any number of operations with two backups, for the same reason.
Two versions tell an update from a repair. `MaxTime` is 1: two instants tell
before from after. `MaxWrites` is 1: an archive made before a write differs from
one made after. `Bounds` of MCLifecycleStore lets `update` and `restore` stand
for the four backup-first kinds, which the store tells apart only by whether they
name an input backup, with the versions the server lets through. `VIEW
WithoutReplies` identifies states that differ in what a caller was told, which
no step of the store reads; ReleasedAfterRecorded and ImplementsTransactions do
not mention it either. `coordinator_faults` has one session at a time because
two break `MutationUnderLock` without any fault (`coordinator_concurrent`).

`targets_faults` has two deployments because the hazard is one deployment meeting
what another has made, each in any stage of an install or uninstall, any number
of times; a stranger stands for every further owner. `Overlap` is `FALSE`: one
adapter call at a time, of whichever deployment, which is the assumption under
which its properties hold. With `TRUE`, TLC finds `InventoryIsDeployed`,
`OnlyLostEvidenceIsRefused` and `OthersUntouched` violated at once, because every
adapter looks whether a name is free and takes it in a later request: Azure's PUT
puts new tags on the group that another deployment has created meanwhile, and the
removal of a Compose directory without a marker takes the other's files.
`server_session` has two goroutines, so that each step of one meets each step of
the other; one release artifact, since nothing in the handlers compares two; and
two targets of one bundle family, of which local Docker has operations of every
kind and WSL is staged, prepared, cleaned up and installed beside it.
`Symmetry` permutes the goroutines, which nothing tells apart; the run has no
liveness property. `VIEW Observable` identifies states that no later step and no
property tells apart: which operation has ended, if the inventory will say the
same, for whom a directory was staged that is not whole, and why an image is not
good. A recovery is not asked for beside an operation of the same
target and process, which is `coordinator_concurrent`.

**Fairness.** The store and the coordinator: handlers and sessions go on
(`WF`), an operator asks for recovery again and again while an operation is
listed, and neither the target nor the disk nor the process fails at the same
point of a recovery each time (`SF`). ADR-0009 rests recovery on exactly that: a
failed recovery stays in `recovery-started` with the lock intact, and "A later
attempt can retry".
Nothing is assumed of `Run`, of a first Apply, or of writes outside recovery. In
RollbackPool the same is said request by request: the code repeats a recovery
from its inspection, so that strong fairness is per request, not per recovery.
`OperationsEnd` excuses an operation blocked by a stranger's container and
leaves uninstalls out, which `docker_uninstall` shows not to end.
In RemoteTargets calls go on and ARM ends what it has accepted (`WF`), the
operator asks for recovery again and again, and a request of recovery is answered
some time (`SF`). A recovery starts over from its first request, so that `SF` is per group of
requests (to look, to take away what runs, to take away what is left) and not
per recovery. `OperationsEnd` of RemoteTargets excuses strangers' resources and
`EvidenceLost`, and nothing else.

## 4. What is proved

`LifecycleStoreProofs` and `LifecycleStoreRefinement` prove, for any sets of
operations, versions, backups and callers and any combination of faults:

- `TypeCorrect`: `Spec => []TypeOK`. TypeOK is not inductive alone: `CallOK` says
  what a handler between two writes may rely on (a pending `Begin` carries one
  valid request, a finalization names the operation the lock names, …), and the
  two are proved together.
- `StepsOfTheDisk`: under TypeOK and CallOK every step is one of six changes of
  the disk (`Rest`, `Acquire`, `Open`, `Extend`, `Project`, `Release`). Everything
  below is proved of those and not of the code's actions again.
- `OpenOperationsAreLocked`, `ReleasedWhenRecorded`, `InventoryIsEarned`: an open
  operation is locked, a lock is released after its effect is recorded, the
  inventory says what an ended operation's journal says.
- `JournalsAreReadable`, `FinalizationIsPossible`: assuming `"clock" \notin
  Faults`. The strengthenings are `TimesOrdered` (times in journals and record
  do not exceed the clock, and journals are valid) and `OwnerCurrent` (while an
  operation has not been projected, the record is as its `Begin` found it).
  `store_clock` shows that the assumption is needed.
- `StoreImplementsTransactions`: `Spec => ImplementsTransactions`, from the same
  six changes, each mapped to an abstract step or a stutter.

`LoopbackServerProofs` proves the three properties of `server_session` for any
number of goroutines, any plans, artifacts and targets, and any set of requests
that may be asked for: `TypeCorrect`, `StaleReadiness` and `VerifiedIsUsed`. They
are read off one inductive invariant, `Inv` (`Invariance`), which TLC also
checked on the instance of the run. What it adds to TypeOK:

- `Control`: a request between `Begin` and the terminal journal of its operation
  owns an open operation (`Owned`), nobody else does (`OneOwner`), no recovery is
  on its way (`RecoverAlone`); at most one request is between a terminal journal
  and the removal of the lock (`OneCloses`), of an operation that has ended
  (`Finalizing`); an open operation is an install where nothing is installed and
  something else where something is (`Lawful`). The last is kept although the
  record is written after the journal, because nothing begins before `Recorded`
  is.
- `ReadingVerified`: the files are not damaged while a request is going to read
  them.

`StepMoves` shows that each of the twenty-odd steps of a request does one of six
things to it and to its operation (`Proceed`, `Stages`, `Ends`, `Begin`,
`Project`, `Unlock`), and `Control` is proved of those six.

`CoordinatorProofs` proves the five invariants of `coordinator_faults` for any
sets of operations, versions and backups, any kinds and any faults.

- With any number of sessions: `CoordinatorTypeCorrect`, and
  `CoordinatorUsesStore`, `CoordinatorSpec => Spec`. Whatever the sessions do is a
  behaviour of the store, so that each theorem of `LifecycleStoreProofs` holds of
  the coordinator too. `Asked` (a session that calls the store has a valid
  request) is what `CallOK` needs.
- With one session (`OneSession`): `MutationsAreLocked`, `RecoveryHasItsBackup`,
  `VerifiedMeansDeployed`, `TargetIsLostByFallback`. `coordinator_concurrent` shows
  that two sessions break the first without a fault. The inductive invariant says
  for each place of a session what the store holds then (`Began` before `staged`
  is written, `Changing` while Apply and Verify run, `Recovering`), what the open
  journal says of the target (`JournalsTell`, `Deployed`), and that the target is
  what the inventory says (`TargetFits`) unless the one path that loses it was
  taken (`Lost`). A session reads the store once and acts on what it read: what
  makes the invariant inductive is that with one session nobody else writes
  between. The clock does not move in CoordinatorSpec, so that a clock set back
  need not be excluded.

`RollbackPoolProofs` proves the eight invariants and action properties of
`docker_faults` for any number of backups and versions, any writes of the
application, any kinds and any faults, assuming that no operation begins beside a
pruning (`PruningAlone`);
`docker_prune` shows that the assumption is needed. Each property speaks of a few
states; `Inv` of every point at which a request may fail, go unanswered, or be
the last before the process stops:

- `EngineInv`: names are unique, and every container of the deployment is on a
  labelled volume (`Sound`), has a recorded backup's name or volume or none, and
  runs only as the server, with data. It is what the engine's requests keep
  (`StartEngine` to `VolumeEngine`, one lemma a request), and what makes the name
  and the volume of a new backup free (`Unclaimed`).
- `OperationInv`: without an operation the inventory is right (`Settled`). With
  one, `Holding` says what is there whatever becomes of its call: before `staged`
  the deployment `Untouched`, after it, for a replacement, the container it found
  `Kept` as the server, or stopped under the name of the safety backup, and only
  then a new one.
- `CallInv`: what the code remembers between two requests is still true (`Going`
  for Backup, Apply and Verify, `Reverting` for Recover and removals).
- `PruneInv`: what a pruning is about to remove is not the server.

Each of the adapter's requests has a lemma that it keeps this (`…Step`); the application's
writes, the stranger, the crash and the pruning have theirs. That a fresh backup
and an oldest pool entry exist (`FreshBackup`, `NextToPrune`) follows from the
well-foundedness of `<`.

`RollbackPoolRefinement` proves, under the same assumption, that the local system
implements `AdapterContract` (`AdapterKeepsContract`). `Picture` and
`ServerIsCurrent` say what a state that satisfies `Inv` is to the contract;
`AdapterTurns` says what a step of the adapter does to the operation, and each of
these turns is one step of the contract (`StageRefines` to `RestoreRefines`) or,
if the operation stays as it is, none. That none of the requests between touches
the data of the replaced container (`PriorDataKept`) is what makes them stutter.
The contract needs one more invariant than `Inv`: once an Apply has succeeded,
the replaced container has the name of its backup (`Aside`), even after the
process has stopped, so that no write reaches both what serves and what is set
aside.

`RemoteTargetsProofs` proves the type invariant of RemoteTargets for any
deployments and any overlap of their calls, and, for one adapter call at a time
(`~Overlap`, the assumption of `targets_faults`, which fails without it),
`DeployedAsSaid`, `TransfersAreCleared`, `RecoveryAccepts` and
`NobodyElsesTouched`, for any number of
deployments with the same names. Its inductive invariant says, for each kind of
target, which resources an operation has at each of its stages, and that whatever
carries a deployment's evidence is its own.

TLC checked each of these inductive invariants, `ImplementsTransactions` and
`ImplementsContract` on the instance of the run before it was proved (`Inv` of the coordinator also with three operations, that of the
rollback pool also with three backups, 681k states).

The assumptions on constants are those named in the modules: sentinels are not
members of the sets they stand beside, there is a version, bounds are natural
numbers, faults and kinds are known. TLC evaluates them in every run.

Only model-checked: liveness (`OperationsClose`, `OperationsEnd`), which is out of
the prover's reach. All the other properties of the passing runs are theorems.

## 5. What the models found

Seven disagreements between the code and what the repository says of it, each
with a run that shows it; `PROJECT.json` quotes the documents.

1. `store_clock`: a clock set back makes a committed operation impossible to
   finalize.
2. `store_crash_in_begin`: a crash inside `Begin` leaves a lock that nothing can
   inspect or recover, and hides the open operations of all deployments.
3. `coordinator_fallback`: when `recovery-started` cannot be written, the lock is
   released over a half-changed target. `OnlyFallbackLosesTarget` holds: it is the
   only way.
4. `coordinator_concurrent`: recovery of a `prepared` operation is a
   check-then-act beside the session that runs it.
5. `docker_uninstall`: the volume check of an uninstall knows only the volume of
   an install.
6. `docker_prune`: pruning checks for an active operation and does not exclude
   one.
7. `server_managed`: docs/operator-guide.md says that after a local installation
   is recorded Ranch Hand can back it up, update, restore, roll back and repair
   it, and that the operator first verifies and plans the desired release. All of
   these need a ready plan; server.go:727 makes every preflight of an active
   deployment report not ready, with the words "It will not start a duplicate
   installation", and a deployment's identity leaves its release out. So a plan
   of another release, and in a later session also the recorded one, can never
   become ready.

Without a run of their own:

- A crash while `Backup` holds the container stopped leaves a `prepared` journal,
  which is closed without calling the adapter (README.md, "safely closed without
  touching the target"): the deployment stays stopped, and an update refuses it
  (docker_mutator.go:285). `InventoryIsDeployed` of RollbackPool does not ask for
  a running container for that reason.
- The lock of an operation that had ended when its process stopped is reclaimed
  by `Begin` only. Preflight reports `recovery-required` and advises recovery
  (server.go:721), which `RecoverActive` refuses for an operation that has ended;
  an install needs a ready plan, which that report withholds. If the deployment is
  active an uninstall reclaims the lock. If it is not, nothing the interface of a
  later session offers does: so an install that was committed and whose record
  was not written yet can be neither installed nor uninstalled (server.go:576),
  although ADR-0006 has such a commit finalized by the next operation to begin.
  LoopbackServer has these states; a theorem that nothing else frees the lock
  would certify what the report's advice contradicts, and is not stated.
- `EvidenceLost` names the ways an operation of a remote target is left that no
  recovery will ever accept. The last command of a remote uninstall removes the
  marker and its answer is lost: the repeated removal asks for the marker
  (ADR-0009, "A later attempt can retry"). The marker could not be read and was
  taken for missing. A Cloudflare database was created and not yet marked.
  `OnlyLostEvidenceIsRefused` and `OperationsEnd` show that there are no others.
- ADR-0005 says that files transferred before the marker "are deliberately
  retained for operator inspection". The repository says the opposite since:
  CHANGELOG.md has v0.1.0-rc.8 extend the failed-install cleanup to them, and
  remote_mutator_test.go:541 requires their removal. The code does the latter
  (`recoverRemoteBeforeMarker`), `TransferCleared` is the property, apart from
  `InventoryIsDeployed`, which speaks of resources and evidence only, and the ADR
  is out of date. `OthersUntouched` says what the removal spares.
- An install looks for resources by label and its recovery by name
  (remote_mutator.go:201): what an install did not see stops its recovery.
- Two verifications of one release use one path: in between the archive is not
  there (README.md:53, "atomically stores"), and an operation that stages then is
  closed with an error. Two Applies that download the companion image may remove
  each other's verified archive, which wsl_image.go:173 says does not happen. A
  staging directory handed to one target is removed when another target of the
  family stages; the first then fails, or reads the same verified files
  (`OnlyVerifiedIsUsed`).

## 6. What is not modelled

- One deployment and one process: two processes on one state directory
  (`removeLock`'s read-then-remove, `Begin`'s record read before the lock) are
  listed as hazards without a property.
- A crash stops the process, not the machine: the missing directory sync after a
  rename (replace_unix.go) is listed as a hazard.
- Schema 1.0 journals, which are read and never written.
- In Docker: loading the image, the container environment, partial extraction of
  an archive (recovery removes the volume whatever it holds), restarts of the
  engine. What the application writes between a backup's restart and Apply's stop
  is in neither the archive nor the replacement: a hazard without a property,
  since no document promises more.
- On the remote targets: the SSH session and its pinned host key, loading the
  image, verification over the private network, the recovery of an empty marker
  that an older version may have left (`recoverLegacyEmptyRemoteRemnant`), the
  WSL persistent service, the Azure registry check, Cloudflare's migrations and
  assets beyond their place in the sequence. Temporary files go with the files
  they are for.
- In the server: reads, tokens and origins, the shape of requests. Two processes that share
  a cache or a staging directory are not modelled. The clean-up of a remnant runs
  without the deployment's lock: a hazard without a property, because
  RemoteTargets keeps adapter calls apart.
- Manifest, provenance and SBOM verification are cryptography and parsing, and
  stand in the model as one answer, yes or no. Plan encoding, diagnostics,
  preflight probes, prerequisites and the web interface change no state of the
  system.

## 7. Plan

Done: the store, the coordinator, local Docker with its rollback pool, the remote
targets, and the server with its caches and stager, each with proofs of the safety
properties its run checks. Left, in this order:

1. *Adapter contract*: RemoteTargets shown to implement AdapterContract per
   deployment, as the local system is, and Coordinator stated over the contract in
   place of its own `target`.
2. *Two processes*: the store with a mutex per process, for the lock hazards, and
   the caches and staging directories they share.
