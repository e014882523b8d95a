------------------------ MODULE RollbackPoolProofs -------------------------
(***************************************************************************)
(* Theorems about RollbackPool, for any number of backups and versions,    *)
(* whatever the application writes, any kinds requested and any faults.    *)
(* They hold as long as no operation begins while a pruning is under way;  *)
(* the run docker_prune shows that they do not hold otherwise.             *)
(***************************************************************************)
EXTENDS RollbackPool, WellFoundedInduction, TLAPS

\* Nothing begins beside a pruning.
PruningAlone == Pruning # "any"

-----------------------------------------------------------------------------
(* The inductive invariant: the engine.                                    *)

Everything == Volumes \cup {Foreign}

\* Docker gives a name to one container.
UniqueNames ==
    \A v, w \in Everything :
        /\ container[v] # NoContainer /\ container[w] # NoContainer
        /\ container[v].name = container[w].name
        => v = w

\* A container is on a labelled volume and, if it has a backup's volume or name,
\* the backup is recorded; what runs is the server, and has its data.
Sound(v) ==
    container[v] # NoContainer =>
        /\ volume[v] = "owned"
        /\ {v, container[v].name} \cap BackupIds \subseteq recorded
        /\ container[v].running => container[v].name = Server /\ content[v] # Empty

EngineInv ==
    /\ container[Foreign] # NoContainer => container[Foreign].name = Server
    /\ UniqueNames
    /\ \A v \in Volumes : Sound(v)

-----------------------------------------------------------------------------
(* The inductive invariant: what is deployed.                              *)

\* The container on the volume is the server, of that version, with its data.
Serves(v, version) ==
    /\ v \in Volumes /\ container[v] # NoContainer
    /\ container[v].name = Server /\ container[v].version = version
    /\ content[v] # Empty

\* Only that volume may be the server's.
NoServerBut(v) ==
    \A w \in Volumes \ {v} : container[w] # NoContainer => container[w].name # Server

NoServer == NoServerBut(NoVolume)

Settled ==
    IF installed = NoVersion THEN NoServer
                             ELSE \E v \in Volumes : Serves(v, installed)

\* No container has the volume or the name of the backup.
Unclaimed(b) ==
    \A v \in Volumes : container[v] # NoContainer => b \notin {v, container[v].name}

\* Before anything is applied the deployment is as it was; a backup is of the
\* container that serves, and nothing is called after it.
Untouched(o) ==
    /\ Settled
    /\ TakesBackup(o.kind) => Serves(o.prior, o.from) /\ Unclaimed(o.safety)

\* A replacement keeps the container it found, as the server or stopped under
\* the name of the safety backup, and only then there may be a new server, on
\* the volume of the safety backup.
Kept(o) ==
    /\ o.prior # o.safety
    /\ container[Foreign] = NoContainer
    /\ container[o.prior] # NoContainer
    /\ container[o.prior].version = o.from
    /\ container[o.prior].name \in {Server, o.safety}
    /\ content[o.prior] # Empty
    /\ container[o.safety] # NoContainer =>
          /\ container[o.safety].name = Server
          /\ container[o.safety].version = o.to
          /\ container[o.prior].name = o.safety
    /\ \A v \in Volumes \ {o.prior, o.safety} :
          container[v] # NoContainer => container[v].name \notin {Server, o.safety}

\* What an operation knows of itself.
Legal(o) ==
    /\ o.from = installed
    /\ o.kind = "install" <=> o.from = NoVersion
    /\ TakesBackup(o.kind) => o.safety \in BackupIds /\ o.prior \in Volumes
    /\ o.kind \in {"restore", "rollback"} => o.selected \in BackupIds
    /\ o.phase = "prepared" => o.kind # "uninstall"
    /\ o.kind = "backup" => o.phase = "prepared"

\* What holds of an operation whatever happens to its adapter calls.
Holding(o) ==
    /\ Legal(o)
    /\ o.phase = "prepared" => Untouched(o)
    /\ o.phase # "prepared" /\ Replaces(o.kind) => o.safety \in recorded /\ Kept(o)

OperationInv == IF op = NoOp THEN call = Nothing /\ Settled ELSE Holding(op)

-----------------------------------------------------------------------------
(* The inductive invariant: the adapter call under way.                    *)

\* The calls of an operation in each of its phases.
Steps(o) ==
    CASE o.phase = "prepared" ->
             IF TakesBackup(o.kind)
               THEN BackupSteps \cup {IF o.kind = "backup" THEN "commit" ELSE "stage"}
               ELSE {"stage"}
      [] o.phase = "staged" ->
             CASE o.kind = "install"   -> InstallSteps
               [] o.kind = "uninstall" -> RemoveSteps
               [] OTHER                -> ReplaceSteps
      [] o.phase = "applied" ->
             IF o.kind = "uninstall" THEN {"commit"} ELSE {"verify", "commit"}
      [] OTHER ->
             CASE o.kind = "install"   -> UndoSteps
               [] o.kind = "uninstall" -> RemoveSteps
               [] OTHER                -> RevertSteps

PriorNamed(o, name) == container[o.prior].name = name

\* What is known at a step of Backup, Apply and Verify.
Going(o, c) ==
    /\ c.at \in BackupSteps \ {"backup-inspect"} => c.id = o.prior
    /\ c.at = "stage" /\ Replaces(o.kind) => o.safety \in recorded
    /\ c.at \in {"install-volume", "install-create"} => NoServer
    /\ c.at = "install-create" => volume[Data] = "owned"
    /\ c.at = "install-start" =>
          /\ container[Data] # NoContainer
          /\ container[Data].name = Server /\ container[Data].version = o.to
    /\ c.at \in {"replace-inspect", "replace-volume", "replace-stop", "replace-rename"} =>
          PriorNamed(o, Server) /\ (c.at # "replace-inspect" => c.id = o.prior)
    /\ c.at \in ReplaceSteps \ {"replace-inspect", "replace-volume"} =>
          volume[o.safety] = "owned"
    /\ c.at = "replace-rename" => ~container[o.prior].running
    /\ c.at \in {"replace-create", "replace-fill", "replace-start"} => PriorNamed(o, o.safety)
    /\ c.at \in {"replace-fill", "replace-start"} =>
          container[o.safety] # NoContainer /\ ~container[o.safety].running
    /\ c.at = "replace-start" => content[o.safety] = archive[Source(o)].content
    /\ o.phase = "applied" /\ c.at \in {"verify", "commit"} =>
          CASE o.kind = "install"   -> Serves(Data, o.to)
            [] o.kind = "uninstall" -> NoServer
            [] OTHER                -> Serves(o.safety, o.to)

\* What is known at a step of Recover and of a removal.
Reverting(o, c) ==
    /\ c.at = "remove-container" => c.id = Data /\ NoServerBut(Data)
    /\ c.at = "remove-volume" => NoServer
    /\ c.at = "undo-container" => c.id \in Volumes /\ NoServerBut(c.id)
    /\ c.at \in RevertSteps \ {"revert-inspect"} =>
          c.id = o.prior /\ (c.running => container[o.prior].running)
    /\ c.at \in RevertSteps \ {"revert-inspect", "revert-container"} =>
          container[o.safety] = NoContainer
    /\ c.at = "revert-container" => c.found /\ PriorNamed(o, o.safety)
    /\ c.at = "revert-volume" => PriorNamed(o, IF c.found THEN o.safety ELSE Server)
    /\ c.at = "revert-rename" => PriorNamed(o, o.safety)
    /\ c.at \in {"revert-start", "revert-ready"} => PriorNamed(o, Server)
    /\ c.at \in {"revert-rename", "revert-start", "revert-ready"} =>
          volume[o.safety] = "absent"

Underway(o, c) == c = Nothing \/ (c.at \in Steps(o) /\ Going(o, c) /\ Reverting(o, c))

CallInv == op # NoOp => Underway(op, call)

\* A pruning works on what is not the server, while nothing else is under way.
PruneInv ==
    /\ prune # NoPruning => op = NoOp /\ Pruning # "never"
    /\ prune.at = "check" => prune.todo # {}
    /\ prune.at \in {"container", "volume"} => prune.id \in Volumes
    /\ prune.at = "container" /\ container[prune.id] # NoContainer =>
          container[prune.id].name # Server

Inv == TypeOK /\ EngineInv /\ OperationInv /\ CallInv /\ PruneInv

-----------------------------------------------------------------------------
(* Newest and oldest: sets of backups have both.                           *)

LEMMA Least ==
    ASSUME NEW S, S \subseteq Nat, S # {}
    PROVE  \E x \in S : \A y \in S : x <= y
<1>1. \A a, b \in Nat : a < b => <<a, b>> \in OpToRel(<, Nat)
  <2>1. TAKE a, b \in Nat
  <2>2. HAVE a < b
  <2>3. <<a, b>> \in Nat \X Nat /\ <<a, b>>[1] < <<a, b>>[2]
    BY <2>2
  <2> QED
    BY <2>3 DEF OpToRel
<1>2. PICK x \in S : \A y \in S : ~(<<y, x>> \in OpToRel(<, Nat))
  BY NatLessThanWellFounded, WFMin
<1>3. ASSUME NEW y \in S PROVE x <= y
  <2>1. x \in Nat /\ y \in Nat
    OBVIOUS
  <2>2. ~(y < x)
    BY <1>1, <1>2, <2>1
  <2> QED
    BY <2>1, <2>2
<1> QED
  BY <1>3

LEMMA Greatest ==
    ASSUME NEW n \in Nat, NEW S, S \subseteq 0..n, S # {}
    PROVE  \E x \in S : \A y \in S : y <= x
<1> DEFINE D == { n - x : x \in S }
<1>1. D \subseteq Nat /\ D # {}
  <2>1. \A x \in S : n - x \in Nat
    OBVIOUS
  <2> QED
    BY <2>1
<1>2. PICK d \in D : \A e \in D : d <= e
  BY <1>1, Least
<1>3. PICK x \in S : d = n - x
  OBVIOUS
<1>4. ASSUME NEW y \in S PROVE y <= x
  <2>1. n - x <= n - y
    BY <1>2, <1>3
  <2>2. x \in 0..n /\ y \in 0..n
    OBVIOUS
  <2> QED
    BY <2>1, <2>2
<1> QED
  BY <1>4

\* The backup of a new operation is not recorded yet.
LEMMA FreshIsUnused == Unused # {} => FreshBackup \in Unused
<1> SUFFICES ASSUME Unused # {}
             PROVE  FreshBackup \in Unused
  OBVIOUS
<1>1. Unused \subseteq Nat
  BY BoundsAssumption DEF Unused, BackupIds
<1>2. \E b \in Unused : \A x \in Unused : b <= x
  BY <1>1, Least
<1> QED
  BY <1>2 DEF FreshBackup

LEMMA PrunedIsBackup ==
    prune.todo \subseteq BackupIds /\ prune.todo # {} => NextToPrune \in BackupIds
<1> SUFFICES ASSUME prune.todo \subseteq BackupIds, prune.todo # {}
             PROVE  NextToPrune \in BackupIds
  OBVIOUS
<1> DEFINE S == prune.todo
<1>1. S \subseteq 0..MaxBackups /\ S # {}
  BY BoundsAssumption DEF BackupIds
<1>2. \E b \in S : \A x \in S : x <= b
  BY <1>1, Greatest, BoundsAssumption
<1>3. NextToPrune \in S
  BY <1>2 DEF NextToPrune
<1> QED
  BY <1>3

-----------------------------------------------------------------------------
(* Names.                                                                  *)

\* What the assumptions say of identities.
LEMMA Identities ==
    /\ NoVolume \notin Everything /\ Foreign \notin Volumes
    /\ Server \notin BackupIds /\ NoBackup \notin BackupIds /\ Data \notin BackupIds
    /\ BackupIds \subseteq Volumes /\ Data \in Volumes
  BY IdentityAssumption, BoundsAssumption
  DEF Everything, Volumes, BackupIds, Server, NoBackup

LEMMA EngineShape ==
    EngineTypeOK =>
        /\ DOMAIN container = Everything /\ DOMAIN volume = Volumes /\ DOMAIN content = Volumes
        /\ \A v \in Everything : container[v] # NoContainer =>
              /\ container[v].name \in {Server} \cup BackupIds
              /\ container[v].version \in Versions
              /\ container[v].running \in BOOLEAN
        /\ \A v \in Volumes : /\ volume[v] \in {"absent", "owned", "foreign"}
                              /\ content[v] \in Contents
  BY DEF EngineTypeOK, Everything, Containers

LEMMA NamedFound ==
    EngineTypeOK =>
        \A name : Named(name) # NoVolume =>
            /\ Named(name) \in Everything
            /\ container[Named(name)] # NoContainer
            /\ container[Named(name)].name = name
<1> SUFFICES ASSUME EngineTypeOK, NEW name, Named(name) # NoVolume
             PROVE  /\ Named(name) \in Everything
                    /\ container[Named(name)] # NoContainer
                    /\ container[Named(name)].name = name
  OBVIOUS
<1>1. \E v \in DOMAIN container : Exists(v) /\ container[v].name = name
  BY DEF Named
<1>2. /\ Named(name) \in DOMAIN container
      /\ Exists(Named(name)) /\ container[Named(name)].name = name
  BY <1>1 DEF Named
<1> QED
  BY <1>2, EngineShape DEF Exists

LEMMA NamedNone ==
    EngineTypeOK =>
        \A name : (\A v \in Everything : container[v] # NoContainer => container[v].name # name)
                  <=> Named(name) = NoVolume
<1> SUFFICES ASSUME EngineTypeOK, NEW name
             PROVE  (\A v \in Everything : container[v] # NoContainer => container[v].name # name)
                    <=> Named(name) = NoVolume
  OBVIOUS
<1>1. ASSUME \A v \in Everything : container[v] # NoContainer => container[v].name # name
      PROVE  Named(name) = NoVolume
  BY <1>1, NamedFound
<1>2. ASSUME Named(name) = NoVolume, NEW v \in Everything, container[v] # NoContainer,
             container[v].name = name
      PROVE  FALSE
  <2>1. \E w \in DOMAIN container : Exists(w) /\ container[w].name = name
    BY <1>2, EngineShape, Identities DEF Exists
  <2>2. Named(name) \in DOMAIN container
    BY <2>1 DEF Named
  <2> QED
    BY <1>2, <2>2, EngineShape, Identities
<1> QED
  BY <1>1, <1>2

LEMMA NamedIs ==
    EngineTypeOK /\ UniqueNames =>
        \A v \in Everything : container[v] # NoContainer => Named(container[v].name) = v
<1> SUFFICES ASSUME EngineTypeOK, UniqueNames, NEW v \in Everything, container[v] # NoContainer
             PROVE  Named(container[v].name) = v
  OBVIOUS
<1>1. Named(container[v].name) # NoVolume
  BY NamedNone
<1>2. /\ Named(container[v].name) \in Everything
      /\ container[Named(container[v].name)] # NoContainer
      /\ container[Named(container[v].name)].name = container[v].name
  BY <1>1, NamedFound
<1> QED
  BY <1>2 DEF UniqueNames
-----------------------------------------------------------------------------
(* The engine: what each request leaves of EngineInv.                      *)

LEMMA ContainerType ==
    /\ \A n \in {Server} \cup BackupIds, x \in Versions, r \in BOOLEAN :
          [name |-> n, version |-> x, running |-> r] \in Containers
    /\ \A c \in Containers : c # NoContainer
  BY NoContainerAssumption DEF Containers

LEMMA StartEngine ==
    ASSUME EngineTypeOK, EngineInv, recorded' = recorded,
           NEW v \in Volumes, container[v] # NoContainer, container[v].name = Server, Start(v)
    PROVE  /\ EngineTypeOK' /\ EngineInv'
           /\ container'[v] # NoContainer /\ container'[v].name = Server
           /\ container'[v].version = container[v].version /\ container'[v].running
           /\ \A w \in Everything \ {v} : container'[w] = container[w]
           /\ volume' = volume /\ content'[v] # Empty
           /\ content[v] # Empty => content'[v] = content[v]
           /\ \A w \in Volumes \ {v} : content'[w] = content[w]
<1>1. container[v] \in Containers /\ v # Foreign /\ v \in Everything
  BY Identities DEF EngineTypeOK, Everything
<1>2. /\ container'[v] \in Containers /\ container'[v] # NoContainer
      /\ container'[v].name = Server /\ container'[v].running
      /\ container'[v].version = container[v].version
  BY <1>1, ContainerType DEF Start, EngineTypeOK, Containers
<1>3. \A w \in Everything : w # v => container'[w] = container[w]
  BY <1>1 DEF Start, EngineTypeOK, Everything
<1>4. /\ content' \in [Volumes -> Contents] /\ volume' = volume
      /\ \A w \in Volumes : w # v => content'[w] = content[w]
      /\ content'[v] # Empty /\ (content[v] # Empty => content'[v] = content[v])
  BY IdentityAssumption, BoundsAssumption DEF Start, EngineTypeOK, Contents
<1>5. EngineTypeOK'
  BY <1>1, <1>2, <1>4 DEF Start, EngineTypeOK
<1>6. UniqueNames'
  BY <1>1, <1>2, <1>3 DEF EngineInv, UniqueNames
<1>7. \A w \in Volumes : Sound(w)'
  BY <1>1, <1>2, <1>3, <1>4 DEF EngineInv, Sound, Everything
<1> QED
  BY <1>2, <1>4, <1>1, <1>3, <1>5, <1>6, <1>7 DEF EngineInv, Everything

LEMMA StopEngine ==
    ASSUME EngineTypeOK, EngineInv, recorded' = recorded,
           NEW v \in Volumes, container[v] # NoContainer, Stop(v)
    PROVE  /\ EngineTypeOK' /\ EngineInv'
           /\ container'[v] # NoContainer /\ container'[v].name = container[v].name
           /\ container'[v].version = container[v].version /\ ~container'[v].running
           /\ \A w \in Everything \ {v} : container'[w] = container[w]
           /\ volume' = volume /\ content' = content
<1>1. container[v] \in Containers /\ v # Foreign /\ v \in Everything
  BY Identities DEF EngineTypeOK, Everything
<1>2. /\ container'[v] \in Containers /\ container'[v] # NoContainer
      /\ container'[v].name = container[v].name /\ ~container'[v].running
      /\ container'[v].version = container[v].version
  BY <1>1, ContainerType DEF Stop, EngineTypeOK, Containers
<1>3. \A w \in Everything : w # v => container'[w] = container[w]
  BY <1>1 DEF Stop, EngineTypeOK, Everything
<1>4. volume' = volume /\ content' = content
  BY DEF Stop
<1>5. EngineTypeOK'
  BY <1>1, <1>2, <1>4 DEF Stop, EngineTypeOK
<1>6. UniqueNames'
  BY <1>1, <1>2, <1>3 DEF EngineInv, UniqueNames
<1>7. \A w \in Volumes : Sound(w)'
  BY <1>1, <1>2, <1>3, <1>4 DEF EngineInv, Sound, Everything
<1> QED
  BY <1>2, <1>4, <1>1, <1>3, <1>5, <1>6, <1>7 DEF EngineInv, Everything

LEMMA RenameEngine ==
    ASSUME EngineTypeOK, EngineInv, recorded' = recorded,
           NEW v \in Volumes, container[v] # NoContainer, ~container[v].running,
           NEW n \in {Server} \cup BackupIds, n \in BackupIds => n \in recorded,
           Named(n) = NoVolume, Rename(v, n)
    PROVE  /\ EngineTypeOK' /\ EngineInv'
           /\ container'[v] # NoContainer /\ container'[v].name = n
           /\ container'[v].version = container[v].version /\ ~container'[v].running
           /\ \A w \in Everything \ {v} : container'[w] = container[w]
           /\ volume' = volume /\ content' = content
<1>1. container[v] \in Containers /\ v # Foreign /\ v \in Everything
  BY Identities DEF EngineTypeOK, Everything
<1>2. /\ container'[v] \in Containers /\ container'[v] # NoContainer
      /\ container'[v].name = n /\ ~container'[v].running
      /\ container'[v].version = container[v].version
  BY <1>1, ContainerType DEF Rename, EngineTypeOK, Containers
<1>3. \A w \in Everything : w # v => container'[w] = container[w]
  BY <1>1 DEF Rename, EngineTypeOK, Everything
<1>4. volume' = volume /\ content' = content
  BY DEF Rename
<1>5. EngineTypeOK'
  BY <1>1, <1>2, <1>4 DEF Rename, EngineTypeOK
<1>6. UniqueNames'
  BY <1>1, <1>2, <1>3, NamedNone DEF EngineInv, UniqueNames
<1>7. \A w \in Volumes : Sound(w)'
  BY <1>1, <1>2, <1>3, <1>4 DEF EngineInv, Sound, Everything
<1> QED
  BY <1>2, <1>4, <1>1, <1>3, <1>5, <1>6, <1>7 DEF EngineInv, Everything

LEMMA CreateEngine ==
    ASSUME EngineTypeOK, EngineInv, recorded' = recorded,
           NEW v \in Volumes, v \in BackupIds => v \in recorded, volume[v] = "owned",
           NEW x \in Versions, Named(Server) = NoVolume, CreateContainer(v, x)
    PROVE  /\ EngineTypeOK' /\ EngineInv'
           /\ container'[v] # NoContainer /\ container'[v].name = Server
           /\ container'[v].version = x /\ ~container'[v].running
           /\ \A w \in Everything \ {v} : container'[w] = container[w]
           /\ volume' = volume /\ content' = content
<1>1. v # Foreign /\ v \in Everything
  BY Identities DEF Everything
<1>2. /\ container'[v] \in Containers /\ container'[v] # NoContainer
      /\ container'[v].name = Server /\ ~container'[v].running
      /\ container'[v].version = x
  BY <1>1, ContainerType DEF CreateContainer, EngineTypeOK, Everything
<1>3. \A w \in Everything : w # v => container'[w] = container[w]
  BY <1>1 DEF CreateContainer, EngineTypeOK, Everything
<1>4. volume' = volume /\ content' = content
  BY DEF CreateContainer
<1>5. EngineTypeOK'
  BY <1>1, <1>2, <1>4 DEF CreateContainer, EngineTypeOK
<1>6. UniqueNames'
  BY <1>1, <1>2, <1>3, NamedNone DEF EngineInv, UniqueNames
<1>7. \A w \in Volumes : Sound(w)'
  BY <1>1, <1>2, <1>3, <1>4, Identities DEF EngineInv, Sound, Everything
<1> QED
  BY <1>2, <1>4, <1>1, <1>3, <1>5, <1>6, <1>7 DEF EngineInv, Everything

LEMMA RemoveEngine ==
    ASSUME EngineTypeOK, EngineInv, recorded' = recorded,
           NEW v \in Volumes, RemoveContainer(v)
    PROVE  /\ EngineTypeOK' /\ EngineInv'
           /\ container'[v] = NoContainer
           /\ \A w \in Everything \ {v} : container'[w] = container[w]
           /\ volume' = volume /\ content' = content
<1>1. v # Foreign /\ v \in Everything
  BY Identities DEF Everything
<1>2. container'[v] = NoContainer
  BY <1>1 DEF RemoveContainer, EngineTypeOK, Everything
<1>3. \A w \in Everything : w # v => container'[w] = container[w]
  BY <1>1 DEF RemoveContainer, EngineTypeOK, Everything
<1>4. volume' = volume /\ content' = content
  BY DEF RemoveContainer
<1>5. EngineTypeOK'
  BY <1>1, <1>2, <1>4 DEF RemoveContainer, EngineTypeOK
<1>6. UniqueNames'
  BY <1>1, <1>2, <1>3 DEF EngineInv, UniqueNames
<1>7. \A w \in Volumes : Sound(w)'
  BY <1>1, <1>2, <1>3, <1>4 DEF EngineInv, Sound, Everything
<1> QED
  BY <1>2, <1>4, <1>1, <1>3, <1>5, <1>6, <1>7 DEF EngineInv, Everything

\* A volume is created or removed, or written, under no container that runs.
LEMMA VolumeEngine ==
    ASSUME EngineTypeOK, EngineInv, recorded' = recorded,
           NEW v \in Volumes, container[v] # NoContainer => ~container[v].running,
           container' = container,
           NEW x \in {"absent", "owned", "foreign"}, volume' = [volume EXCEPT ![v] = x],
           container[v] # NoContainer => x = "owned",
           NEW y \in Contents, content' = [content EXCEPT ![v] = y]
    PROVE  /\ EngineTypeOK' /\ EngineInv'
           /\ volume'[v] = x /\ content'[v] = y
           /\ \A w \in Volumes \ {v} : volume'[w] = volume[w] /\ content'[w] = content[w]
<1>1. \A w \in Volumes : w # v => volume'[w] = volume[w] /\ content'[w] = content[w]
  BY DEF EngineTypeOK
<1>2. volume'[v] = x /\ content'[v] = y
  BY DEF EngineTypeOK
<1>3. EngineTypeOK'
  BY DEF EngineTypeOK
<1>4. UniqueNames'
  BY DEF EngineInv, UniqueNames
<1>5. \A w \in Volumes : Sound(w)'
  BY <1>1, <1>2 DEF EngineInv, Sound
<1> QED
  BY <1>1, <1>2, <1>3, <1>4, <1>5 DEF EngineInv

LEMMA CreateVolumeEngine ==
    ASSUME EngineTypeOK, EngineInv, recorded' = recorded,
           NEW v \in Volumes, container[v] = NoContainer, CreateVolume(v)
    PROVE  /\ EngineTypeOK' /\ EngineInv' /\ container' = container /\ volume'[v] = "owned"
           /\ \A w \in Volumes \ {v} : volume'[w] = volume[w] /\ content'[w] = content[w]
<1>1. /\ container' = container /\ volume' = [volume EXCEPT ![v] = "owned"]
      /\ content' = [content EXCEPT ![v] = Empty]
  BY DEF CreateVolume
<1>2. "owned" \in {"absent", "owned", "foreign"} /\ Empty \in Contents
  BY DEF Contents
<1> QED
  BY <1>1, <1>2, VolumeEngine

LEMMA RemoveVolumeEngine ==
    ASSUME EngineTypeOK, EngineInv, recorded' = recorded,
           NEW v \in Volumes, container[v] = NoContainer, RemoveVolume(v)
    PROVE  /\ EngineTypeOK' /\ EngineInv' /\ container' = container /\ volume'[v] = "absent"
           /\ \A w \in Volumes \ {v} : volume'[w] = volume[w] /\ content'[w] = content[w]
<1>1. /\ container' = container /\ volume' = [volume EXCEPT ![v] = "absent"]
      /\ content' = [content EXCEPT ![v] = Empty]
  BY DEF RemoveVolume
<1>2. "absent" \in {"absent", "owned", "foreign"} /\ Empty \in Contents
  BY DEF Contents
<1> QED
  BY <1>1, <1>2, VolumeEngine

\* The volume of a container that is stopped is filled.
LEMMA FillEngine ==
    ASSUME EngineTypeOK, EngineInv, recorded' = recorded,
           NEW v \in Volumes, ~container[v].running, volume[v] = "owned",
           NEW y \in Contents, content' = [content EXCEPT ![v] = y],
           container' = container, volume' = volume
    PROVE  /\ EngineTypeOK' /\ EngineInv' /\ content'[v] = y
           /\ \A w \in Volumes \ {v} : content'[w] = content[w]
<1>1. volume' = [volume EXCEPT ![v] = "owned"] /\ "owned" \in {"absent", "owned", "foreign"}
  BY DEF EngineTypeOK
<1> QED
  BY <1>1, VolumeEngine

LEMMA RestEngine ==
    ASSUME EngineTypeOK, EngineInv, recorded \subseteq recorded', UNCHANGED engine
    PROVE  EngineTypeOK' /\ EngineInv'
<1>1. EngineTypeOK' /\ UniqueNames'
  BY DEF EngineTypeOK, EngineInv, UniqueNames, engine
<1>2. \A w \in Volumes : Sound(w)'
  BY DEF EngineInv, Sound, engine
<1> QED
  BY <1>1, <1>2 DEF EngineInv, engine
-----------------------------------------------------------------------------
(* What a request of an adapter leads to.                                  *)

Places == BackupSteps \cup InstallSteps \cup ReplaceSteps \cup RemoveSteps
              \cup UndoSteps \cup RevertSteps \cup {"none", "stage", "verify", "commit"}

LEMMA CallTypes ==
    /\ Nothing \in Calls /\ Nothing.at = "none"
    /\ \A step \in Places : /\ [Nothing EXCEPT !.at = step] \in Calls
                            /\ [Nothing EXCEPT !.at = step].at = step
    /\ \A c \in Calls : /\ c.at \in Places /\ c.id \in Volumes \cup {NoVolume}
                        /\ c.running \in BOOLEAN /\ c.found \in BOOLEAN
  BY DEF Nothing, Calls, Places

LEMMA OperationTypes ==
    ASSUME NEW o \in Operations
    PROVE  /\ o # NoOp
           /\ o.kind \in Kinds /\ o.from \in Versions \cup {NoVersion}
           /\ o.to \in Versions /\ o.to # NoVersion
           /\ o.phase \in {"prepared", "staged", "applied", "recovering"}
  BY NoOpAssumption, IdentityAssumption DEF Operations

LEMMA PhaseTypes ==
    ASSUME NEW o \in Operations, NEW p \in {"staged", "applied", "recovering"}
    PROVE  LET n == [o EXCEPT !.phase = p] IN
           /\ n \in Operations /\ n # NoOp /\ n.phase = p
           /\ n.kind = o.kind /\ n.from = o.from /\ n.to = o.to /\ n.prior = o.prior
           /\ n.safety = o.safety /\ n.selected = o.selected
  BY NoOpAssumption DEF Operations

LEMMA GoLeadsTo ==
    ASSUME AdapterTypeOK, NEW step \in Places, Go(step)
    PROVE  /\ AdapterTypeOK'
           /\ call'.at = step /\ call'.id = call.id
           /\ call'.running = call.running /\ call'.found = call.found
           /\ op' = op /\ archive' = archive /\ recorded' = recorded /\ installed' = installed
  BY DEF Go, AdapterTypeOK, store, Calls, Places

LEMMA GoOnLeadsTo ==
    ASSUME EngineTypeOK, AdapterTypeOK, NEW step \in Places,
           NEW v \in Volumes, container[v] # NoContainer, GoOn(step, v)
    PROVE  /\ AdapterTypeOK'
           /\ call'.at = step /\ call'.id = v /\ call'.running = container[v].running
           /\ op' = op /\ archive' = archive /\ recorded' = recorded /\ installed' = installed
<1>1. container[v].running \in BOOLEAN /\ v # NoVolume
  BY EngineShape, Identities DEF Everything
<1>2. call' = [call EXCEPT !.at = step, !.id = v, !.running = container[v].running]
  BY <1>1 DEF GoOn
<1>3. /\ call' \in Calls
      /\ call'.at = step /\ call'.id = v /\ call'.running = container[v].running
  BY <1>1, <1>2 DEF AdapterTypeOK, Calls, Places
<1>4. op' = op /\ archive' = archive /\ recorded' = recorded /\ installed' = installed
  BY DEF GoOn, store
<1> QED
  BY <1>3, <1>4 DEF AdapterTypeOK

LEMMA RecoverSteps ==
    \A kind \in Kinds : RecoverStep(kind) \in {"undo-inspect", "remove-inspect", "revert-inspect"}
  BY DEF Kinds, RecoverStep

\* An inspection that begins a call relies on nothing.
LEMMA EnterUnderway ==
    ASSUME NEW o, NEW step, step \in Steps(o),
           step \in {"backup-inspect", "install-inspect", "remove-inspect",
                     "undo-inspect", "revert-inspect"}
    PROVE  Underway(o, [Nothing EXCEPT !.at = step])'
<1> DEFINE c == [Nothing EXCEPT !.at = step]
<1>1. c.at = step
  BY DEF Nothing
<1>2. Going(o, c)'
  BY <1>1 DEF Going, BackupSteps, ReplaceSteps
<1>3. Reverting(o, c)'
  BY <1>1 DEF Reverting, RevertSteps
<1> QED
  BY <1>1, <1>2, <1>3 DEF Underway

\* A later phase takes on what the operation holds.
LEMMA PhaseHolding ==
    ASSUME NEW o \in Operations, NEW p \in {"staged", "applied", "recovering"}, Holding(o)',
           o.kind # "backup", o.phase # "prepared" \/ ~Replaces(o.kind)
    PROVE  Holding([o EXCEPT !.phase = p])'
<1> DEFINE n == [o EXCEPT !.phase = p]
<1>1. /\ n.phase = p /\ n.kind = o.kind /\ n.from = o.from /\ n.to = o.to /\ n.prior = o.prior
      /\ n.safety = o.safety /\ n.selected = o.selected
  BY PhaseTypes
<1>2. Kept(n)' <=> Kept(o)'
  BY <1>1 DEF Kept
<1>3. Legal(n)'
  BY <1>1 DEF Legal, Holding
<1> QED
  BY <1>1, <1>2, <1>3 DEF Holding

LEMMA RecoveryBegins ==
    ASSUME NEW o \in Operations, o.phase # "prepared", Holding(o)',
           op' = [o EXCEPT !.phase = "recovering"], Enter(RecoverStep(o.kind))
    PROVE  op' \in Operations /\ call' \in Calls /\ OperationInv' /\ CallInv'
<1> DEFINE n == [o EXCEPT !.phase = "recovering"]
           c == [Nothing EXCEPT !.at = RecoverStep(o.kind)]
<1>1. op' = n /\ call' = c
  BY DEF Enter
<1>2. n \in Operations /\ n.phase = "recovering" /\ n.kind = o.kind /\ n # NoOp
  BY PhaseTypes
<1>3. o.kind # "backup" /\ o.kind \in Kinds
  BY OperationTypes DEF Holding, Legal
<1>4. RecoverStep(o.kind) \in Steps(n)
  BY <1>2, <1>3 DEF Steps, RecoverStep, UndoSteps, RemoveSteps, RevertSteps, Kinds
<1>5. Holding(n)'
  BY <1>3, PhaseHolding
<1>6. Underway(n, c)'
  BY <1>3, <1>4, EnterUnderway, RecoverSteps
<1>7. c \in Calls
  BY <1>3, RecoverSteps, CallTypes DEF Places, UndoSteps, RemoveSteps, RevertSteps
<1> QED
  BY <1>1, <1>2, <1>5, <1>6, <1>7 DEF OperationInv, CallInv

\* Fail keeps what the operation holds after the request.
LEMMA FailLeadsTo ==
    ASSUME AdapterTypeOK, NEW o \in Operations, op = o, Fail, Holding(o)'
    PROVE  AdapterTypeOK' /\ OperationInv' /\ CallInv'
<1>0. /\ o # NoOp /\ archive' = archive /\ recorded' = recorded /\ installed' = installed
      /\ o.phase \in {"prepared", "staged", "applied", "recovering"}
  BY OperationTypes DEF Fail, store
<1>1. CASE o.phase = "prepared"
  <2>1. op' = NoOp /\ call' = Nothing
    BY <1>1 DEF Fail, Close
  <2>2. Settled'
    BY <1>1 DEF Holding, Untouched
  <2> QED
    BY <1>0, <2>1, <2>2, CallTypes DEF OperationInv, CallInv, AdapterTypeOK
<1>2. CASE o.phase = "recovering"
  <2>1. op' = o /\ call' = Nothing
    BY <1>2 DEF Fail
  <2> QED
    BY <1>0, <2>1, CallTypes DEF OperationInv, CallInv, AdapterTypeOK, Underway
<1>3. CASE o.phase \in {"staged", "applied"}
  <2>1. op' = [o EXCEPT !.phase = "recovering"] /\ Enter(RecoverStep(o.kind))
    BY <1>3 DEF Fail
  <2> QED
    BY <1>0, <1>3, <2>1, RecoveryBegins DEF AdapterTypeOK
<1> QED
  BY <1>0, <1>1, <1>2, <1>3
-----------------------------------------------------------------------------
(* A step of the adapter.                                                  *)

\* What a step of the adapter keeps: all but the pruning.
Working == EngineTypeOK /\ AdapterTypeOK /\ EngineInv /\ OperationInv /\ CallInv

LEMMA Caller ==
    ASSUME Working, call.at # "none"
    PROVE  /\ op \in Operations /\ op # NoOp /\ Holding(op)
           /\ call.at \in Steps(op) /\ Going(op, call) /\ Reverting(op, call)
<1>1. op # NoOp
  BY CallTypes DEF Working, OperationInv
<1> QED
  BY <1>1, CallTypes DEF Working, OperationInv, CallInv, Underway, AdapterTypeOK

\* The phase and the kind that a step tells of its operation.
LEMMA StepsTell ==
    ASSUME NEW o \in Operations, Legal(o), NEW step \in Steps(o)
    PROVE  /\ step \in BackupSteps => o.phase = "prepared" /\ TakesBackup(o.kind)
           /\ step = "stage" =>
                 o.phase = "prepared" /\ (o.kind = "install" \/ Replaces(o.kind))
           /\ step \in InstallSteps => o.phase = "staged" /\ o.kind = "install"
           /\ step \in ReplaceSteps => o.phase = "staged" /\ Replaces(o.kind)
           /\ step \in RemoveSteps => o.phase \in {"staged", "recovering"} /\ o.kind = "uninstall"
           /\ step = "verify" => o.phase = "applied" /\ (o.kind = "install" \/ Replaces(o.kind))
           /\ step = "commit" => \/ o.phase = "prepared" /\ o.kind = "backup"
                                 \/ o.phase = "applied"
           /\ step \in UndoSteps => o.phase = "recovering" /\ o.kind = "install"
           /\ step \in RevertSteps => o.phase = "recovering" /\ Replaces(o.kind)
<1>1. o.kind \in Kinds /\ o.phase \in {"prepared", "staged", "applied", "recovering"}
  BY OperationTypes
<1>2. CASE o.phase = "prepared"
  BY <1>1, <1>2 DEF Legal, Steps, Kinds, TakesBackup, Replaces, BackupSteps, InstallSteps,
                    ReplaceSteps, RemoveSteps, UndoSteps, RevertSteps
<1>3. CASE o.phase = "staged"
  BY <1>1, <1>3 DEF Legal, Steps, Kinds, TakesBackup, Replaces, BackupSteps, InstallSteps,
                    ReplaceSteps, RemoveSteps, UndoSteps, RevertSteps
<1>4. CASE o.phase = "applied"
  BY <1>1, <1>4 DEF Legal, Steps, Kinds, TakesBackup, Replaces, BackupSteps, InstallSteps,
                    ReplaceSteps, RemoveSteps, UndoSteps, RevertSteps
<1>5. CASE o.phase = "recovering"
  BY <1>1, <1>5 DEF Legal, Steps, Kinds, TakesBackup, Replaces, BackupSteps, InstallSteps,
                    ReplaceSteps, RemoveSteps, UndoSteps, RevertSteps
<1> QED
  BY <1>1, <1>2, <1>3, <1>4, <1>5

\* The steps of each phase and kind.
LEMMA StepsOf ==
    ASSUME NEW o \in Operations
    PROVE  /\ o.phase = "prepared" /\ TakesBackup(o.kind) => BackupSteps \subseteq Steps(o)
           /\ o.phase = "prepared" /\ Replaces(o.kind) => "stage" \in Steps(o)
           /\ o.phase = "prepared" /\ o.kind = "install" => "stage" \in Steps(o)
           /\ o.phase = "prepared" /\ o.kind = "backup" => "commit" \in Steps(o)
           /\ o.phase = "staged" /\ o.kind = "install" => Steps(o) = InstallSteps
           /\ o.phase = "staged" /\ Replaces(o.kind) => Steps(o) = ReplaceSteps
           /\ o.phase \in {"staged", "recovering"} /\ o.kind = "uninstall" => Steps(o) = RemoveSteps
           /\ o.phase = "applied" => "commit" \in Steps(o)
           /\ o.phase = "applied" /\ o.kind # "uninstall" => "verify" \in Steps(o)
           /\ o.phase = "recovering" /\ o.kind = "install" => Steps(o) = UndoSteps
           /\ o.phase = "recovering" /\ Replaces(o.kind) => Steps(o) = RevertSteps
  BY OperationTypes DEF Steps, TakesBackup, Replaces

\* The call goes on with what its next step relies on.
LEMMA GoesOn ==
    ASSUME NEW o \in Operations, op' = o, Holding(o)',
           NEW c, call' = c, c.at \in Steps(o), Going(o, c)', Reverting(o, c)'
    PROVE  OperationInv' /\ CallInv'
<1>1. Going(op, call)' /\ Reverting(op, call)'
  BY DEF Going, Reverting
<1>2. Holding(op)' /\ op' # NoOp
  BY OperationTypes DEF Holding, Legal, Untouched, Kept
<1> QED
  BY <1>1, <1>2 DEF OperationInv, CallInv, Underway

LEMMA RestHolding ==
    ASSUME NEW o, Holding(o), UNCHANGED engine, recorded \subseteq recorded',
           installed' = installed
    PROVE  Holding(o)'
  BY DEF Holding, Legal, Untouched, Settled, NoServer, NoServerBut, Serves, Unclaimed, Kept,
         engine

-----------------------------------------------------------------------------
(* Backup.                                                                 *)

\* A backup finds the container it is of as the server.
LEMMA BackupFinds ==
    ASSUME Working, call.at \in BackupSteps
    PROVE  /\ op \in Operations /\ Holding(op) /\ op.phase = "prepared" /\ TakesBackup(op.kind)
           /\ Serves(op.prior, op.from) /\ Unclaimed(op.safety)
           /\ op.prior \in Everything /\ Named(Server) = op.prior
           /\ op.safety \in BackupIds /\ op.from \in Versions
           /\ call.at # "backup-inspect" => call.id = op.prior
<1>1. call.at # "none"
  BY DEF BackupSteps
<1>2. op \in Operations /\ Holding(op) /\ call.at \in Steps(op) /\ Going(op, call)
  BY <1>1, Caller
<1>3. Legal(op) /\ op.phase = "prepared" /\ TakesBackup(op.kind)
  BY <1>2, StepsTell DEF Holding
<1>4. Serves(op.prior, op.from) /\ Unclaimed(op.safety)
  BY <1>2, <1>3 DEF Holding, Untouched
<1>5. op.prior \in Everything /\ Named(Server) = op.prior
  BY <1>4, NamedIs DEF Serves, Everything, Working, EngineInv
<1>6. op.kind # "install" /\ op.from \in Versions
  BY <1>2, <1>3, OperationTypes DEF Legal, TakesBackup
<1> QED
  BY <1>2, <1>3, <1>4, <1>5, <1>6 DEF Legal, Going

LEMMA BackupHolding ==
    ASSUME NEW o \in Operations, Holding(o), o.phase = "prepared", TakesBackup(o.kind),
           Serves(o.prior, o.from)', Unclaimed(o.safety)', installed' = installed
    PROVE  Holding(o)'
<1>1. Legal(o) /\ Legal(o)'
  BY DEF Holding, Legal
<1>2. installed' = o.from /\ o.from # NoVersion
  BY <1>1 DEF Legal, TakesBackup
<1>3. Settled'
  BY <1>2 DEF Settled, Serves
<1> QED
  BY <1>1, <1>3 DEF Holding, Untouched

LEMMA BackupInspectStep == Working /\ BackupInspect => Working'
<1> SUFFICES ASSUME Working, BackupInspect
             PROVE  Working'
  OBVIOUS
<1> PICK o \in Operations : o = op
  BY Caller DEF BackupInspect
<1>1. /\ Holding(o) /\ o.phase = "prepared" /\ TakesBackup(o.kind)
      /\ Serves(o.prior, o.from) /\ Named(Server) = o.prior
  BY BackupFinds DEF BackupInspect, BackupSteps
<1>2. UNCHANGED engine
  BY DEF BackupInspect
<1>3. CASE Fail
  <2>1. recorded' = recorded /\ installed' = installed
    BY <1>3 DEF Fail, store
  <2> QED
    BY <1>1, <1>2, <1>3, <2>1, RestEngine, RestHolding, FailLeadsTo DEF Working
<1>4. ASSUME NEW step \in {"backup-stop", "backup-archive"}, GoOn(step, o.prior)
      PROVE  Working'
  <2> PICK c : c = call'
    OBVIOUS
  <2>1. step \in Places /\ step \in BackupSteps
    BY <1>4 DEF Places, BackupSteps
  <2>2. /\ AdapterTypeOK' /\ c.at = step /\ c.id = o.prior
        /\ op' = o /\ recorded' = recorded /\ installed' = installed
    BY <1>1, <1>4, <2>1, GoOnLeadsTo DEF Working, Serves
  <2>3. c.at \in Steps(o)
    BY <1>1, <2>1, <2>2, StepsOf
  <2>4. Going(o, c)' /\ Reverting(o, c)'
    BY <1>4, <2>2 DEF Going, Reverting, ReplaceSteps, RevertSteps
  <2> QED
    BY <1>1, <1>2, <2>2, <2>3, <2>4, RestEngine, RestHolding, GoesOn DEF Working
<1> QED
  BY <1>1, <1>3, <1>4 DEF BackupInspect
LEMMA BackupStopStep == Working /\ BackupStop => Working'
<1> SUFFICES ASSUME Working, BackupStop
             PROVE  Working'
  OBVIOUS
<1> PICK o \in Operations : o = op
  BY Caller DEF BackupStop
<1>1. /\ Holding(o) /\ o.phase = "prepared" /\ TakesBackup(o.kind)
      /\ Serves(o.prior, o.from) /\ Unclaimed(o.safety) /\ call.id = o.prior
  BY BackupFinds DEF BackupStop, BackupSteps
<1>2. \/ Fail /\ (UNCHANGED engine \/ Stop(o.prior))
      \/ Go("backup-archive") /\ Stop(o.prior)
  BY <1>1 DEF BackupStop, Request
<1>3. recorded' = recorded /\ installed' = installed
  BY <1>2 DEF Fail, Go, store
<1>4. EngineTypeOK' /\ EngineInv' /\ Holding(o)'
  <2>1. CASE UNCHANGED engine
    BY <1>1, <1>3, <2>1, RestEngine, RestHolding DEF Working
  <2>2. CASE Stop(o.prior)
    <3>1. /\ EngineTypeOK' /\ EngineInv'
          /\ container'[o.prior] # NoContainer
          /\ container'[o.prior].name = container[o.prior].name
          /\ container'[o.prior].version = container[o.prior].version
          /\ \A w \in Everything \ {o.prior} : container'[w] = container[w]
          /\ content' = content
      BY <1>1, <1>3, <2>2, StopEngine DEF Working, Serves
    <3>2. \A v \in Volumes : /\ container'[v] # NoContainer <=> container[v] # NoContainer
                             /\ container'[v].name = container[v].name
      BY <1>1, <3>1 DEF Serves, Everything
    <3>3. Serves(o.prior, o.from)' /\ Unclaimed(o.safety)'
      BY <1>1, <3>1, <3>2 DEF Serves, Unclaimed
    <3> QED
      BY <1>1, <1>3, <3>1, <3>3, BackupHolding
  <2> QED
    BY <1>2, <2>1, <2>2
<1>5. CASE Fail
  BY <1>4, <1>5, FailLeadsTo DEF Working
<1>6. CASE Go("backup-archive")
  <2> PICK c : c = call'
    OBVIOUS
  <2>1. AdapterTypeOK' /\ c.at = "backup-archive" /\ c.id = o.prior /\ op' = o
    BY <1>1, <1>6, GoLeadsTo DEF Working, Places, BackupSteps
  <2>2. c.at \in Steps(o)
    BY <1>1, <2>1, StepsOf DEF BackupSteps
  <2>3. Going(o, c)' /\ Reverting(o, c)'
    BY <2>1 DEF Going, Reverting, ReplaceSteps, RevertSteps
  <2> QED
    BY <1>4, <2>1, <2>2, <2>3, GoesOn DEF Working
<1> QED
  BY <1>2, <1>5, <1>6

LEMMA BackupArchiveStep == Working /\ BackupArchive => Working'
<1> SUFFICES ASSUME Working, BackupArchive
             PROVE  Working'
  OBVIOUS
<1> PICK o \in Operations : o = op
  BY Caller DEF BackupArchive
<1>1. /\ Holding(o) /\ o.phase = "prepared" /\ TakesBackup(o.kind)
      /\ Serves(o.prior, o.from) /\ o.safety \in BackupIds /\ o.from \in Versions
      /\ call.id = o.prior
  BY BackupFinds DEF BackupArchive, BackupSteps
<1>2. UNCHANGED engine /\ recorded' = recorded /\ installed' = installed
  BY DEF BackupArchive, Fail, Go, store
<1>3. EngineTypeOK' /\ EngineInv' /\ Holding(o)'
  BY <1>1, <1>2, RestEngine, RestHolding DEF Working
<1>4. CASE Fail
  BY <1>3, <1>4, FailLeadsTo DEF Working
<1>5. CASE ~Fail
  <2> PICK c : c = call'
    OBVIOUS
  <2>1. /\ AdapterTypeOK' /\ c.at \in {"backup-restart", "backup-ready"} /\ c.id = o.prior
        /\ op' = o
    <3>1. CASE Go("backup-restart")
      BY <1>1, <3>1, GoLeadsTo DEF Working, Places, BackupSteps
    <3>2. CASE ~Go("backup-restart")
      <4>1. /\ archive' = [archive EXCEPT ![o.safety] =
                              [version |-> o.from, content |-> content[o.prior]]]
            /\ call' = [call EXCEPT !.at = IF call.running THEN "backup-restart"
                                                           ELSE "backup-ready",
                                    !.found = TRUE]
            /\ op' = o
        BY <1>1, <1>5, <3>2 DEF BackupArchive
      <4>2. content[o.prior] \in Contents
        BY <1>1 DEF Serves, Working, EngineTypeOK
      <4>3. archive' \in [BackupIds -> Archives \cup {NoArchive}]
        BY <1>1, <4>1, <4>2 DEF Working, AdapterTypeOK, Archives
      <4>4. call' \in Calls /\ c.at \in {"backup-restart", "backup-ready"} /\ c.id = o.prior
        BY <1>1, <4>1 DEF Working, AdapterTypeOK, Calls, BackupSteps
      <4> QED
        BY <1>2, <4>1, <4>3, <4>4 DEF Working, AdapterTypeOK
    <3> QED
      BY <3>1, <3>2
  <2>2. c.at \in Steps(o)
    BY <1>1, <2>1, StepsOf DEF BackupSteps
  <2>3. Going(o, c)' /\ Reverting(o, c)'
    BY <2>1 DEF Going, Reverting, ReplaceSteps, RevertSteps
  <2> QED
    BY <1>3, <2>1, <2>2, <2>3, GoesOn DEF Working
<1> QED
  BY <1>4, <1>5

LEMMA BackupRestartStep == Working /\ BackupRestart => Working'
<1> SUFFICES ASSUME Working, BackupRestart
             PROVE  Working'
  OBVIOUS
<1> PICK o \in Operations : o = op
  BY Caller DEF BackupRestart
<1>1. /\ Holding(o) /\ o.phase = "prepared" /\ TakesBackup(o.kind)
      /\ Serves(o.prior, o.from) /\ Unclaimed(o.safety) /\ call.id = o.prior
  BY BackupFinds DEF BackupRestart, BackupSteps
<1>2. \/ Fail /\ (UNCHANGED engine \/ Start(o.prior))
      \/ Go("backup-ready") /\ Start(o.prior)
  BY <1>1 DEF BackupRestart, Request
<1>3. recorded' = recorded /\ installed' = installed
  BY <1>2 DEF Fail, Go, store
<1>4. EngineTypeOK' /\ EngineInv' /\ Holding(o)'
  <2>1. CASE UNCHANGED engine
    BY <1>1, <1>3, <2>1, RestEngine, RestHolding DEF Working
  <2>2. CASE Start(o.prior)
    <3>1. /\ EngineTypeOK' /\ EngineInv'
          /\ container'[o.prior] # NoContainer
          /\ container'[o.prior].name = container[o.prior].name
          /\ container'[o.prior].version = container[o.prior].version
          /\ \A w \in Everything \ {o.prior} : container'[w] = container[w]
          /\ content'[o.prior] = content[o.prior]
      BY <1>1, <1>3, <2>2, StartEngine DEF Working, Serves
    <3>2. \A v \in Volumes : /\ container'[v] # NoContainer <=> container[v] # NoContainer
                             /\ container'[v].name = container[v].name
      BY <1>1, <3>1 DEF Serves, Everything
    <3>3. Serves(o.prior, o.from)' /\ Unclaimed(o.safety)'
      BY <1>1, <3>1, <3>2 DEF Serves, Unclaimed
    <3> QED
      BY <1>1, <1>3, <3>1, <3>3, BackupHolding
  <2> QED
    BY <1>2, <2>1, <2>2
<1>5. CASE Fail
  BY <1>4, <1>5, FailLeadsTo DEF Working
<1>6. CASE Go("backup-ready")
  <2> PICK c : c = call'
    OBVIOUS
  <2>1. AdapterTypeOK' /\ c.at = "backup-ready" /\ c.id = o.prior /\ op' = o
    BY <1>1, <1>6, GoLeadsTo DEF Working, Places, BackupSteps
  <2>2. c.at \in Steps(o)
    BY <1>1, <2>1, StepsOf DEF BackupSteps
  <2>3. Going(o, c)' /\ Reverting(o, c)'
    BY <2>1 DEF Going, Reverting, ReplaceSteps, RevertSteps
  <2> QED
    BY <1>4, <2>1, <2>2, <2>3, GoesOn DEF Working
<1> QED
  BY <1>2, <1>5, <1>6

LEMMA BackupReadyStep == Working /\ BackupReady => Working'
<1> SUFFICES ASSUME Working, BackupReady
             PROVE  Working'
  OBVIOUS
<1> PICK o \in Operations : o = op
  BY Caller DEF BackupReady
<1>1. /\ Holding(o) /\ o.phase = "prepared" /\ TakesBackup(o.kind) /\ o.safety \in BackupIds
  BY BackupFinds DEF BackupReady, BackupSteps
<1>2. UNCHANGED engine /\ recorded \subseteq recorded' /\ installed' = installed
  BY DEF BackupReady, BackupDone, Fail, store
<1>3. EngineTypeOK' /\ EngineInv' /\ Holding(o)'
  BY <1>1, <1>2, RestEngine, RestHolding DEF Working
<1>4. CASE Fail
  BY <1>3, <1>4, FailLeadsTo DEF Working
<1>5. CASE BackupDone
  <2> DEFINE next == IF o.kind = "backup" THEN "commit" ELSE "stage"
             c == [Nothing EXCEPT !.at = next]
  <2>1. call' = c /\ op' = o /\ archive' = archive /\ recorded' = recorded \cup {o.safety}
    BY <1>5 DEF BackupDone, Enter
  <2>2. c.at = next /\ c \in Calls
    BY CallTypes DEF Places
  <2>3. AdapterTypeOK'
    BY <1>1, <1>2, <2>1, <2>2 DEF Working, AdapterTypeOK
  <2>4. c.at \in Steps(o)
    BY <1>1, <2>2, StepsOf DEF TakesBackup, Replaces
  <2>5. Going(o, c)' /\ Reverting(o, c)'
    BY <1>1, <2>1, <2>2
    DEF Going, Reverting, BackupSteps, ReplaceSteps, RevertSteps
  <2> QED
    BY <1>3, <2>1, <2>3, <2>4, <2>5, GoesOn DEF Working
<1> QED
  BY <1>4, <1>5 DEF BackupReady

LEMMA BackupKeeps == Working /\ BackupStep => Working'
  BY BackupInspectStep, BackupStopStep, BackupArchiveStep, BackupRestartStep, BackupReadyStep
  DEF BackupStep
-----------------------------------------------------------------------------
(* The operation around the adapter calls.                                 *)

\* An install or a removal holds nothing but what it was asked for.
LEMMA PlainHolding ==
    ASSUME NEW o, Holding(o), o.phase # "prepared", ~Replaces(o.kind), installed' = installed
    PROVE  Holding(o)'
  BY DEF Holding, Legal

\* What an Apply that succeeds has left.
Delivered(o) ==
    CASE o.kind = "install"   -> Serves(Data, o.to)
      [] o.kind = "uninstall" -> NoServer
      [] OTHER                -> Serves(o.safety, o.to)

LEMMA ApplySucceeds ==
    ASSUME AdapterTypeOK, NEW o \in Operations, op = o, o.phase = "staged", Succeed,
           Holding(o)', Delivered(o)'
    PROVE  AdapterTypeOK' /\ OperationInv' /\ CallInv'
<1> DEFINE n == [o EXCEPT !.phase = "applied"]
           next == IF o.kind = "uninstall" THEN "commit" ELSE "verify"
           c == [Nothing EXCEPT !.at = next]
<1>1. op' = n /\ call' = c /\ installed' = installed /\ archive' = archive /\ recorded' = recorded
  BY DEF Succeed, Enter
<1>2. /\ n \in Operations /\ n.phase = "applied" /\ n.kind = o.kind /\ n.to = o.to
      /\ n.safety = o.safety
  BY PhaseTypes
<1>3. c \in Calls /\ c.at = next
  BY CallTypes DEF Places
<1>4. o.kind # "backup"
  BY DEF Holding, Legal
<1>5. Holding(n)'
  BY <1>4, PhaseHolding
<1>6. c.at \in Steps(n)
  BY <1>2, <1>3, StepsOf
<1>7. Going(n, c)'
  BY <1>2, <1>3 DEF Going, Delivered, BackupSteps, ReplaceSteps
<1>8. Reverting(n, c)'
  BY <1>3 DEF Reverting, RevertSteps
<1> QED
  BY <1>1, <1>2, <1>3, <1>5, <1>6, <1>7, <1>8, GoesOn DEF AdapterTypeOK

\* What a Recover that succeeds has left.
Undone(o) == IF Replaces(o.kind) THEN \E v \in Volumes : Serves(v, o.from) ELSE NoServer

LEMMA RecoverSucceeds ==
    ASSUME AdapterTypeOK, NEW o \in Operations, op = o, o.phase = "recovering", Succeed,
           Holding(o), Undone(o)'
    PROVE  AdapterTypeOK' /\ OperationInv' /\ CallInv'
<1>1. /\ op' = NoOp /\ call' = Nothing /\ archive' = archive /\ recorded' = recorded
      /\ installed' = IF o.kind = "uninstall" THEN NoVersion ELSE installed
  BY DEF Succeed, Close
<1>2. /\ o.from = installed /\ (o.kind = "install" <=> o.from = NoVersion)
      /\ o.kind \in Kinds /\ o.kind # "backup"
  BY OperationTypes DEF Holding, Legal
<1>3. Settled'
  <2>1. CASE Replaces(o.kind)
    BY <1>1, <1>2, <2>1 DEF Undone, Settled, Replaces
  <2>2. CASE ~Replaces(o.kind)
    <3>1. installed' = NoVersion
      BY <1>1, <1>2, <2>2 DEF Kinds, Replaces
    <3> QED
      BY <2>2, <3>1 DEF Undone, Settled
  <2> QED
    BY <2>1, <2>2
<1>4. AdapterTypeOK'
  BY <1>1, CallTypes DEF AdapterTypeOK
<1> QED
  BY <1>1, <1>3, <1>4 DEF OperationInv, CallInv

\* A backup of what serves is the version that a replacement keeps.
LEMMA UntouchedIsKept ==
    ASSUME EngineTypeOK, EngineInv, NEW o \in Operations, o.safety \in BackupIds,
           Serves(o.prior, o.from), Unclaimed(o.safety)
    PROVE  Kept(o)
<1>1. /\ o.prior \in Volumes /\ container[o.prior] # NoContainer
      /\ container[o.prior].name = Server /\ container[o.prior].version = o.from
      /\ content[o.prior] # Empty
  BY DEF Serves
<1>2. o.prior \in Everything /\ Foreign \in Everything /\ o.prior # Foreign
  BY <1>1, Identities DEF Everything
<1>3. container[Foreign] = NoContainer
  BY <1>1, <1>2 DEF EngineInv, UniqueNames
<1>4. o.prior # o.safety /\ container[o.safety] = NoContainer
  BY <1>1, Identities DEF Unclaimed
<1>5. \A v \in Volumes \ {o.prior, o.safety} :
         container[v] # NoContainer => container[v].name \notin {Server, o.safety}
  BY <1>1, <1>2 DEF EngineInv, UniqueNames, Unclaimed, Everything
<1> QED
  BY <1>1, <1>3, <1>4, <1>5 DEF Kept

LEMMA StageStep == Working /\ Stage => Working'
<1> SUFFICES ASSUME Working, Stage
             PROVE  Working'
  OBVIOUS
<1> PICK o \in Operations : o = op
  BY Caller DEF Stage
<1>1. /\ Holding(o) /\ Going(o, call) /\ o.phase = "prepared"
      /\ o.kind = "install" \/ Replaces(o.kind)
  BY Caller, StepsTell DEF Stage, Holding
<1>2. UNCHANGED engine /\ UNCHANGED <<archive, recorded, installed>>
  BY DEF Stage, store
<1>3. EngineTypeOK' /\ EngineInv' /\ Holding(o)'
  BY <1>1, <1>2, RestEngine, RestHolding DEF Working
<1>4. CASE Close
  <2>1. Settled'
    BY <1>1, <1>3 DEF Holding, Untouched
  <2> QED
    BY <1>2, <1>3, <1>4, <2>1, CallTypes
    DEF Close, Working, OperationInv, CallInv, AdapterTypeOK
<1>5. CASE op' = [o EXCEPT !.phase = "staged"] /\ Enter(ApplyStep(o.kind))
  <2> DEFINE n == [o EXCEPT !.phase = "staged"]
             c == [Nothing EXCEPT !.at = ApplyStep(o.kind)]
  <2>1. op' = n /\ call' = c
    BY <1>5 DEF Enter
  <2>2. /\ n \in Operations /\ n.phase = "staged" /\ n.kind = o.kind /\ n.from = o.from
        /\ n.to = o.to /\ n.prior = o.prior /\ n.safety = o.safety /\ n.selected = o.selected
    BY PhaseTypes
  <2>3. ApplyStep(o.kind) \in {"install-inspect", "replace-inspect"}
    BY <1>1 DEF ApplyStep, Replaces
  <2>4. ApplyStep(o.kind) \in Steps(n)
    BY <1>1, <2>2, StepsOf DEF ApplyStep, Replaces, InstallSteps, ReplaceSteps
  <2>5. Underway(n, c)'
    <3>1. CASE o.kind = "install"
      <4>1. ApplyStep(o.kind) = "install-inspect"
        BY <3>1 DEF ApplyStep
      <4> QED
        BY <2>4, <4>1, EnterUnderway
    <3>2. CASE Replaces(o.kind)
      <4>1. c.at = "replace-inspect" /\ c.at \in Steps(n)
        BY <2>4, <3>2 DEF ApplyStep, Replaces, Nothing
      <4>2. Serves(o.prior, o.from)
        BY <1>1, <3>2 DEF Holding, Untouched, Replaces, TakesBackup
      <4>3. PriorNamed(n, Server)'
        BY <1>2, <2>2, <4>2 DEF PriorNamed, Serves, engine
      <4>4. Going(n, c)'
        BY <4>1, <4>3 DEF Going, BackupSteps
      <4>5. Reverting(n, c)'
        BY <4>1 DEF Reverting, RevertSteps
      <4> QED
        BY <4>1, <4>4, <4>5 DEF Underway
    <3> QED
      BY <1>1, <3>1, <3>2
  <2>6. c \in Calls
    BY <2>3, CallTypes DEF Places, InstallSteps, ReplaceSteps
  <2>7. Holding(n)'
    <3>1. CASE o.kind = "install"
      BY <1>3, <3>1, PhaseHolding DEF Replaces
    <3>2. CASE Replaces(o.kind)
      <4>1. TakesBackup(o.kind) /\ call.at = "stage"
        BY <3>2 DEF Replaces, TakesBackup, Stage
      <4>2. o.safety \in BackupIds /\ Serves(o.prior, o.from) /\ Unclaimed(o.safety)
        BY <1>1, <4>1 DEF Holding, Legal, Untouched
      <4>3. Kept(o)
        BY <4>2, UntouchedIsKept DEF Working
      <4>4. Kept(n)'
        BY <1>2, <2>2, <4>3 DEF Kept, engine
      <4>5. n.safety \in recorded'
        BY <1>1, <1>2, <2>2, <3>2, <4>1 DEF Going
      <4>6. Legal(n)'
        BY <1>1, <1>2, <2>2, <3>2 DEF Holding, Legal, Replaces
      <4> QED
        BY <2>2, <4>4, <4>5, <4>6 DEF Holding
    <3> QED
      BY <1>1, <3>1, <3>2
  <2> QED
    BY <1>2, <1>3, <2>1, <2>2, <2>5, <2>6, <2>7, OperationTypes
    DEF Working, OperationInv, CallInv, AdapterTypeOK
<1> QED
  BY <1>4, <1>5 DEF Stage

LEMMA CommitStep == Working /\ Commit => Working'
<1> SUFFICES ASSUME Working, Commit
             PROVE  Working'
  OBVIOUS
<1> PICK o \in Operations : o = op
  BY Caller DEF Commit
<1>1. /\ Holding(o) /\ Going(o, call) /\ call.at = "commit"
      /\ (o.phase = "prepared" /\ o.kind = "backup") \/ o.phase = "applied"
  BY Caller, StepsTell DEF Commit, Holding
<1>2. /\ UNCHANGED engine /\ UNCHANGED <<archive, recorded>> /\ op' = NoOp /\ call' = Nothing
      /\ installed' = CASE o.kind = "uninstall" -> NoVersion
                        [] o.kind = "backup"    -> installed
                        [] OTHER                -> o.to
  BY DEF Commit, Close
<1>3. EngineTypeOK' /\ EngineInv'
  BY <1>2, RestEngine DEF Working
<1>4. o.to \in Versions /\ o.to # NoVersion
  BY OperationTypes
<1>5. Settled'
  <2>1. CASE o.kind = "backup"
    <3>1. Settled /\ installed' = installed
      BY <1>1, <1>2, <2>1 DEF Holding, Legal, Untouched
    <3> QED
      BY <1>2, <3>1 DEF Settled, NoServer, NoServerBut, Serves, engine
  <2>2. CASE o.kind = "uninstall"
    <3>1. NoServer /\ installed' = NoVersion
      BY <1>1, <1>2, <2>2 DEF Going
    <3> QED
      BY <1>2, <3>1 DEF Settled, NoServer, NoServerBut, engine
  <2>3. CASE o.kind \notin {"backup", "uninstall"}
    <3>1. installed' = o.to /\ \E v \in Volumes : Serves(v, o.to)
      BY <1>1, <1>2, <2>3 DEF Going, Serves
    <3>2. \E v \in Volumes : Serves(v, o.to)'
      BY <1>2, <3>1 DEF Serves, engine
    <3> QED
      BY <1>4, <3>1, <3>2 DEF Settled
  <2> QED
    BY <2>1, <2>2, <2>3
<1>6. AdapterTypeOK'
  BY <1>2, <1>4, CallTypes DEF Working, AdapterTypeOK
<1> QED
  BY <1>2, <1>3, <1>5, <1>6 DEF Working, OperationInv, CallInv

LEMMA VerifyStep == Working /\ Verify => Working'
<1> SUFFICES ASSUME Working, Verify
             PROVE  Working'
  OBVIOUS
<1> PICK o \in Operations : o = op
  BY Caller DEF Verify
<1>1. /\ Holding(o) /\ Going(o, call) /\ call.at = "verify" /\ o.phase = "applied"
  BY Caller, StepsTell DEF Verify, Holding
<1>2. UNCHANGED engine /\ recorded' = recorded /\ installed' = installed
  BY DEF Verify, Fail, Go, store
<1>3. EngineTypeOK' /\ EngineInv' /\ Holding(o)'
  BY <1>1, <1>2, RestEngine, RestHolding DEF Working
<1>4. CASE Fail
  BY <1>3, <1>4, FailLeadsTo DEF Working
<1>5. CASE Go("commit")
  <2> PICK c : c = call'
    OBVIOUS
  <2>1. AdapterTypeOK' /\ c.at = "commit" /\ op' = o
    BY <1>5, GoLeadsTo DEF Working, Places
  <2>2. c.at \in Steps(o)
    BY <1>1, <2>1, StepsOf
  <2>3. Going(o, c)'
    BY <1>1, <1>2, <2>1 DEF Going, BackupSteps, ReplaceSteps, Serves, NoServer, NoServerBut, engine
  <2>4. Reverting(o, c)'
    BY <2>1 DEF Reverting, RevertSteps
  <2> QED
    BY <1>3, <2>1, <2>2, <2>3, <2>4, GoesOn DEF Working
<1> QED
  BY <1>4, <1>5 DEF Verify

LEMMA RecoverStarts == Working /\ Recover => Working'
<1> SUFFICES ASSUME Working, Recover
             PROVE  Working'
  OBVIOUS
<1>1. op \in Operations /\ Holding(op)
  BY DEF Recover, Working, OperationInv, AdapterTypeOK
<1> PICK o \in Operations : o = op
  BY <1>1
<1>2. UNCHANGED engine /\ UNCHANGED <<archive, recorded, installed>>
  BY DEF Recover, store
<1>3. EngineTypeOK' /\ EngineInv' /\ Holding(o)'
  BY <1>1, <1>2, RestEngine, RestHolding DEF Working
<1>4. CASE o.phase = "prepared"
  <2>1. Settled' /\ op' = NoOp /\ call' = Nothing
    BY <1>3, <1>4 DEF Holding, Untouched, Recover, Close
  <2> QED
    BY <1>2, <1>3, <2>1, CallTypes DEF Working, OperationInv, CallInv, AdapterTypeOK
<1>5. CASE o.phase # "prepared"
  <2>1. op' = [o EXCEPT !.phase = "recovering"] /\ Enter(RecoverStep(o.kind))
    BY <1>5 DEF Recover
  <2> QED
    BY <1>2, <1>3, <1>5, <2>1, RecoveryBegins DEF Working, AdapterTypeOK
<1> QED
  BY <1>4, <1>5
LEMMA BeginStep ==
    ASSUME Working, NEW kind \in RunKinds, NEW to \in Versions,
           NEW selected \in BackupIds \cup {NoBackup}, Begin(kind, to, selected)
    PROVE  Working'
<1> PICK from : from = installed
  OBVIOUS
<1> PICK safety : safety = IF TakesBackup(kind) THEN FreshBackup ELSE NoBackup
  OBVIOUS
<1> PICK prior : prior = IF installed = NoVersion THEN NoVolume ELSE Named(Server)
  OBVIOUS
<1> DEFINE phase == IF kind = "uninstall" THEN "staged" ELSE "prepared"
           step == CASE TakesBackup(kind)   -> "backup-inspect"
                     [] kind = "uninstall" -> "remove-inspect"
                     [] OTHER              -> "stage"
           n == [kind |-> kind, from |-> from, to |-> to, selected |-> selected,
                 safety |-> safety, prior |-> prior, phase |-> phase]
           c == [Nothing EXCEPT !.at = step]
<1>1. op' = n /\ call' = c /\ UNCHANGED engine /\ UNCHANGED <<archive, recorded, installed>>
  BY DEF Begin, Enter, store
<1>2. /\ Settled /\ kind \in Kinds
      /\ (kind = "install") <=> (from = NoVersion)
      /\ kind \in {"restore", "rollback"} => selected \in BackupIds
      /\ TakesBackup(kind) => Unused # {}
  BY KindsAssumption
  DEF Working, OperationInv, Begin, VersionsFit, AdapterTypeOK
<1>3. from # NoVersion => Serves(prior, from)
  BY <1>2, NamedIs DEF Settled, Serves, Working, EngineInv, Everything
<1>4. TakesBackup(kind) => safety \in BackupIds /\ safety \notin recorded
  BY <1>2, FreshIsUnused DEF Unused
<1>5. TakesBackup(kind) => Unclaimed(safety)
  BY <1>4 DEF Unclaimed, Working, EngineInv, Sound
<1>6. n \in Operations
  <2>1. from \in Versions \cup {NoVersion}
    BY DEF Working, AdapterTypeOK
  <2>2. prior \in Volumes \cup {NoVolume}
    BY <1>3 DEF Serves
  <2>3. safety \in BackupIds \cup {NoBackup}
    BY <1>4
  <2> QED
    BY <1>2, <2>1, <2>2, <2>3 DEF Operations
<1>7. Holding(n)'
  <2>1. TakesBackup(kind) => kind # "install" /\ kind # "uninstall"
    BY DEF TakesBackup
  <2>2. Legal(n)'
    BY <1>1, <1>2, <1>3, <1>4, <2>1 DEF Legal, Serves
  <2>3. Settled'
    BY <1>1, <1>2 DEF Settled, NoServer, NoServerBut, Serves, engine
  <2>4. TakesBackup(kind) => Serves(prior, from)' /\ Unclaimed(safety)'
    BY <1>1, <1>2, <1>3, <1>5, <2>1 DEF Serves, Unclaimed, engine
  <2> QED
    BY <2>2, <2>3, <2>4 DEF Holding, Untouched, Replaces
<1>8. step \in Steps(n)
  BY <1>2, <1>6, StepsOf DEF TakesBackup, Replaces, Kinds, BackupSteps, RemoveSteps
<1>9. Underway(n, c)'
  <2>1. CASE TakesBackup(kind) \/ kind = "uninstall"
    <3> HIDE DEF n
    <3> QED
      BY <1>8, <2>1, EnterUnderway
  <2>2. CASE ~TakesBackup(kind) /\ kind # "uninstall"
    <3>1. c.at = "stage" /\ ~Replaces(n.kind)
      BY <2>2 DEF Nothing, TakesBackup, Replaces
    <3> HIDE DEF n
    <3>2. Going(n, c)' /\ Reverting(n, c)'
      BY <3>1 DEF Going, Reverting, BackupSteps, ReplaceSteps, RevertSteps
    <3> QED
      BY <1>8, <3>1, <3>2, <2>2 DEF Underway
  <2> QED
    BY <2>1, <2>2
<1>10. c \in Calls
  BY CallTypes DEF Places, BackupSteps, RemoveSteps
<1>11. EngineTypeOK' /\ EngineInv'
  BY <1>1, RestEngine DEF Working
<1> HIDE DEF n, c
<1> QED
  BY <1>1, <1>6, <1>7, <1>9, <1>10, <1>11, OperationTypes
  DEF Working, AdapterTypeOK, OperationInv, CallInv

-----------------------------------------------------------------------------
(* Apply of an install.                                                    *)

LEMMA InstallFinds ==
    ASSUME Working, call.at \in InstallSteps
    PROVE  /\ op \in Operations /\ Holding(op) /\ Going(op, call)
           /\ op.phase = "staged" /\ op.kind = "install"
<1>1. call.at # "none"
  BY DEF InstallSteps
<1> QED
  BY <1>1, Caller, StepsTell DEF Holding

\* Its calls go on in the staged phase.
LEMMA InstallGoesOn ==
    ASSUME Working, NEW o \in Operations, op = o, Holding(o)', o.phase = "staged",
           o.kind = "install", NEW step \in InstallSteps, Go(step),
           step \in {"install-volume", "install-create"} => NoServer',
           step = "install-create" => volume'[Data] = "owned",
           step = "install-start" => Serves(Data, o.to)' \/ /\ container'[Data] # NoContainer
                                                            /\ container'[Data].name = Server
                                                            /\ container'[Data].version = o.to
    PROVE  AdapterTypeOK' /\ OperationInv' /\ CallInv'
<1> PICK c : c = call'
  OBVIOUS
<1>1. AdapterTypeOK' /\ c.at = step /\ op' = o
  BY GoLeadsTo DEF Working, Places
<1>2. c.at \in Steps(o)
  BY <1>1, StepsOf
<1>3. Going(o, c)'
  BY <1>1 DEF Going, Serves, InstallSteps, BackupSteps, ReplaceSteps
<1>4. Reverting(o, c)'
  BY <1>1 DEF Reverting, InstallSteps, RevertSteps
<1> QED
  BY <1>1, <1>2, <1>3, <1>4, GoesOn

LEMMA InstallInspectStep == Working /\ InstallInspect => Working'
<1> SUFFICES ASSUME Working, InstallInspect
             PROVE  Working'
  OBVIOUS
<1> PICK o \in Operations : o = op
  BY Caller DEF InstallInspect
<1>1. Holding(o) /\ o.phase = "staged" /\ o.kind = "install"
  BY InstallFinds DEF InstallInspect, InstallSteps
<1>2. UNCHANGED engine /\ recorded' = recorded /\ installed' = installed
  BY DEF InstallInspect, Fail, Go, store
<1>3. EngineTypeOK' /\ EngineInv' /\ Holding(o)'
  BY <1>1, <1>2, RestEngine, RestHolding DEF Working
<1>4. CASE Fail
  BY <1>3, <1>4, FailLeadsTo DEF Working
<1>5. CASE Named(Server) = NoVolume /\ Go("install-volume")
  <2>1. NoServer
    BY <1>5, NamedNone DEF NoServer, NoServerBut, Working, Everything
  <2>2. NoServer'
    BY <1>2, <2>1 DEF NoServer, NoServerBut, engine
  <2> QED
    BY <1>1, <1>3, <1>5, <2>2, InstallGoesOn DEF Working, InstallSteps
<1> QED
  BY <1>4, <1>5 DEF InstallInspect

LEMMA InstallVolumeStep == Working /\ InstallVolume => Working'
<1> SUFFICES ASSUME Working, InstallVolume
             PROVE  Working'
  OBVIOUS
<1> PICK o \in Operations : o = op
  BY Caller DEF InstallVolume
<1>1. Holding(o) /\ o.phase = "staged" /\ o.kind = "install" /\ NoServer
  BY InstallFinds DEF InstallVolume, InstallSteps, Going
<1>2. \/ Fail /\ (UNCHANGED engine \/ (volume[Data] = "absent" /\ CreateVolume(Data)))
      \/ /\ Go("install-create")
         /\ \/ UNCHANGED engine /\ volume[Data] = "owned"
            \/ volume[Data] = "absent" /\ CreateVolume(Data)
  BY DEF InstallVolume, Request
<1>3. recorded' = recorded /\ installed' = installed
  BY <1>2 DEF Fail, Go, store
<1>4. Holding(o)'
  BY <1>1, <1>3, PlainHolding DEF Replaces
<1>5. /\ EngineTypeOK' /\ EngineInv' /\ container' = container
      /\ ~Fail => volume'[Data] = "owned"
  <2>1. CASE UNCHANGED engine /\ (Fail \/ volume[Data] = "owned")
    BY <1>3, <2>1, RestEngine DEF Working, engine
  <2>2. CASE volume[Data] = "absent" /\ CreateVolume(Data)
    <3>1. Data \in Volumes /\ container[Data] = NoContainer
      BY <2>2, Identities DEF Working, EngineInv, Sound
    <3> QED
      BY <1>3, <2>2, <3>1, CreateVolumeEngine DEF Working
  <2> QED
    BY <1>2, <2>1, <2>2
<1>6. CASE Fail
  BY <1>4, <1>5, <1>6, FailLeadsTo DEF Working
<1>7. CASE ~Fail /\ Go("install-create")
  <2>1. NoServer'
    BY <1>1, <1>5 DEF NoServer, NoServerBut
  <2> QED
    BY <1>1, <1>4, <1>5, <1>7, <2>1, InstallGoesOn DEF Working, InstallSteps
<1> QED
  BY <1>2, <1>6, <1>7

LEMMA InstallCreateStep == Working /\ InstallCreate => Working'
<1> SUFFICES ASSUME Working, InstallCreate
             PROVE  Working'
  OBVIOUS
<1> PICK o \in Operations : o = op
  BY Caller DEF InstallCreate
<1>1. Holding(o) /\ o.phase = "staged" /\ o.kind = "install" /\ volume[Data] = "owned"
  BY InstallFinds DEF InstallCreate, InstallSteps, Going
<1>2. \/ Fail /\ UNCHANGED engine
      \/ /\ Fail \/ Go("install-start")
         /\ Named(Server) = NoVolume /\ CreateContainer(Data, o.to)
  BY DEF InstallCreate, Request
<1>3. recorded' = recorded /\ installed' = installed
  BY <1>2 DEF Fail, Go, store
<1>4. Holding(o)'
  BY <1>1, <1>3, PlainHolding DEF Replaces
<1>5. CASE Fail /\ UNCHANGED engine
  BY <1>3, <1>4, <1>5, RestEngine, FailLeadsTo DEF Working
<1>6. CASE Named(Server) = NoVolume /\ CreateContainer(Data, o.to)
  <2>1. /\ EngineTypeOK' /\ EngineInv' /\ container'[Data] # NoContainer
        /\ container'[Data].name = Server /\ container'[Data].version = o.to
    BY <1>1, <1>3, <1>6, CreateEngine, Identities, OperationTypes DEF Working
  <2>2. CASE Fail
    BY <1>4, <2>1, <2>2, FailLeadsTo DEF Working
  <2>3. CASE Go("install-start")
    BY <1>1, <1>4, <2>1, <2>3, InstallGoesOn DEF Working, InstallSteps
  <2> QED
    BY <1>2, <2>2, <2>3, <1>5
<1> QED
  BY <1>2, <1>5, <1>6

LEMMA InstallStartStep == Working /\ InstallStart => Working'
<1> SUFFICES ASSUME Working, InstallStart
             PROVE  Working'
  OBVIOUS
<1> PICK o \in Operations : o = op
  BY Caller DEF InstallStart
<1>1. /\ Holding(o) /\ o.phase = "staged" /\ o.kind = "install"
      /\ container[Data] # NoContainer
      /\ container[Data].name = Server /\ container[Data].version = o.to
  BY InstallFinds DEF InstallStart, InstallSteps, Going
<1>2. \/ Fail /\ UNCHANGED engine
      \/ (Fail \/ Succeed) /\ Start(Data)
  BY DEF InstallStart, Request
<1>3. recorded' = recorded /\ installed' = installed
  BY <1>1, <1>2 DEF Fail, Succeed, store
<1>4. Holding(o)'
  BY <1>1, <1>3, PlainHolding DEF Replaces
<1>5. CASE Fail /\ UNCHANGED engine
  BY <1>3, <1>4, <1>5, RestEngine, FailLeadsTo DEF Working
<1>6. CASE Start(Data)
  <2>1. /\ EngineTypeOK' /\ EngineInv' /\ container'[Data] # NoContainer
        /\ container'[Data].name = Server /\ container'[Data].version = o.to
        /\ content'[Data] # Empty
    BY <1>1, <1>3, <1>6, StartEngine, Identities DEF Working
  <2>2. CASE Fail
    BY <1>4, <2>1, <2>2, FailLeadsTo DEF Working
  <2>3. CASE Succeed
    <3>1. Delivered(o)'
      BY <1>1, <2>1, Identities DEF Delivered, Serves
    <3> QED
      BY <1>1, <1>4, <2>1, <2>3, <3>1, ApplySucceeds DEF Working
  <2> QED
    BY <1>2, <1>5, <2>2, <2>3
<1> QED
  BY <1>2, <1>5, <1>6

LEMMA InstallKeeps == Working /\ InstallStep => Working'
  BY InstallInspectStep, InstallVolumeStep, InstallCreateStep, InstallStartStep
  DEF InstallStep
-----------------------------------------------------------------------------
(* Apply and Recover of an uninstall, and Recover of an install.           *)

LEMMA TakingFinds ==
    ASSUME Working, call.at \in RemoveSteps \cup UndoSteps
    PROVE  /\ op \in Operations /\ Holding(op) /\ Reverting(op, call)
           /\ call.at \in RemoveSteps => op.phase \in {"staged", "recovering"} /\ op.kind = "uninstall"
           /\ call.at \in UndoSteps => op.phase = "recovering" /\ op.kind = "install"
<1>1. call.at # "none"
  BY DEF RemoveSteps, UndoSteps
<1> QED
  BY <1>1, Caller, StepsTell DEF Holding

\* There is at most one server.
LEMMA OnlyServer ==
    ASSUME EngineTypeOK, UniqueNames
    PROVE  /\ Named(Server) = NoVolume => NoServer
           /\ Named(Server) # NoVolume => NoServerBut(Named(Server))
<1>1. ASSUME Named(Server) = NoVolume PROVE NoServer
  BY <1>1, NamedNone DEF NoServer, NoServerBut, Everything
<1>2. NoServerBut(Named(Server))
  BY NamedIs DEF NoServerBut, Everything
<1> QED
  BY <1>1, <1>2

LEMMA RemoveGoesOn ==
    ASSUME NEW o \in Operations, op' = o, Holding(o)',
           o.phase \in {"staged", "recovering"} /\ o.kind = "uninstall",
           NEW c, call' = c,
           \/ c.at = "remove-container" /\ c.id = Data /\ NoServerBut(Data)'
           \/ c.at = "remove-volume" /\ NoServer'
    PROVE  OperationInv' /\ CallInv'
<1>1. c.at \in Steps(o)
  BY StepsOf DEF RemoveSteps
<1>2. Going(o, c)'
  BY DEF Going, BackupSteps, ReplaceSteps
<1>3. Reverting(o, c)'
  BY DEF Reverting, RevertSteps
<1> QED
  BY <1>1, <1>2, <1>3, GoesOn

LEMMA RemoveInspectStep == Working /\ RemoveInspect => Working'
<1> SUFFICES ASSUME Working, RemoveInspect
             PROVE  Working'
  OBVIOUS
<1> PICK o \in Operations : o = op
  BY Caller DEF RemoveInspect
<1>1. Holding(o) /\ o.phase \in {"staged", "recovering"} /\ o.kind = "uninstall"
  BY TakingFinds DEF RemoveInspect, RemoveSteps
<1>2. UNCHANGED engine /\ recorded' = recorded /\ installed' = installed
  BY DEF RemoveInspect, Fail, Go, GoOn, store
<1>3. EngineTypeOK' /\ EngineInv' /\ Holding(o)'
  BY <1>1, <1>2, RestEngine, RestHolding DEF Working
<1>4. UniqueNames /\ EngineTypeOK
  BY DEF Working, EngineInv
<1>5. CASE Fail
  BY <1>3, <1>5, FailLeadsTo DEF Working
<1>6. CASE Named(Server) = NoVolume /\ Go("remove-volume")
  <2>1. NoServer'
    BY <1>2, <1>4, <1>6, OnlyServer DEF NoServer, NoServerBut, engine
  <2>2. AdapterTypeOK' /\ call'.at = "remove-volume" /\ op' = o
    BY <1>6, GoLeadsTo DEF Working, Places, RemoveSteps
  <2> QED
    BY <1>1, <1>3, <2>1, <2>2, RemoveGoesOn DEF Working
<1>7. CASE OwnedContainer(Data) /\ Named(Server) = Data /\ GoOn("remove-container", Data)
  <2>1. Data \in Volumes /\ container[Data] # NoContainer /\ Data # NoVolume
    BY <1>7, IdentityAssumption DEF OwnedContainer, Exists
  <2>2. NoServerBut(Data)'
    BY <1>2, <1>4, <1>7, <2>1, OnlyServer DEF NoServerBut, engine
  <2>3. AdapterTypeOK' /\ call'.at = "remove-container" /\ call'.id = Data /\ op' = o
    BY <1>7, <2>1, GoOnLeadsTo DEF Working, Places, RemoveSteps
  <2> QED
    BY <1>1, <1>3, <2>2, <2>3, RemoveGoesOn DEF Working
<1> QED
  BY <1>5, <1>6, <1>7 DEF RemoveInspect

LEMMA RemoveServerStep == Working /\ RemoveServer => Working'
<1> SUFFICES ASSUME Working, RemoveServer
             PROVE  Working'
  OBVIOUS
<1> PICK o \in Operations : o = op
  BY Caller DEF RemoveServer
<1>1. /\ Holding(o) /\ o.phase \in {"staged", "recovering"} /\ o.kind = "uninstall"
      /\ call.id = Data /\ NoServerBut(Data)
  BY TakingFinds DEF RemoveServer, RemoveSteps, Reverting
<1>2. \/ Fail /\ UNCHANGED engine
      \/ (Fail \/ Go("remove-volume")) /\ RemoveContainer(Data)
  BY <1>1 DEF RemoveServer, Request
<1>3. recorded' = recorded /\ installed' = installed
  BY <1>2 DEF Fail, Go, store
<1>4. Holding(o)'
  BY <1>1, <1>3, PlainHolding DEF Replaces
<1>5. CASE Fail /\ UNCHANGED engine
  BY <1>3, <1>4, <1>5, RestEngine, FailLeadsTo DEF Working
<1>6. CASE RemoveContainer(Data)
  <2>1. /\ EngineTypeOK' /\ EngineInv' /\ container'[Data] = NoContainer
        /\ \A w \in Everything \ {Data} : container'[w] = container[w]
    BY <1>3, <1>6, RemoveEngine, Identities DEF Working
  <2>2. CASE Fail
    BY <1>4, <2>1, <2>2, FailLeadsTo DEF Working
  <2>3. CASE Go("remove-volume")
    <3>1. NoServer'
      BY <1>1, <2>1 DEF NoServer, NoServerBut, Everything
    <3>2. AdapterTypeOK' /\ call'.at = "remove-volume" /\ op' = o
      BY <2>3, GoLeadsTo DEF Working, Places, RemoveSteps
    <3> QED
      BY <1>1, <1>4, <2>1, <3>1, <3>2, RemoveGoesOn DEF Working
  <2> QED
    BY <1>2, <1>5, <2>2, <2>3
<1> QED
  BY <1>2, <1>5, <1>6

LEMMA RemoveDataStep == Working /\ RemoveData => Working'
<1> SUFFICES ASSUME Working, RemoveData
             PROVE  Working'
  OBVIOUS
<1> PICK o \in Operations : o = op
  BY Caller DEF RemoveData
<1>1. /\ Holding(o) /\ o.phase \in {"staged", "recovering"} /\ o.kind = "uninstall" /\ NoServer
  BY TakingFinds DEF RemoveData, RemoveSteps, Reverting
<1>2. /\ Fail \/ Succeed
      /\ UNCHANGED engine \/ (~Exists(Data) /\ RemoveVolume(Data))
  BY DEF RemoveData, Request
<1>3. recorded' = recorded
  BY <1>2 DEF Fail, Succeed, store
<1>4. EngineTypeOK' /\ EngineInv' /\ container' = container
  <2>1. CASE UNCHANGED engine
    BY <1>3, <2>1, RestEngine DEF Working, engine
  <2>2. CASE ~Exists(Data) /\ RemoveVolume(Data)
    <3>1. Data \in Volumes /\ container[Data] = NoContainer
      BY <2>2, Identities, IdentityAssumption DEF Exists
    <3> QED
      BY <1>3, <2>2, <3>1, RemoveVolumeEngine DEF Working
  <2> QED
    BY <1>2, <2>1, <2>2
<1>5. NoServer'
  BY <1>1, <1>4 DEF NoServer, NoServerBut
<1>6. CASE Fail
  <2>1. Holding(o)'
    BY <1>1, <1>6, PlainHolding DEF Replaces, Fail, store
  <2> QED
    BY <1>4, <1>6, <2>1, FailLeadsTo DEF Working
<1>7. CASE Succeed /\ o.phase = "recovering"
  <2>1. Undone(o)'
    BY <1>1, <1>5 DEF Undone, Replaces
  <2> QED
    BY <1>1, <1>4, <1>7, <2>1, RecoverSucceeds DEF Working
<1>8. CASE Succeed /\ o.phase = "staged"
  <2>1. Delivered(o)'
    BY <1>1, <1>5 DEF Delivered
  <2>2. Holding(o)'
    BY <1>1, <1>8, PlainHolding DEF Replaces, Succeed
  <2> QED
    BY <1>4, <1>8, <2>1, <2>2, ApplySucceeds DEF Working
<1> QED
  BY <1>1, <1>2, <1>6, <1>7, <1>8

LEMMA RemoveKeeps == Working /\ RemoveStep => Working'
  BY RemoveInspectStep, RemoveServerStep, RemoveDataStep DEF RemoveStep

LEMMA UndoInspectStep == Working /\ UndoInspect => Working'
<1> SUFFICES ASSUME Working, UndoInspect
             PROVE  Working'
  OBVIOUS
<1> PICK o \in Operations : o = op
  BY Caller DEF UndoInspect
<1> PICK v : v = Named(Server)
  OBVIOUS
<1>1. Holding(o) /\ o.phase = "recovering" /\ o.kind = "install"
  BY TakingFinds DEF UndoInspect, UndoSteps
<1>2. UNCHANGED engine /\ recorded' = recorded
  BY DEF UndoInspect, Fail, Succeed, GoOn, store
<1>3. EngineTypeOK' /\ EngineInv'
  BY <1>1, <1>2, RestEngine DEF Working
<1>4. UniqueNames /\ EngineTypeOK
  BY DEF Working, EngineInv
<1>5. CASE Fail
  <2>1. Holding(o)'
    BY <1>1, <1>5, PlainHolding DEF Replaces, Fail, store
  <2> QED
    BY <1>3, <1>5, <2>1, FailLeadsTo DEF Working
<1>6. CASE v = NoVolume /\ Succeed
  <2>1. NoServer'
    BY <1>2, <1>4, <1>6, OnlyServer DEF NoServer, NoServerBut, engine
  <2>2. Undone(o)'
    BY <1>1, <2>1 DEF Undone, Replaces
  <2> QED
    BY <1>1, <1>3, <1>6, <2>2, RecoverSucceeds DEF Working
<1>7. CASE OwnedContainer(v) /\ GoOn("undo-container", v)
  <2> PICK c : c = call'
    OBVIOUS
  <2>1. v \in Volumes /\ container[v] # NoContainer /\ v # NoVolume
    BY <1>7 DEF OwnedContainer, Exists
  <2>2. NoServerBut(v)'
    BY <1>2, <1>4, <2>1, OnlyServer DEF NoServerBut, engine
  <2>3. /\ AdapterTypeOK' /\ c.at = "undo-container" /\ c.id = v /\ op' = o
        /\ installed' = installed
    BY <1>7, <2>1, GoOnLeadsTo DEF Working, Places, UndoSteps
  <2>4. Holding(o)'
    BY <1>1, <2>3, PlainHolding DEF Replaces
  <2>5. c.at \in Steps(o)
    BY <1>1, <2>3, StepsOf DEF UndoSteps
  <2>6. Going(o, c)' /\ Reverting(o, c)'
    BY <2>1, <2>2, <2>3 DEF Going, Reverting, BackupSteps, ReplaceSteps, RevertSteps
  <2> QED
    BY <1>3, <2>3, <2>4, <2>5, <2>6, GoesOn DEF Working
<1> QED
  BY <1>5, <1>6, <1>7 DEF UndoInspect

LEMMA UndoContainerStep == Working /\ UndoContainer => Working'
<1> SUFFICES ASSUME Working, UndoContainer
             PROVE  Working'
  OBVIOUS
<1> PICK o \in Operations : o = op
  BY Caller DEF UndoContainer
<1> PICK v : v = call.id
  OBVIOUS
<1>1. /\ Holding(o) /\ o.phase = "recovering" /\ o.kind = "install"
      /\ v \in Volumes /\ NoServerBut(v)
  BY TakingFinds DEF UndoContainer, UndoSteps, Reverting
<1>2. \/ Fail /\ UNCHANGED engine
      \/ (Fail \/ Succeed) /\ RemoveContainer(v)
  BY DEF UndoContainer, Request
<1>3. recorded' = recorded
  BY <1>2 DEF Fail, Succeed, store
<1>4. Fail => Holding(o)'
  BY <1>1, PlainHolding DEF Replaces, Fail, store
<1>5. CASE Fail /\ UNCHANGED engine
  BY <1>3, <1>4, <1>5, RestEngine, FailLeadsTo DEF Working
<1>6. CASE RemoveContainer(v)
  <2>1. /\ EngineTypeOK' /\ EngineInv' /\ container'[v] = NoContainer
        /\ \A w \in Everything \ {v} : container'[w] = container[w]
    BY <1>1, <1>3, <1>6, RemoveEngine DEF Working
  <2>2. CASE Fail
    BY <1>4, <2>1, <2>2, FailLeadsTo DEF Working
  <2>3. CASE Succeed
    <3>1. NoServer'
      BY <1>1, <2>1 DEF NoServer, NoServerBut, Everything
    <3>2. Undone(o)'
      BY <1>1, <3>1 DEF Undone, Replaces
    <3> QED
      BY <1>1, <2>1, <2>3, <3>2, RecoverSucceeds DEF Working
  <2> QED
    BY <1>2, <1>5, <2>2, <2>3
<1> QED
  BY <1>2, <1>5, <1>6

LEMMA UndoKeeps == Working /\ UndoStep => Working'
  BY UndoInspectStep, UndoContainerStep DEF UndoStep
-----------------------------------------------------------------------------
(* Apply of a replacement.                                                 *)

\* What a replacement knows of itself once it may have changed the target.
LEMMA ReplacementHolds ==
    ASSUME NEW o \in Operations, Holding(o), o.phase # "prepared", Replaces(o.kind)
    PROVE  /\ Kept(o) /\ o.safety \in BackupIds /\ o.safety \in recorded /\ o.safety # Server
           /\ o.prior \in Volumes /\ o.prior \in Everything /\ o.safety \in Volumes
           /\ o.prior # o.safety /\ Source(o) \in BackupIds
<1>1. TakesBackup(o.kind)
  BY DEF Replaces, TakesBackup
<1>2. o.safety \in BackupIds /\ o.prior \in Volumes /\ o.safety \in recorded /\ Kept(o)
  BY <1>1 DEF Holding, Legal
<1>3. Source(o) \in BackupIds
  BY <1>2 DEF Holding, Legal, Source
<1> QED
  BY <1>2, <1>3, Identities DEF Everything, Kept

LEMMA KeptHolding ==
    ASSUME NEW o \in Operations, Holding(o), o.phase # "prepared", Replaces(o.kind),
           installed' = installed, recorded' = recorded, Kept(o)'
    PROVE  Holding(o)'
  BY DEF Holding, Legal

LEMMA ReplaceFinds ==
    ASSUME Working, call.at \in ReplaceSteps
    PROVE  /\ op \in Operations /\ Holding(op) /\ Going(op, call)
           /\ op.phase = "staged" /\ Replaces(op.kind)
<1>1. call.at # "none"
  BY DEF ReplaceSteps
<1> QED
  BY <1>1, Caller, StepsTell DEF Holding

LEMMA ReplaceGoesOn ==
    ASSUME NEW o \in Operations, o.phase = "staged", Replaces(o.kind), op' = o, Holding(o)',
           NEW c, call' = c, c.at \in ReplaceSteps, Going(o, c)'
    PROVE  OperationInv' /\ CallInv'
<1>1. Reverting(o, c)'
  BY DEF Reverting, RevertSteps, ReplaceSteps
<1> QED
  BY <1>1, StepsOf, GoesOn

LEMMA ReplaceInspectStep == Working /\ ReplaceInspect => Working'
<1> SUFFICES ASSUME Working, ReplaceInspect
             PROVE  Working'
  OBVIOUS
<1> PICK o \in Operations : o = op
  BY Caller DEF ReplaceInspect
<1>1. Holding(o) /\ o.phase = "staged" /\ Replaces(o.kind) /\ PriorNamed(o, Server)
  BY ReplaceFinds DEF ReplaceInspect, ReplaceSteps, Going
<1>2. UNCHANGED engine /\ recorded' = recorded /\ installed' = installed
  BY DEF ReplaceInspect, Fail, GoOn, store
<1>3. EngineTypeOK' /\ EngineInv' /\ Holding(o)'
  BY <1>1, <1>2, RestEngine, RestHolding DEF Working
<1>4. /\ o.prior \in Volumes /\ container[o.prior] # NoContainer
      /\ Named(Server) = o.prior
  BY <1>1, ReplacementHolds, NamedIs DEF Kept, PriorNamed, Working, EngineInv
<1>5. CASE Fail
  BY <1>3, <1>5, FailLeadsTo DEF Working
<1>6. CASE GoOn("replace-volume", o.prior)
  <2> PICK c : c = call'
    OBVIOUS
  <2>1. AdapterTypeOK' /\ c.at = "replace-volume" /\ c.id = o.prior /\ op' = o
    BY <1>4, <1>6, GoOnLeadsTo DEF Working, Places, ReplaceSteps
  <2>2. Going(o, c)'
    BY <1>1, <1>2, <2>1 DEF Going, PriorNamed, BackupSteps, engine
  <2> QED
    BY <1>1, <1>3, <2>1, <2>2, ReplaceGoesOn DEF Working, ReplaceSteps
<1> QED
  BY <1>4, <1>5, <1>6 DEF ReplaceInspect

LEMMA ReplaceVolumeStep == Working /\ ReplaceVolume => Working'
<1> SUFFICES ASSUME Working, ReplaceVolume
             PROVE  Working'
  OBVIOUS
<1> PICK o \in Operations : o = op
  BY Caller DEF ReplaceVolume
<1>1. /\ Holding(o) /\ o.phase = "staged" /\ Replaces(o.kind)
      /\ PriorNamed(o, Server) /\ call.id = o.prior
  BY ReplaceFinds DEF ReplaceVolume, ReplaceSteps, Going
<1>2. \/ Fail /\ UNCHANGED engine
      \/ (Fail \/ Go("replace-stop")) /\ CreateVolume(o.safety)
  BY DEF ReplaceVolume, Request
<1>3. recorded' = recorded /\ installed' = installed
  BY <1>2 DEF Fail, Go, store
<1>4. Kept(o) /\ o.safety \in Volumes /\ o.prior \in Volumes /\ container[o.safety] = NoContainer
  BY <1>1, ReplacementHolds DEF Kept, PriorNamed
<1>5. CASE Fail /\ UNCHANGED engine
  BY <1>1, <1>3, <1>5, RestEngine, RestHolding, FailLeadsTo DEF Working
<1>6. CASE CreateVolume(o.safety)
  <2>1. container' = container
    BY <1>6 DEF CreateVolume
  <2>2. /\ EngineTypeOK' /\ EngineInv' /\ volume'[o.safety] = "owned"
        /\ \A w \in Volumes \ {o.safety} : content'[w] = content[w]
    BY <1>3, <1>4, <1>6, CreateVolumeEngine DEF Working
  <2>3. Kept(o)'
    BY <1>4, <2>1, <2>2 DEF Kept
  <2>4. Holding(o)'
    BY <1>1, <1>3, <2>3, KeptHolding
  <2>5. CASE Fail
    BY <2>2, <2>4, <2>5, FailLeadsTo DEF Working
  <2>6. CASE Go("replace-stop")
    <3> PICK c : c = call'
      OBVIOUS
    <3>1. AdapterTypeOK' /\ c.at = "replace-stop" /\ c.id = o.prior /\ op' = o
      BY <1>1, <2>6, GoLeadsTo DEF Working, Places, ReplaceSteps
    <3>2. Going(o, c)'
      BY <1>1, <2>1, <2>2, <3>1 DEF Going, PriorNamed, BackupSteps
    <3> QED
      BY <1>1, <2>2, <2>4, <3>1, <3>2, ReplaceGoesOn DEF Working, ReplaceSteps
  <2> QED
    BY <1>2, <1>5, <2>5, <2>6
<1> QED
  BY <1>2, <1>5, <1>6

LEMMA ReplaceStopStep == Working /\ ReplaceStop => Working'
<1> SUFFICES ASSUME Working, ReplaceStop
             PROVE  Working'
  OBVIOUS
<1> PICK o \in Operations : o = op
  BY Caller DEF ReplaceStop
<1>1. /\ Holding(o) /\ o.phase = "staged" /\ Replaces(o.kind)
      /\ PriorNamed(o, Server) /\ call.id = o.prior /\ volume[o.safety] = "owned"
  BY ReplaceFinds DEF ReplaceStop, ReplaceSteps, Going
<1>2. \/ Fail /\ UNCHANGED engine
      \/ (Fail \/ Go("replace-rename")) /\ Stop(o.prior)
  BY <1>1 DEF ReplaceStop, Request
<1>3. recorded' = recorded /\ installed' = installed
  BY <1>2 DEF Fail, Go, store
<1>4. Kept(o) /\ o.safety \in Volumes /\ o.prior \in Volumes /\ o.prior \in Everything
  BY <1>1, ReplacementHolds
<1>5. CASE Fail /\ UNCHANGED engine
  BY <1>1, <1>3, <1>5, RestEngine, RestHolding, FailLeadsTo DEF Working
<1>6. CASE Stop(o.prior)
  <2>1. /\ EngineTypeOK' /\ EngineInv' /\ container'[o.prior] # NoContainer
        /\ container'[o.prior].name = container[o.prior].name
        /\ container'[o.prior].version = container[o.prior].version
        /\ ~container'[o.prior].running
        /\ \A w \in Everything \ {o.prior} : container'[w] = container[w]
        /\ volume' = volume /\ content' = content
    BY <1>3, <1>4, <1>6, StopEngine DEF Working, Kept
  <2>2. Kept(o)'
    BY <1>4, <2>1, Identities DEF Kept, Everything
  <2>3. Holding(o)'
    BY <1>1, <1>3, <2>2, KeptHolding
  <2>4. CASE Fail
    BY <2>1, <2>3, <2>4, FailLeadsTo DEF Working
  <2>5. CASE Go("replace-rename")
    <3> PICK c : c = call'
      OBVIOUS
    <3>1. AdapterTypeOK' /\ c.at = "replace-rename" /\ c.id = o.prior /\ op' = o
      BY <1>1, <2>5, GoLeadsTo DEF Working, Places, ReplaceSteps
    <3>2. Going(o, c)'
      BY <1>1, <2>1, <3>1 DEF Going, PriorNamed, BackupSteps
    <3> QED
      BY <1>1, <2>1, <2>3, <3>1, <3>2, ReplaceGoesOn DEF Working, ReplaceSteps
  <2> QED
    BY <1>2, <1>5, <2>4, <2>5
<1> QED
  BY <1>2, <1>5, <1>6

LEMMA ReplaceRenameStep == Working /\ ReplaceRename => Working'
<1> SUFFICES ASSUME Working, ReplaceRename
             PROVE  Working'
  OBVIOUS
<1> PICK o \in Operations : o = op
  BY Caller DEF ReplaceRename
<1>1. /\ Holding(o) /\ o.phase = "staged" /\ Replaces(o.kind)
      /\ PriorNamed(o, Server) /\ call.id = o.prior /\ volume[o.safety] = "owned"
      /\ ~container[o.prior].running
  BY ReplaceFinds DEF ReplaceRename, ReplaceSteps, Going
<1>2. \/ Fail /\ UNCHANGED engine
      \/ /\ Fail \/ Go("replace-create")
         /\ Named(o.safety) = NoVolume /\ Rename(o.prior, o.safety)
  BY <1>1 DEF ReplaceRename, Request
<1>3. recorded' = recorded /\ installed' = installed
  BY <1>2 DEF Fail, Go, store
<1>4. /\ Kept(o) /\ o.safety \in Volumes /\ o.prior \in Volumes /\ o.prior \in Everything
      /\ o.safety \in BackupIds /\ o.safety \in recorded /\ container[o.safety] = NoContainer
  BY <1>1, ReplacementHolds DEF Kept, PriorNamed
<1>5. CASE Fail /\ UNCHANGED engine
  BY <1>1, <1>3, <1>5, RestEngine, RestHolding, FailLeadsTo DEF Working
<1>6. CASE Named(o.safety) = NoVolume /\ Rename(o.prior, o.safety)
  <2>1. /\ EngineTypeOK' /\ EngineInv' /\ container'[o.prior] # NoContainer
        /\ container'[o.prior].name = o.safety
        /\ container'[o.prior].version = container[o.prior].version
        /\ \A w \in Everything \ {o.prior} : container'[w] = container[w]
        /\ volume' = volume /\ content' = content
    BY <1>1, <1>3, <1>4, <1>6, RenameEngine DEF Working, Kept
  <2>2. Kept(o)'
    BY <1>4, <2>1, Identities DEF Kept, Everything
  <2>3. Holding(o)'
    BY <1>1, <1>3, <2>2, KeptHolding
  <2>4. CASE Fail
    BY <2>1, <2>3, <2>4, FailLeadsTo DEF Working
  <2>5. CASE Go("replace-create")
    <3> PICK c : c = call'
      OBVIOUS
    <3>1. AdapterTypeOK' /\ c.at = "replace-create" /\ op' = o
      BY <2>5, GoLeadsTo DEF Working, Places, ReplaceSteps
    <3>2. Going(o, c)'
      BY <1>1, <2>1, <3>1 DEF Going, PriorNamed, BackupSteps
    <3> QED
      BY <1>1, <2>1, <2>3, <3>1, <3>2, ReplaceGoesOn DEF Working, ReplaceSteps
  <2> QED
    BY <1>2, <1>5, <2>4, <2>5
<1> QED
  BY <1>2, <1>5, <1>6

LEMMA ReplaceCreateStep == Working /\ ReplaceCreate => Working'
<1> SUFFICES ASSUME Working, ReplaceCreate
             PROVE  Working'
  OBVIOUS
<1> PICK o \in Operations : o = op
  BY Caller DEF ReplaceCreate
<1>1. /\ Holding(o) /\ o.phase = "staged" /\ Replaces(o.kind)
      /\ PriorNamed(o, o.safety) /\ volume[o.safety] = "owned"
  BY ReplaceFinds DEF ReplaceCreate, ReplaceSteps, Going
<1>2. \/ Fail /\ UNCHANGED engine
      \/ /\ Fail \/ Go("replace-fill")
         /\ Named(Server) = NoVolume /\ CreateContainer(o.safety, o.to)
  BY DEF ReplaceCreate, Request
<1>3. recorded' = recorded /\ installed' = installed
  BY <1>2 DEF Fail, Go, store
<1>4. /\ Kept(o) /\ o.safety \in Volumes /\ o.prior \in Volumes /\ o.prior \in Everything
      /\ o.safety \in BackupIds /\ o.safety \in recorded
  BY <1>1, ReplacementHolds
<1>5. CASE Fail /\ UNCHANGED engine
  BY <1>1, <1>3, <1>5, RestEngine, RestHolding, FailLeadsTo DEF Working
<1>6. CASE Named(Server) = NoVolume /\ CreateContainer(o.safety, o.to)
  <2>1. /\ EngineTypeOK' /\ EngineInv' /\ container'[o.safety] # NoContainer
        /\ container'[o.safety].name = Server /\ container'[o.safety].version = o.to
        /\ ~container'[o.safety].running
        /\ \A w \in Everything \ {o.safety} : container'[w] = container[w]
        /\ volume' = volume /\ content' = content
    BY <1>1, <1>3, <1>4, <1>6, CreateEngine, OperationTypes DEF Working
  <2>2. Kept(o)' /\ PriorNamed(o, o.safety)'
    <3>1. o.prior \in Everything \ {o.safety} /\ Foreign \in Everything \ {o.safety}
      BY <1>4, Identities DEF Kept, Everything
    <3>2. container'[o.prior] = container[o.prior] /\ container'[Foreign] = container[Foreign]
      BY <2>1, <3>1
    <3> QED
      BY <1>1, <1>4, <2>1, <3>2 DEF Kept, Everything, PriorNamed
  <2>3. Holding(o)'
    BY <1>1, <1>3, <2>2, KeptHolding
  <2>4. CASE Fail
    BY <2>1, <2>3, <2>4, FailLeadsTo DEF Working
  <2>5. CASE Go("replace-fill")
    <3> PICK c : c = call'
      OBVIOUS
    <3>1. AdapterTypeOK' /\ c.at = "replace-fill" /\ op' = o
      BY <2>5, GoLeadsTo DEF Working, Places, ReplaceSteps
    <3>2. Going(o, c)'
      BY <1>1, <2>1, <2>2, <3>1 DEF Going, BackupSteps
    <3> QED
      BY <1>1, <2>1, <2>3, <3>1, <3>2, ReplaceGoesOn DEF Working, ReplaceSteps
  <2> QED
    BY <1>2, <1>5, <2>4, <2>5
<1> QED
  BY <1>2, <1>5, <1>6

LEMMA ReplaceFillStep == Working /\ ReplaceFill => Working'
<1> SUFFICES ASSUME Working, ReplaceFill
             PROVE  Working'
  OBVIOUS
<1> PICK o \in Operations : o = op
  BY Caller DEF ReplaceFill
<1>0. PICK y : y = archive[Source(o)].content
  OBVIOUS
<1>1. /\ Holding(o) /\ o.phase = "staged" /\ Replaces(o.kind)
      /\ PriorNamed(o, o.safety) /\ volume[o.safety] = "owned"
      /\ container[o.safety] # NoContainer /\ ~container[o.safety].running
  BY ReplaceFinds DEF ReplaceFill, ReplaceSteps, Going
<1>2. \/ Fail /\ UNCHANGED engine
      \/ /\ Fail \/ Go("replace-start")
         /\ content' = [content EXCEPT ![o.safety] = y]
         /\ UNCHANGED <<container, volume>>
  BY <1>0 DEF ReplaceFill, Request
<1>3. recorded' = recorded /\ installed' = installed /\ archive' = archive
  BY <1>2 DEF Fail, Go, store
<1>4. /\ Kept(o) /\ o.safety \in Volumes /\ o.prior \in Volumes /\ Source(o) \in BackupIds
  BY <1>1, ReplacementHolds
<1>5. y \in Contents
  BY <1>0, <1>4 DEF Working, AdapterTypeOK, Archives, NoArchive, Contents
<1>6. CASE Fail /\ UNCHANGED engine
  BY <1>1, <1>3, <1>6, RestEngine, RestHolding, FailLeadsTo DEF Working
<1>7. CASE /\ content' = [content EXCEPT ![o.safety] = y]
           /\ UNCHANGED <<container, volume>>
  <2>1. container' = container /\ volume' = volume
    BY <1>7
  <2>2. /\ EngineTypeOK' /\ EngineInv' /\ content'[o.safety] = y
        /\ \A w \in Volumes \ {o.safety} : content'[w] = content[w]
    <3>1. EngineTypeOK /\ EngineInv
      BY DEF Working
    <3>2. PICK v \in Volumes : v = o.safety
      BY <1>4
    <3>3. /\ ~container[v].running /\ volume[v] = "owned"
          /\ content' = [content EXCEPT ![v] = y]
      BY <1>1, <1>7, <3>2
    <3>4. /\ EngineTypeOK' /\ EngineInv' /\ content'[v] = y
          /\ \A w \in Volumes \ {v} : content'[w] = content[w]
      BY <1>3, <1>5, <2>1, <3>1, <3>3, FillEngine
    <3> QED
      BY <3>2, <3>4
  <2>3. Kept(o)'
    BY <1>4, <1>7, <2>2 DEF Kept
  <2>4. Holding(o)'
    BY <1>1, <1>3, <2>3, KeptHolding
  <2>5. CASE Fail
    BY <2>2, <2>4, <2>5, FailLeadsTo DEF Working
  <2>6. CASE Go("replace-start")
    <3> PICK c : c = call'
      OBVIOUS
    <3>1. AdapterTypeOK' /\ c.at = "replace-start" /\ op' = o
      BY <2>6, GoLeadsTo DEF Working, Places, ReplaceSteps
    <3>2. content'[o.safety] = archive'[Source(o)].content
      BY <1>0, <1>3, <2>2
    <3>3. Going(o, c)'
      BY <1>1, <1>7, <3>1, <3>2 DEF Going, PriorNamed, BackupSteps
    <3> QED
      BY <1>1, <2>2, <2>4, <3>1, <3>3, ReplaceGoesOn DEF Working, ReplaceSteps
  <2> QED
    BY <1>2, <1>6, <2>5, <2>6
<1> QED
  BY <1>2, <1>6, <1>7

LEMMA ReplaceStartStep == Working /\ ReplaceStart => Working'
<1> SUFFICES ASSUME Working, ReplaceStart
             PROVE  Working'
  OBVIOUS
<1> PICK o \in Operations : o = op
  BY Caller DEF ReplaceStart
<1>1. /\ Holding(o) /\ o.phase = "staged" /\ Replaces(o.kind)
      /\ PriorNamed(o, o.safety) /\ container[o.safety] # NoContainer
  BY ReplaceFinds DEF ReplaceStart, ReplaceSteps, Going
<1>2. \/ Fail /\ UNCHANGED engine
      \/ (Fail \/ Succeed) /\ Start(o.safety)
  BY DEF ReplaceStart, Request
<1>3. recorded' = recorded /\ installed' = installed
  BY <1>1, <1>2 DEF Fail, Succeed, store
<1>4. Kept(o) /\ o.safety \in Volumes /\ o.prior \in Volumes /\ o.prior \in Everything
  BY <1>1, ReplacementHolds
<1>5. CASE Fail /\ UNCHANGED engine
  BY <1>1, <1>3, <1>5, RestEngine, RestHolding, FailLeadsTo DEF Working
<1>6. CASE Start(o.safety)
  <2>1. /\ EngineTypeOK' /\ EngineInv' /\ container'[o.safety] # NoContainer
        /\ container'[o.safety].name = Server
        /\ container'[o.safety].version = container[o.safety].version
        /\ \A w \in Everything \ {o.safety} : container'[w] = container[w]
        /\ content'[o.safety] # Empty
        /\ \A w \in Volumes \ {o.safety} : content'[w] = content[w]
    BY <1>1, <1>3, <1>4, <1>6, StartEngine DEF Working, Kept
  <2>2. Kept(o)'
    BY <1>1, <1>4, <2>1, Identities DEF Kept, Everything, PriorNamed
  <2>3. Holding(o)'
    BY <1>1, <1>3, <2>2, KeptHolding
  <2>4. CASE Fail
    BY <2>1, <2>3, <2>4, FailLeadsTo DEF Working
  <2>5. CASE Succeed
    <3>1. Delivered(o)'
      BY <1>1, <1>4, <2>1 DEF Delivered, Serves, Kept, Replaces
    <3> QED
      BY <1>1, <2>1, <2>3, <2>5, <3>1, ApplySucceeds DEF Working
  <2> QED
    BY <1>2, <1>5, <2>4, <2>5
<1> QED
  BY <1>2, <1>5, <1>6

LEMMA ReplaceKeeps == Working /\ ReplaceStep => Working'
  BY ReplaceInspectStep, ReplaceVolumeStep, ReplaceStopStep, ReplaceRenameStep,
     ReplaceCreateStep, ReplaceFillStep, ReplaceStartStep
  DEF ReplaceStep
-----------------------------------------------------------------------------
(* Recover of a replacement.                                               *)

\* What the inspection of a recovery finds by name.
LEMMA PriorFound ==
    ASSUME EngineTypeOK, EngineInv, NEW o \in Operations, Kept(o),
           o.prior \in Volumes, o.safety \in BackupIds
    PROVE  /\ PriorNamed(o, o.safety) => Named(o.safety) = o.prior
           /\ PriorNamed(o, Server) => /\ Named(o.safety) = NoVolume
                                       /\ Named(Server) = o.prior
                                       /\ container[o.safety] = NoContainer
           /\ PriorNamed(o, o.safety) \/ PriorNamed(o, Server)
           /\ PriorNamed(o, o.safety) =>
                 IF container[o.safety] = NoContainer THEN Named(Server) = NoVolume
                                                      ELSE Named(Server) = o.safety
<1>1. /\ o.prior \in Everything /\ o.safety \in Everything /\ o.safety # Server
      /\ o.prior # NoVolume /\ o.safety # NoVolume
      /\ \A v \in Everything \ {o.prior, o.safety} : container[v] # NoContainer =>
            container[v].name \notin {Server, o.safety}
  BY Identities DEF Everything, Kept
<1>2. UniqueNames
  BY DEF EngineInv
<1>3. ASSUME PriorNamed(o, o.safety) PROVE Named(o.safety) = o.prior
  BY <1>1, <1>2, <1>3, NamedIs DEF Kept, PriorNamed
<1>4. ASSUME PriorNamed(o, Server)
      PROVE  /\ Named(o.safety) = NoVolume /\ Named(Server) = o.prior
             /\ container[o.safety] = NoContainer
  <2>1. container[o.safety] = NoContainer
    BY <1>1, <1>4 DEF Kept, PriorNamed
  <2>2. Named(Server) = o.prior
    BY <1>1, <1>2, <1>4, NamedIs DEF Kept, PriorNamed
  <2>3. \A v \in Everything : container[v] # NoContainer => container[v].name # o.safety
    BY <1>1, <1>4, <2>1 DEF PriorNamed
  <2>4. Named(o.safety) = NoVolume
    BY <2>3, NamedNone
  <2> QED
    BY <2>1, <2>2, <2>4
<1>5. ASSUME PriorNamed(o, o.safety), container[o.safety] = NoContainer
      PROVE  Named(Server) = NoVolume
  <2>1. \A v \in Everything : container[v] # NoContainer => container[v].name # Server
    BY <1>1, <1>5 DEF PriorNamed
  <2> QED
    BY <2>1, NamedNone
<1>6. ASSUME container[o.safety] # NoContainer PROVE Named(Server) = o.safety
  BY <1>1, <1>2, <1>6, NamedIs DEF Kept
<1>7. PriorNamed(o, o.safety) \/ PriorNamed(o, Server)
  BY DEF Kept, PriorNamed
<1> QED
  BY <1>3, <1>4, <1>5, <1>6, <1>7

\* The checks of recoverReplacement accept whatever a replacement has left.
LEMMA KeptIsAccepted ==
    ASSUME EngineTypeOK, EngineInv, op \in Operations, Kept(op),
           op.prior \in Volumes, op.safety \in BackupIds
    PROVE  RevertAllowed
<1> PICK o \in Operations : o = op
  OBVIOUS
<1>1. /\ Kept(o) /\ o.prior \in Volumes /\ o.safety \in BackupIds /\ o.safety \in Volumes
      /\ o.prior # NoVolume /\ o.safety # NoVolume
      /\ container[o.prior] # NoContainer /\ container[o.prior].version = o.from
  BY Identities DEF Kept, Everything
<1>2. CASE PriorNamed(o, Server)
  <2>1. Named(o.safety) = NoVolume /\ Named(Server) = o.prior
    BY <1>1, <1>2, PriorFound
  <2> QED
    BY <1>1, <2>1 DEF RevertAllowed, ActiveIsPrior, OwnedContainer, Exists
<1>3. CASE PriorNamed(o, o.safety)
  <2>1. Named(o.safety) = o.prior
    BY <1>1, <1>3, PriorFound
  <2>2. /\ OwnedContainer(o.prior)
        /\ container[o.safety] # NoContainer =>
              OwnedContainer(o.safety) /\ container[o.safety].version = o.to
    BY <1>1 DEF Kept, OwnedContainer, Exists
  <2>3. CASE container[o.safety] = NoContainer
    <3>1. Named(Server) = NoVolume
      BY <1>1, <1>3, <2>3, PriorFound
    <3> QED
      BY <1>1, <2>1, <2>2, <3>1 DEF RevertAllowed, PreservedIsPrior
  <2>4. CASE container[o.safety] # NoContainer
    <3>1. Named(Server) = o.safety
      BY <1>1, <1>3, <2>4, PriorFound
    <3> QED
      BY <1>1, <2>1, <2>2, <2>4, <3>1 DEF RevertAllowed, PreservedIsPrior
  <2> QED
    BY <2>3, <2>4
<1> QED
  BY <1>1, <1>2, <1>3, PriorFound

LEMMA RevertFinds ==
    ASSUME Working, call.at \in RevertSteps
    PROVE  /\ op \in Operations /\ Holding(op) /\ Reverting(op, call)
           /\ op.phase = "recovering" /\ Replaces(op.kind)
<1>1. call.at # "none"
  BY DEF RevertSteps
<1> QED
  BY <1>1, Caller, StepsTell DEF Holding

LEMMA RevertGoesOn ==
    ASSUME NEW o \in Operations, o.phase = "recovering", Replaces(o.kind), op' = o, Holding(o)',
           NEW c, call' = c, c.at \in RevertSteps, Reverting(o, c)'
    PROVE  OperationInv' /\ CallInv'
<1>1. Going(o, c)'
  BY DEF Going, BackupSteps, ReplaceSteps, RevertSteps
<1> QED
  BY <1>1, StepsOf, GoesOn

LEMMA RevertInspectStep == Working /\ RevertInspect => Working'
<1> SUFFICES ASSUME Working, RevertInspect
             PROVE  Working'
  OBVIOUS
<1> PICK o \in Operations : o = op
  BY Caller DEF RevertInspect
<1>1. Holding(o) /\ o.phase = "recovering" /\ Replaces(o.kind)
  BY RevertFinds DEF RevertInspect, RevertSteps
<1>2. UNCHANGED engine /\ recorded' = recorded /\ installed' = installed /\ archive' = archive
  BY DEF RevertInspect, Fail, store
<1>3. EngineTypeOK' /\ EngineInv' /\ Holding(o)'
  BY <1>1, <1>2, RestEngine, RestHolding DEF Working
<1>4. /\ Kept(o) /\ o.prior \in Volumes /\ o.safety \in BackupIds /\ o.prior # NoVolume
      /\ container[o.prior] # NoContainer /\ container[o.prior].running \in BOOLEAN
      /\ EngineTypeOK /\ EngineInv
  BY <1>1, ReplacementHolds, EngineShape, Identities DEF Working, Kept
<1>5. CASE Fail
  BY <1>3, <1>5, FailLeadsTo DEF Working
<1>6. CASE ~Fail
  <2> PICK c : c = call'
    OBVIOUS
  <2> PICK both \in BOOLEAN : both <=> Named(o.safety) # NoVolume /\ Named(Server) # NoVolume
    OBVIOUS
  <2>1. /\ op' = o
        /\ LET id == IF Named(o.safety) = NoVolume THEN Named(Server) ELSE Named(o.safety)
           IN  c = [at |-> IF both THEN "revert-container" ELSE "revert-volume",
                    id |-> id, running |-> container[id].running,
                    found |-> Named(o.safety) # NoVolume]
    BY <1>6 DEF RevertInspect
  <2>2. /\ c.at = (IF both THEN "revert-container" ELSE "revert-volume")
        /\ c.id = o.prior /\ c.running = container[o.prior].running
        /\ c.found <=> PriorNamed(o, o.safety)
        /\ c \in Calls
        /\ both => PriorNamed(o, o.safety)
        /\ ~both => container[o.safety] = NoContainer
    <3>1. CASE PriorNamed(o, Server)
      <4>1. /\ Named(o.safety) = NoVolume /\ Named(Server) = o.prior
            /\ container[o.safety] = NoContainer
        BY <1>4, <3>1, PriorFound
      <4>2. ~PriorNamed(o, o.safety)
        BY <1>4, <3>1, Identities DEF PriorNamed
      <4>3. c = [at |-> "revert-volume", id |-> o.prior,
                 running |-> container[o.prior].running, found |-> FALSE]
        BY <2>1, <4>1
      <4> QED
        BY <1>4, <4>1, <4>2, <4>3 DEF Calls, RevertSteps
    <3>2. CASE PriorNamed(o, o.safety)
      <4>1. Named(o.safety) = o.prior
        BY <1>4, <3>2, PriorFound
      <4>2. ~both => container[o.safety] = NoContainer
        BY <1>4, <3>2, <4>1, PriorFound, Identities DEF Everything
      <4>3. c = [at |-> IF both THEN "revert-container" ELSE "revert-volume", id |-> o.prior,
                 running |-> container[o.prior].running, found |-> TRUE]
        BY <1>4, <2>1, <4>1
      <4> QED
        BY <1>4, <3>2, <4>2, <4>3 DEF Calls, RevertSteps
    <3> QED
      BY <1>4, <3>1, <3>2, PriorFound
  <2>3. AdapterTypeOK'
    BY <1>2, <2>1, <2>2 DEF Working, AdapterTypeOK
  <2>4. PriorNamed(o, Server) \/ PriorNamed(o, o.safety)
    BY <1>4, PriorFound
  <2>5. Reverting(o, c)'
    BY <1>2, <2>2, <2>4 DEF Reverting, RevertSteps, PriorNamed, engine
  <2> QED
    BY <1>1, <1>3, <2>1, <2>2, <2>3, <2>5, RevertGoesOn DEF Working, RevertSteps
<1> QED
  BY <1>5, <1>6

LEMMA RevertContainerStep == Working /\ RevertContainer => Working'
<1> SUFFICES ASSUME Working, RevertContainer
             PROVE  Working'
  OBVIOUS
<1> PICK o \in Operations : o = op
  BY Caller DEF RevertContainer
<1>1. /\ Holding(o) /\ o.phase = "recovering" /\ Replaces(o.kind)
      /\ call.id = o.prior /\ (call.running => container[o.prior].running)
      /\ call.found /\ PriorNamed(o, o.safety)
  BY RevertFinds DEF RevertContainer, RevertSteps, Reverting
<1>2. \/ Fail /\ UNCHANGED engine
      \/ (Fail \/ Go("revert-volume")) /\ RemoveContainer(o.safety)
  BY DEF RevertContainer, Request
<1>3. recorded' = recorded /\ installed' = installed
  BY <1>2 DEF Fail, Go, store
<1>4. Kept(o) /\ o.safety \in Volumes /\ o.prior \in Volumes /\ o.prior \in Everything
  BY <1>1, ReplacementHolds
<1>5. CASE Fail /\ UNCHANGED engine
  BY <1>1, <1>3, <1>5, RestEngine, RestHolding, FailLeadsTo DEF Working
<1>6. CASE RemoveContainer(o.safety)
  <2>1. /\ EngineTypeOK' /\ EngineInv' /\ container'[o.safety] = NoContainer
        /\ \A w \in Everything \ {o.safety} : container'[w] = container[w]
        /\ content' = content
    BY <1>3, <1>4, <1>6, RemoveEngine DEF Working
  <2>2. container'[o.prior] = container[o.prior] /\ container'[Foreign] = container[Foreign]
    BY <1>4, <2>1, Identities DEF Kept, Everything
  <2>3. Kept(o)'
    BY <1>4, <2>1, <2>2 DEF Kept, Everything
  <2>4. Holding(o)'
    BY <1>1, <1>3, <2>3, KeptHolding
  <2>5. CASE Fail
    BY <2>1, <2>4, <2>5, FailLeadsTo DEF Working
  <2>6. CASE Go("revert-volume")
    <3> PICK c : c = call'
      OBVIOUS
    <3>1. /\ AdapterTypeOK' /\ c.at = "revert-volume" /\ c.id = o.prior /\ op' = o
          /\ c.running = call.running /\ c.found
      BY <1>1, <2>6, GoLeadsTo DEF Working, Places, RevertSteps
    <3>2. Reverting(o, c)'
      BY <1>1, <2>1, <2>2, <3>1 DEF Reverting, PriorNamed
    <3> QED
      BY <1>1, <2>1, <2>4, <3>1, <3>2, RevertGoesOn DEF Working, RevertSteps
  <2> QED
    BY <1>2, <1>5, <2>5, <2>6
<1> QED
  BY <1>2, <1>5, <1>6

LEMMA RevertVolumeStep == Working /\ RevertVolume => Working'
<1> SUFFICES ASSUME Working, RevertVolume
             PROVE  Working'
  OBVIOUS
<1> PICK o \in Operations : o = op
  BY Caller DEF RevertVolume
<1> DEFINE next == IF call.found THEN "revert-rename" ELSE "revert-start"
<1>1. /\ Holding(o) /\ o.phase = "recovering" /\ Replaces(o.kind)
      /\ call.id = o.prior /\ (call.running => container[o.prior].running)
      /\ container[o.safety] = NoContainer
      /\ PriorNamed(o, IF call.found THEN o.safety ELSE Server)
  BY RevertFinds DEF RevertVolume, RevertSteps, Reverting
<1>2. \/ Fail /\ UNCHANGED engine
      \/ Go(next) /\ UNCHANGED engine /\ volume[o.safety] = "absent"
      \/ (Fail \/ Go(next)) /\ RemoveVolume(o.safety)
  BY DEF RevertVolume, Request
<1>3. recorded' = recorded /\ installed' = installed
  BY <1>2 DEF Fail, Go, store
<1>4. Kept(o) /\ o.safety \in Volumes /\ o.prior \in Volumes
  BY <1>1, ReplacementHolds
<1>5. CASE Fail /\ UNCHANGED engine
  BY <1>1, <1>3, <1>5, RestEngine, RestHolding, FailLeadsTo DEF Working
<1>6. CASE \/ Go(next) /\ UNCHANGED engine /\ volume[o.safety] = "absent"
           \/ (Fail \/ Go(next)) /\ RemoveVolume(o.safety)
  <2>1. /\ EngineTypeOK' /\ EngineInv' /\ container' = container
        /\ volume'[o.safety] = "absent" /\ Kept(o)'
    <3>1. CASE UNCHANGED engine /\ volume[o.safety] = "absent"
      BY <1>3, <1>4, <3>1, RestEngine DEF Working, Kept, engine
    <3>2. CASE RemoveVolume(o.safety)
      <4>1. container' = container
        BY <3>2 DEF RemoveVolume
      <4>2. /\ EngineTypeOK' /\ EngineInv' /\ volume'[o.safety] = "absent"
            /\ \A w \in Volumes \ {o.safety} : content'[w] = content[w]
        <5>1. EngineTypeOK /\ EngineInv /\ container[o.safety] = NoContainer
          BY <1>1 DEF Working
        <5>2. o.safety \in Volumes /\ recorded' = recorded
          BY <1>3, <1>4
        <5> HIDE DEF next
        <5> QED
          BY <3>2, <5>1, <5>2, RemoveVolumeEngine
      <4>3. Kept(o)'
        BY <1>4, <4>1, <4>2 DEF Kept
      <4> QED
        BY <4>1, <4>2, <4>3
    <3> QED
      BY <1>6, <3>1, <3>2
  <2>2. Holding(o)'
    BY <1>1, <1>3, <2>1, KeptHolding
  <2>3. CASE Fail
    BY <2>1, <2>2, <2>3, FailLeadsTo DEF Working
  <2>4. CASE Go(next)
    <3> PICK c : c = call'
      OBVIOUS
    <3>1. /\ AdapterTypeOK' /\ c.at = next /\ c.id = o.prior /\ op' = o
          /\ c.running = call.running
      BY <1>1, <2>4, GoLeadsTo DEF Working, Places, RevertSteps
    <3>2. Reverting(o, c)'
      BY <1>1, <2>1, <3>1 DEF Reverting, PriorNamed
    <3> QED
      BY <1>1, <2>1, <2>2, <3>1, <3>2, RevertGoesOn DEF Working, RevertSteps
  <2> QED
    BY <1>6, <2>3, <2>4
<1> QED
  BY <1>2, <1>5, <1>6

LEMMA RevertRenameStep == Working /\ RevertRename => Working'
<1> SUFFICES ASSUME Working, RevertRename
             PROVE  Working'
  OBVIOUS
<1> PICK o \in Operations : o = op
  BY Caller DEF RevertRename
<1>1. /\ Holding(o) /\ o.phase = "recovering" /\ Replaces(o.kind)
      /\ call.id = o.prior /\ (call.running => container[o.prior].running)
      /\ container[o.safety] = NoContainer /\ volume[o.safety] = "absent"
      /\ PriorNamed(o, o.safety)
  BY RevertFinds DEF RevertRename, RevertSteps, Reverting
<1>2. \/ Fail /\ UNCHANGED engine
      \/ /\ Fail \/ Go("revert-start")
         /\ Named(Server) = NoVolume /\ Rename(o.prior, Server)
  BY <1>1 DEF RevertRename, Request
<1>3. recorded' = recorded /\ installed' = installed
  BY <1>2 DEF Fail, Go, store
<1>4. /\ Kept(o) /\ o.safety \in Volumes /\ o.prior \in Volumes /\ o.prior \in Everything
      /\ o.safety # Server
  BY <1>1, ReplacementHolds
<1>5. ~container[o.prior].running /\ ~call.running
  BY <1>1, <1>4 DEF Working, EngineInv, Sound, Kept, PriorNamed
<1>6. CASE Fail /\ UNCHANGED engine
  BY <1>1, <1>3, <1>6, RestEngine, RestHolding, FailLeadsTo DEF Working
<1>7. CASE Named(Server) = NoVolume /\ Rename(o.prior, Server)
  <2>1. /\ EngineTypeOK' /\ EngineInv' /\ container'[o.prior] # NoContainer
        /\ container'[o.prior].name = Server
        /\ container'[o.prior].version = container[o.prior].version
        /\ \A w \in Everything \ {o.prior} : container'[w] = container[w]
        /\ volume' = volume /\ content' = content
    <3>1. Server \in {Server} \cup BackupIds /\ (Server \in BackupIds => Server \in recorded)
      BY Identities
    <3>2. container[o.prior] # NoContainer /\ EngineTypeOK /\ EngineInv
      BY <1>4 DEF Kept, Working
    <3> QED
      BY <1>3, <1>4, <1>5, <1>7, <3>1, <3>2, RenameEngine
  <2>2. /\ container'[o.safety] = NoContainer /\ container'[Foreign] = container[Foreign]
        /\ PriorNamed(o, Server)'
    BY <1>1, <1>4, <2>1, Identities DEF Kept, Everything, PriorNamed
  <2>3. Kept(o)'
    BY <1>4, <2>1, <2>2 DEF Kept, Everything
  <2>4. Holding(o)'
    BY <1>1, <1>3, <2>3, KeptHolding
  <2>5. CASE Fail
    BY <2>1, <2>4, <2>5, FailLeadsTo DEF Working
  <2>6. CASE Go("revert-start")
    <3> PICK c : c = call'
      OBVIOUS
    <3>1. /\ AdapterTypeOK' /\ c.at = "revert-start" /\ c.id = o.prior /\ op' = o
          /\ c.running = call.running
      BY <1>1, <2>6, GoLeadsTo DEF Working, Places, RevertSteps
    <3>2. Reverting(o, c)'
      BY <1>1, <1>5, <2>1, <2>2, <3>1 DEF Reverting
    <3> QED
      BY <1>1, <2>1, <2>4, <3>1, <3>2, RevertGoesOn DEF Working, RevertSteps
  <2> QED
    BY <1>2, <1>6, <2>5, <2>6
<1> QED
  BY <1>2, <1>6, <1>7

LEMMA RevertStartStep == Working /\ RevertStart => Working'
<1> SUFFICES ASSUME Working, RevertStart
             PROVE  Working'
  OBVIOUS
<1> PICK o \in Operations : o = op
  BY Caller DEF RevertStart
<1>1. /\ Holding(o) /\ o.phase = "recovering" /\ Replaces(o.kind)
      /\ call.id = o.prior /\ (call.running => container[o.prior].running)
      /\ container[o.safety] = NoContainer /\ volume[o.safety] = "absent"
      /\ PriorNamed(o, Server)
  BY RevertFinds DEF RevertStart, RevertSteps, Reverting
<1>2. \/ (Fail \/ (Go("revert-ready") /\ call.running)) /\ UNCHANGED engine
      \/ (Fail \/ Go("revert-ready")) /\ Start(o.prior)
  BY <1>1 DEF RevertStart, Request
<1>3. recorded' = recorded /\ installed' = installed
  BY <1>2 DEF Fail, Go, store
<1>4. Kept(o) /\ o.safety \in Volumes /\ o.prior \in Volumes /\ o.prior \in Everything
  BY <1>1, ReplacementHolds
<1>5. /\ EngineTypeOK' /\ EngineInv' /\ Kept(o)' /\ PriorNamed(o, Server)'
      /\ container'[o.safety] = NoContainer /\ volume'[o.safety] = "absent"
      /\ ~Fail => container'[o.prior].running
  <2>1. CASE UNCHANGED engine /\ (Fail \/ call.running)
    BY <1>1, <1>3, <1>4, <2>1, RestEngine DEF Working, Kept, PriorNamed, engine
  <2>2. CASE Start(o.prior)
    <3>1. /\ EngineTypeOK' /\ EngineInv' /\ container'[o.prior] # NoContainer
          /\ container'[o.prior].name = Server
          /\ container'[o.prior].version = container[o.prior].version
          /\ container'[o.prior].running
          /\ \A w \in Everything \ {o.prior} : container'[w] = container[w]
          /\ volume' = volume /\ content'[o.prior] # Empty
      BY <1>1, <1>3, <1>4, <2>2, StartEngine DEF Working, Kept, PriorNamed
    <3>2. container'[o.safety] = NoContainer /\ container'[Foreign] = container[Foreign]
      BY <1>1, <1>4, <3>1, Identities DEF Kept, Everything
    <3>3. Kept(o)'
      BY <1>4, <3>1, <3>2 DEF Kept, Everything
    <3> QED
      BY <1>1, <3>1, <3>2, <3>3 DEF PriorNamed
  <2> QED
    BY <1>2, <2>1, <2>2
<1>6. Holding(o)'
  BY <1>1, <1>3, <1>5, KeptHolding
<1>7. CASE Fail
  BY <1>5, <1>6, <1>7, FailLeadsTo DEF Working
<1>8. CASE ~Fail /\ Go("revert-ready")
  <2> PICK c : c = call'
    OBVIOUS
  <2>1. AdapterTypeOK' /\ c.at = "revert-ready" /\ c.id = o.prior /\ op' = o
    BY <1>1, <1>8, GoLeadsTo DEF Working, Places, RevertSteps
  <2>2. Reverting(o, c)'
    BY <1>5, <1>8, <2>1 DEF Reverting
  <2> QED
    BY <1>1, <1>5, <1>6, <2>1, <2>2, RevertGoesOn DEF Working, RevertSteps
<1> QED
  BY <1>2, <1>7, <1>8

LEMMA RevertReadyStep == Working /\ RevertReady => Working'
<1> SUFFICES ASSUME Working, RevertReady
             PROVE  Working'
  OBVIOUS
<1> PICK o \in Operations : o = op
  BY Caller DEF RevertReady
<1>1. /\ Holding(o) /\ o.phase = "recovering" /\ Replaces(o.kind) /\ PriorNamed(o, Server)
  BY RevertFinds DEF RevertReady, RevertSteps, Reverting
<1>2. UNCHANGED engine /\ recorded' = recorded
  BY DEF RevertReady, Fail, Succeed, store
<1>3. EngineTypeOK' /\ EngineInv'
  BY <1>2, RestEngine DEF Working
<1>4. CASE Fail
  <2>1. Holding(o)'
    BY <1>1, <1>2, <1>4, RestHolding DEF Fail, store
  <2> QED
    BY <1>3, <1>4, <2>1, FailLeadsTo DEF Working
<1>5. CASE Succeed
  <2>1. Serves(o.prior, o.from)
    BY <1>1, ReplacementHolds DEF Kept, PriorNamed, Serves
  <2>2. Serves(o.prior, o.from)'
    BY <1>2, <2>1 DEF Serves, engine
  <2>3. Undone(o)'
    BY <1>1, <2>2 DEF Undone, Serves
  <2> QED
    BY <1>1, <1>3, <1>5, <2>3, RecoverSucceeds DEF Working
<1> QED
  BY <1>4, <1>5 DEF RevertReady

LEMMA RevertKeeps == Working /\ RevertStep => Working'
  BY RevertInspectStep, RevertContainerStep, RevertVolumeStep, RevertRenameStep,
     RevertStartStep, RevertReadyStep
  DEF RevertStep

LEMMA AdapterKeeps == Working /\ AdapterStep => Working'
  BY StageStep, CommitStep, VerifyStep, BackupKeeps, InstallKeeps, ReplaceKeeps, RemoveKeeps,
     UndoKeeps, RevertKeeps
  DEF AdapterStep

-----------------------------------------------------------------------------
(* What happens beside the adapter.                                        *)

\* Containers and labelled volumes stay, and data is only added to what runs.
LEMMA OutsideKeeps ==
    ASSUME Working, EngineTypeOK', EngineInv', UNCHANGED <<archive, store, op, call>>,
           \A w \in Volumes : container'[w] = container[w],
           container'[Foreign] \in {container[Foreign], NoContainer},
           \A w \in Volumes : volume[w] # "foreign" => volume'[w] = volume[w],
           \A w \in Volumes : content[w] # Empty => content'[w] # Empty,
           \A w \in Volumes : container[w] # NoContainer /\ ~container[w].running
                                 => content'[w] = content[w]
    PROVE  Working'
<1>1. UNCHANGED <<archive, recorded, installed, op, call>> /\ AdapterTypeOK'
  BY DEF store, Working, AdapterTypeOK
<1>2. /\ Settled => Settled'
      /\ \A v : NoServerBut(v) => NoServerBut(v)'
      /\ \A v, x : Serves(v, x) => Serves(v, x)'
      /\ \A b : Unclaimed(b) => Unclaimed(b)'
  BY <1>1 DEF Settled, NoServer, NoServerBut, Serves, Unclaimed
<1>3. CASE op = NoOp
  BY <1>1, <1>2, <1>3 DEF Working, OperationInv, CallInv
<1>4. CASE op # NoOp
  <2> PICK o \in Operations : o = op
    BY <1>4 DEF Working, AdapterTypeOK
  <2> PICK c \in Calls : c = call
    BY DEF Working, AdapterTypeOK
  <2>1. Holding(o) /\ Underway(o, c)
    BY <1>4 DEF Working, OperationInv, CallInv
  <2>2. Replaces(o.kind) => o.prior \in Volumes /\ o.safety \in Volumes
    BY <2>1, Identities DEF Holding, Legal, Replaces, TakesBackup
  <2>3. Kept(o) /\ Replaces(o.kind) => Kept(o)'
    BY <2>2 DEF Kept
  <2>4. Holding(o)'
    BY <1>1, <1>2, <2>1, <2>3 DEF Holding, Legal, Untouched
  <2>5. ASSUME c # Nothing PROVE Going(o, c)' /\ Reverting(o, c)'
    <3>1. c.at \in Steps(o) /\ Going(o, c) /\ Reverting(o, c)
      BY <2>1, <2>5 DEF Underway
    <3>2. /\ c.at \in ReplaceSteps => Replaces(o.kind)
          /\ c.at \in RevertSteps => Replaces(o.kind)
      BY <2>1, <3>1, StepsTell DEF Holding
    <3>3. Going(o, c)'
      BY <1>1, <1>2, <2>2, <3>1, <3>2, Identities
      DEF Going, PriorNamed, NoServer, ReplaceSteps, Source
    <3>4. Reverting(o, c)'
      BY <1>1, <1>2, <2>2, <3>1, <3>2, Identities DEF Reverting, PriorNamed, NoServer, RevertSteps
    <3> QED
      BY <3>3, <3>4
  <2>6. Underway(o, c)'
    BY <2>1, <2>5 DEF Underway
  <2>7. op' = o /\ call' = c
    BY <1>1
  <2>8. OperationInv' /\ CallInv'
    BY <1>4, <2>4, <2>6, <2>7 DEF OperationInv, CallInv
  <2> QED
    BY <1>1, <2>8 DEF Working
<1> QED
  BY <1>3, <1>4

LEMMA ApplicationKeeps ==
    Working /\ ApplicationWrites /\ UNCHANGED <<archive, store, op, call>> => Working'
<1> SUFFICES ASSUME Working, ApplicationWrites, UNCHANGED <<archive, store, op, call>>
             PROVE  Working'
  OBVIOUS
<1> PICK v : v = Named(Server)
  OBVIOUS
<1>1. /\ v \in Volumes /\ container[v] # NoContainer /\ container[v].running
      /\ content[v] < MaxWrites /\ container' = container /\ volume' = volume
      /\ content' = [content EXCEPT ![v] = @ + 1]
  BY DEF ApplicationWrites, OwnedContainer, Exists
<1>2. EngineTypeOK /\ EngineInv
  BY DEF Working
<1>3. content[v] # Empty /\ content[v] \in Contents
  BY <1>1, <1>2, EngineShape DEF EngineInv, Sound
<1>4. content[v] + 1 \in 0..MaxWrites
  BY <1>1, <1>3, BoundsAssumption DEF Contents
<1>5. content'[v] \in Contents /\ content'[v] # Empty
  BY <1>1, <1>2, <1>4, IdentityAssumption DEF Contents, EngineTypeOK
<1>6. \A w \in Volumes : w # v => content'[w] = content[w]
  BY <1>1, <1>2 DEF EngineTypeOK
<1>7. EngineTypeOK'
  BY <1>1, <1>2, <1>5 DEF EngineTypeOK
<1>8. recorded' = recorded
  BY DEF store
<1>9. EngineInv'
  <2>1. UniqueNames'
    BY <1>1, <1>2 DEF EngineInv, UniqueNames
  <2>2. \A w \in Volumes : Sound(w)'
    BY <1>1, <1>2, <1>5, <1>6, <1>8 DEF EngineInv, Sound
  <2> QED
    BY <1>1, <1>2, <2>1, <2>2 DEF EngineInv
<1>10. /\ \A w \in Volumes : content[w] # Empty => content'[w] # Empty
       /\ \A w \in Volumes : container[w] # NoContainer /\ ~container[w].running
                                => content'[w] = content[w]
  BY <1>1, <1>5, <1>6
<1> QED
  BY <1>1, <1>7, <1>9, <1>10, OutsideKeeps

LEMMA StrangersKeep ==
    Working /\ StrangersLeave /\ UNCHANGED <<archive, store, op, call>> => Working'
<1> SUFFICES ASSUME Working, StrangersLeave, UNCHANGED <<archive, store, op, call>>
             PROVE  Working'
  OBVIOUS
<1>1. EngineTypeOK /\ EngineInv /\ content' = content /\ recorded' = recorded
  BY DEF Working, StrangersLeave, store
<1>2. /\ container' \in [Everything -> Containers \cup {NoContainer}]
      /\ container'[Foreign] = NoContainer
      /\ \A w \in Volumes : container'[w] = container[w]
  BY <1>1, Identities DEF StrangersLeave, EngineTypeOK, Everything
<1>3. /\ volume' \in [Volumes -> {"absent", "owned", "foreign"}]
      /\ \A w \in Volumes : volume[w] # "foreign" => volume'[w] = volume[w]
  BY <1>1, Identities DEF StrangersLeave, EngineTypeOK
<1>4. EngineTypeOK'
  BY <1>1, <1>2, <1>3 DEF EngineTypeOK, Everything
<1>5. UniqueNames'
  BY <1>1, <1>2 DEF EngineInv, UniqueNames, Everything
<1>6. \A w \in Volumes : Sound(w)'
  BY <1>1, <1>2, <1>3 DEF EngineInv, Sound
<1>7. EngineInv'
  BY <1>2, <1>5, <1>6 DEF EngineInv
<1> QED
  BY <1>1, <1>2, <1>3, <1>4, <1>7, OutsideKeeps

-----------------------------------------------------------------------------
(* The pruning.                                                            *)

\* Without an operation nothing but the engine and the records matter.
LEMMA IdleKeeps ==
    ASSUME Working, op = NoOp, UNCHANGED <<archive, store, op, call>>,
           EngineTypeOK', EngineInv', Settled'
    PROVE  Working'
<1>1. UNCHANGED <<archive, recorded, installed, op, call>>
  BY DEF store
<1> QED
  BY <1>1 DEF Working, AdapterTypeOK, OperationInv, CallInv

\* The steps that only look.
LEMMA PruneLooks ==
    Inv /\ (PruneBegin \/ PruneList \/ PruneFails \/ PruneCheck) => Inv'
<1> SUFFICES ASSUME Inv, PruneBegin \/ PruneList \/ PruneFails \/ PruneCheck
             PROVE  Inv'
  OBVIOUS
<1>1. /\ UNCHANGED engine /\ UNCHANGED <<archive, recorded, installed, op, call>>
      /\ Working /\ prune \in Prunings /\ PruneInv
  BY DEF PruneBegin, PruneList, PruneFails, PruneCheck, store, Inv, TypeOK, Working
<1>2. op = NoOp /\ Settled /\ Pruning # "never"
  BY <1>1
  DEF PruneBegin, PruneList, PruneFails, PruneCheck, PruneInv, NoPruning, Working, OperationInv
<1>3. Working'
  <2>1. EngineTypeOK' /\ EngineInv' /\ Settled'
    BY <1>1, <1>2, RestEngine
    DEF Working, Settled, NoServer, NoServerBut, Serves, engine
  <2> QED
    BY <1>1, <1>2, <2>1, IdleKeeps DEF store
<1>4. prune' \in Prunings /\ (prune'.at = "check" => prune'.todo # {})
      /\ (prune'.at \in {"container", "volume"} => prune'.id \in Volumes)
      /\ (prune'.at = "container" /\ container[prune'.id] # NoContainer
             => container[prune'.id].name # Server)
  <2>1. NoPruning \in Prunings /\ NoPruning.at = "none"
    BY DEF NoPruning, Prunings
  <2>2. CASE PruneBegin
    BY <2>1, <2>2 DEF PruneBegin, PruneStep, NoPruning, Prunings
  <2>3. CASE PruneFails
    BY <2>1, <2>3 DEF PruneFails, PruneEnds
  <2>4. CASE PruneList
    <3>1. Pool \subseteq BackupIds
      BY <1>1 DEF Pool, Working, AdapterTypeOK
    <3>2. \/ prune' = NoPruning
          \/ \E old \in SUBSET BackupIds :
                old # {} /\ prune' = [at |-> "check", todo |-> old, id |-> NoVolume]
      BY <2>4, <3>1 DEF PruneList, PruneEnds
    <3> QED
      BY <2>1, <3>2 DEF Prunings
  <2>5. CASE PruneCheck
    <3>1. CASE PoolEntry(NextToPrune)
      <4>1. prune.todo \subseteq BackupIds /\ prune.todo # {}
        BY <1>1, <2>5 DEF PruneCheck, PruneInv, Prunings
      <4>2. NextToPrune \in BackupIds
        BY <4>1, PrunedIsBackup
      <4>3. Named(NextToPrune) \in Volumes /\ Named(NextToPrune) # NoVolume
        BY <3>1 DEF PoolEntry, OwnedContainer, Exists
      <4>4. container[Named(NextToPrune)].name = NextToPrune
        BY <1>1, <4>3, NamedFound DEF Working
      <4>5. prune' = [prune EXCEPT !.at = "container", !.id = Named(NextToPrune)]
        BY <2>5, <3>1 DEF PruneCheck
      <4>6. /\ prune' \in Prunings /\ prune'.at = "container"
            /\ prune'.id = Named(NextToPrune)
        BY <1>1, <4>3, <4>5 DEF Prunings
      <4> QED
        BY <4>2, <4>3, <4>4, <4>6, Identities
    <3>2. CASE ~PoolEntry(NextToPrune)
      BY <2>1, <2>5, <3>2 DEF PruneCheck, PruneEnds
    <3> QED
      BY <3>1, <3>2
  <2> QED
    BY <2>2, <2>3, <2>4, <2>5
<1>5. container' = container /\ op' = NoOp
  BY <1>1, <1>2 DEF engine
<1>6. PruneInv'
  BY <1>2, <1>4, <1>5 DEF PruneInv
<1> QED
  BY <1>3, <1>4, <1>6 DEF Inv, TypeOK, Working

LEMMA PruneContainerStep == Inv /\ PruneContainer => Inv'
<1> SUFFICES ASSUME Inv, PruneContainer
             PROVE  Inv'
  OBVIOUS
<1>1. /\ Working /\ prune \in Prunings /\ PruneInv /\ prune.at = "container"
      /\ UNCHANGED <<archive, store, op, call>> /\ recorded' = recorded
  BY DEF PruneContainer, store, Inv, TypeOK, Working
<1>2. op = NoOp /\ Settled /\ Pruning # "never" /\ prune.id \in Volumes
  BY <1>1 DEF PruneInv, NoPruning, Working, OperationInv
<1>3. \/ (PruneStep("volume") \/ PruneEnds) /\ RemoveContainer(prune.id)
      \/ PruneEnds /\ UNCHANGED engine
  BY DEF PruneContainer, Request
<1>4. EngineTypeOK' /\ EngineInv' /\ Settled'
  <2>1. CASE UNCHANGED engine
    BY <1>1, <1>2, <2>1, RestEngine
    DEF Working, Settled, NoServer, NoServerBut, Serves, engine, store
  <2>2. CASE RemoveContainer(prune.id)
    <3>1. /\ EngineTypeOK' /\ EngineInv' /\ container'[prune.id] = NoContainer
          /\ \A w \in Everything \ {prune.id} : container'[w] = container[w]
          /\ content' = content
      BY <1>1, <1>2, <2>2, RemoveEngine DEF Working
    <3>2. container[prune.id] # NoContainer => container[prune.id].name # Server
      BY <1>1 DEF PruneInv
    <3>3. installed' = installed
      BY <1>1 DEF store
    <3>4. CASE installed = NoVersion
      BY <1>2, <3>1, <3>3, <3>4 DEF Settled, NoServer, NoServerBut, Everything
    <3>5. CASE installed # NoVersion
      <4>1. PICK v \in Volumes : Serves(v, installed)
        BY <1>2, <3>5 DEF Settled
      <4>2. v # prune.id
        BY <3>2, <4>1 DEF Serves
      <4>3. Serves(v, installed)'
        BY <3>1, <3>3, <4>1, <4>2 DEF Serves, Everything
      <4> QED
        BY <3>1, <3>3, <3>5, <4>3 DEF Settled
    <3> QED
      BY <3>1, <3>4, <3>5
  <2> QED
    BY <1>3, <2>1, <2>2
<1>5. Working'
  BY <1>1, <1>2, <1>4, IdleKeeps
<1>6. prune' \in Prunings /\ PruneInv'
  <2>1. CASE PruneEnds
    BY <1>1, <1>2, <2>1 DEF PruneEnds, NoPruning, Prunings, PruneInv
  <2>2. CASE PruneStep("volume")
    <3>1. prune' \in Prunings /\ prune'.at = "volume" /\ prune'.id = prune.id
      BY <1>1, <2>2 DEF PruneStep, Prunings
    <3> QED
      BY <1>1, <1>2, <3>1 DEF PruneInv
  <2> QED
    BY <1>3, <2>1, <2>2
<1> QED
  BY <1>5, <1>6 DEF Inv, TypeOK, Working

LEMMA PruneVolumeStep == Inv /\ PruneVolume => Inv'
<1> SUFFICES ASSUME Inv, PruneVolume
             PROVE  Inv'
  OBVIOUS
<1>1. /\ Working /\ prune \in Prunings /\ PruneInv /\ prune.at = "volume"
      /\ UNCHANGED <<archive, store, op, call>> /\ recorded' = recorded
  BY DEF PruneVolume, store, Inv, TypeOK, Working
<1>2. op = NoOp /\ Settled /\ Pruning # "never" /\ prune.id \in Volumes
  BY <1>1 DEF PruneInv, NoPruning, Working, OperationInv
<1>3. /\ PruneNext \/ PruneEnds
      /\ UNCHANGED engine \/ (RemoveVolume(prune.id) /\ ~Exists(prune.id))
  BY DEF PruneVolume, Request
<1>4. EngineTypeOK' /\ EngineInv' /\ Settled'
  <2>1. CASE UNCHANGED engine
    BY <1>1, <1>2, <2>1, RestEngine
    DEF Working, Settled, NoServer, NoServerBut, Serves, engine, store
  <2>2. CASE RemoveVolume(prune.id) /\ ~Exists(prune.id)
    <3>1. container[prune.id] = NoContainer
      BY <1>2, <2>2, Identities DEF Exists, Everything
    <3>2. container' = container
      BY <2>2 DEF RemoveVolume
    <3>3. /\ EngineTypeOK' /\ EngineInv'
          /\ \A w \in Volumes \ {prune.id} : content'[w] = content[w]
      <4>1. EngineTypeOK /\ EngineInv
        BY <1>1 DEF Working
      <4> QED
        BY <1>1, <1>2, <2>2, <3>1, <4>1, RemoveVolumeEngine
    <3>4. Settled'
      BY <1>1, <1>2, <3>1, <3>2, <3>3 DEF Settled, NoServer, NoServerBut, Serves, store
    <3> QED
      BY <3>3, <3>4
  <2> QED
    BY <1>3, <2>1, <2>2
<1>5. Working'
  BY <1>1, <1>2, <1>4, IdleKeeps
<1>6. prune' \in Prunings /\ PruneInv'
  <2>1. CASE prune' = NoPruning
    BY <1>1, <1>2, <2>1 DEF NoPruning, Prunings, PruneInv
  <2>2. CASE prune' # NoPruning
    <3>1. PICK rest : rest = prune.todo \ {NextToPrune}
      OBVIOUS
    <3>2. rest \in SUBSET BackupIds
      BY <1>1, <3>1 DEF Prunings
    <3>3. rest # {} /\ prune' = [at |-> "check", todo |-> rest, id |-> NoVolume]
      BY <1>3, <2>2, <3>1 DEF PruneNext, PruneEnds
    <3> QED
      BY <1>1, <1>2, <3>2, <3>3 DEF Prunings, PruneInv
  <2> QED
    BY <2>1, <2>2
<1> QED
  BY <1>5, <1>6 DEF Inv, TypeOK, Working

-----------------------------------------------------------------------------
(* The system.                                                             *)

LEMMA StepsAreCalls == AdapterStep => call.at # "none"
  BY DEF AdapterStep, Stage, Commit, Verify, BackupStep, InstallStep, ReplaceStep, RemoveStep,
         UndoStep, RevertStep, BackupInspect, BackupStop, BackupArchive, BackupRestart,
         BackupReady, InstallInspect, InstallVolume, InstallCreate, InstallStart,
         ReplaceInspect, ReplaceVolume, ReplaceStop, ReplaceRename, ReplaceCreate,
         ReplaceFill, ReplaceStart, RemoveInspect, RemoveServer, RemoveData, UndoInspect,
         UndoContainer, RevertInspect, RevertContainer, RevertVolume, RevertRename,
         RevertStart, RevertReady

\* The operations and their steps, while nothing is pruned.
LEMMA OperationsKeep ==
    ASSUME PruningAlone, Inv, OperatorBegins \/ Recover \/ AdapterStep, UNCHANGED prune
    PROVE  Inv'
<1>1. Working /\ prune \in Prunings /\ PruneInv
  BY DEF Inv, TypeOK, Working
<1>2. prune = NoPruning
  <2>1. CASE OperatorBegins
    BY <1>1, <2>1, PruningAssumption DEF PruningAlone, OperatorBegins, PruneInv
  <2>2. CASE Recover
    BY <1>1, <2>2 DEF Recover, PruneInv
  <2>3. CASE AdapterStep
    BY <1>1, <2>3, StepsAreCalls, Caller DEF PruneInv
  <2> QED
    BY <2>1, <2>2, <2>3
<1>3. Working'
  BY <1>1, AdapterKeeps, RecoverStarts, BeginStep DEF OperatorBegins
<1>4. prune' = NoPruning
  BY <1>2
<1>5. PruneInv' /\ prune' \in Prunings
  BY <1>4 DEF PruneInv, NoPruning, Prunings
<1> QED
  BY <1>3, <1>5 DEF Inv, TypeOK, Working

LEMMA OutsideKeepsInv ==
    Inv /\ (ApplicationWrites \/ StrangersLeave) /\ UNCHANGED <<archive, store, op, call, prune>>
        => Inv'
<1> SUFFICES ASSUME Inv, ApplicationWrites \/ StrangersLeave,
                    UNCHANGED <<archive, store, op, call, prune>>
             PROVE  Inv'
  OBVIOUS
<1>1. Working /\ prune \in Prunings /\ PruneInv
  BY DEF Inv, TypeOK, Working
<1>2. Working'
  BY <1>1, ApplicationKeeps, StrangersKeep
<1>3. \A w \in Volumes : container'[w] = container[w]
  BY <1>1, Identities DEF ApplicationWrites, StrangersLeave, Working, EngineTypeOK
<1>4. PruneInv'
  BY <1>1, <1>3 DEF PruneInv
<1> QED
  BY <1>1, <1>2, <1>4 DEF Inv, TypeOK, Working

\* The call and the pruning end, the operation stays.
LEMMA CrashKeeps == Inv /\ Crash => Inv'
<1> SUFFICES ASSUME Inv, Crash
             PROVE  Inv'
  OBVIOUS
<1>1. /\ UNCHANGED engine /\ UNCHANGED <<archive, recorded, installed, op>>
      /\ call' = Nothing /\ prune' = NoPruning
  BY DEF Crash, store
<1>2. EngineTypeOK' /\ EngineInv'
  BY <1>1, RestEngine DEF Inv, TypeOK
<1>3. AdapterTypeOK'
  BY <1>1, CallTypes DEF Inv, TypeOK, AdapterTypeOK
<1>4. OperationInv'
  <2>1. CASE op = NoOp
    BY <1>1, <2>1
    DEF Inv, OperationInv, Settled, NoServer, NoServerBut, Serves, engine
  <2>2. CASE op # NoOp
    <3> PICK o : o = op
      OBVIOUS
    <3>1. Holding(o)'
      BY <1>1, <2>2, RestHolding DEF Inv, OperationInv
    <3>2. op' = o
      BY <1>1
    <3> QED
      BY <2>2, <3>1, <3>2 DEF OperationInv
  <2> QED
    BY <2>1, <2>2
<1>5. CallInv'
  BY <1>1 DEF CallInv, Underway
<1>6. prune' \in Prunings /\ PruneInv'
  BY <1>1 DEF PruneInv, NoPruning, Prunings
<1> QED
  BY <1>2, <1>3, <1>4, <1>5, <1>6 DEF Inv, TypeOK

LEMMA RestKeeps == Inv /\ UNCHANGED vars => Inv'
<1> SUFFICES ASSUME Inv, UNCHANGED vars
             PROVE  Inv'
  OBVIOUS
<1>1. UNCHANGED engine /\ UNCHANGED <<archive, recorded, installed, op, call, prune>>
  BY DEF vars, store
<1>2. Working'
  <2>1. Working /\ EngineTypeOK' /\ EngineInv'
    BY <1>1, RestEngine DEF Inv, TypeOK, Working
  <2> QED
    BY <1>1, <2>1, OutsideKeeps DEF engine, store
<1>3. prune' \in Prunings /\ PruneInv'
  BY <1>1 DEF Inv, TypeOK, PruneInv, engine
<1> QED
  BY <1>2, <1>3 DEF Inv, TypeOK, Working

LEMMA Initially == Init => Inv
<1> SUFFICES ASSUME Init
             PROVE  Inv
  OBVIOUS
<1>1. Stranger \in Containers /\ Stranger.name = Server /\ NoContainer \notin Containers
  <2>1. (CHOOSE v \in Versions : TRUE) \in Versions
    BY IdentityAssumption
  <2> QED
    BY <2>1, NoContainerAssumption DEF Stranger, Containers
<1>2. PICK c \in {NoContainer, Stranger} :
         container = [v \in Volumes \cup {Foreign} |-> IF v = Foreign THEN c ELSE NoContainer]
  BY DEF Init, EngineInit
<1>3. PICK d \in {"absent", "foreign"} :
         volume = [v \in Volumes |-> IF v = Data THEN d ELSE "absent"]
  BY DEF Init, EngineInit
<1>4. content = [v \in Volumes |-> Empty]
  BY DEF Init, EngineInit
<1>5. \A v \in Volumes : container[v] = NoContainer
  BY <1>2, Identities
<1>6. EngineTypeOK
  BY <1>1, <1>2, <1>3, <1>4 DEF EngineTypeOK, Contents
<1>7. EngineInv
  BY <1>1, <1>2, <1>5 DEF EngineInv, UniqueNames, Sound, Everything
<1>8. AdapterTypeOK /\ OperationInv /\ CallInv
  BY <1>5, CallTypes
  DEF Init, AdapterInit, AdapterTypeOK, OperationInv, CallInv, Settled, NoServer, NoServerBut
<1>9. prune \in Prunings /\ PruneInv
  BY DEF Init, PruneInv, NoPruning, Prunings
<1> QED
  BY <1>6, <1>7, <1>8, <1>9 DEF Inv, TypeOK

LEMMA Stepwise == PruningAlone /\ Inv /\ [Next]_vars => Inv'
<1> SUFFICES ASSUME PruningAlone, Inv, [Next]_vars
             PROVE  Inv'
  OBVIOUS
<1>1. CASE (OperatorBegins \/ Recover \/ AdapterStep) /\ UNCHANGED prune
  BY <1>1, OperationsKeep
<1>2. CASE PruningStep
  BY <1>2, PruneLooks, PruneContainerStep, PruneVolumeStep DEF PruningStep
<1>3. CASE (ApplicationWrites \/ StrangersLeave) /\ UNCHANGED <<archive, store, op, call, prune>>
  BY <1>3, OutsideKeepsInv
<1>4. CASE Crash
  BY <1>4, CrashKeeps
<1>5. CASE UNCHANGED vars
  BY <1>5, RestKeeps
<1> QED
  BY <1>1, <1>2, <1>3, <1>4, <1>5 DEF Next

\* While nothing begins beside a pruning, every state satisfies the inductive
\* invariant.
LEMMA Invariance ==
    ASSUME PruningAlone
    PROVE  Spec => []Inv
<1>1. PruningAlone
  OBVIOUS
<1>2. Inv /\ [Next]_vars => Inv'
  BY <1>1, Stepwise
<1> QED
  BY <1>2, Initially, PTL DEF Spec

-----------------------------------------------------------------------------
(* What the states of the local system are.                                *)

\* The variables of the local system have their types: an adapter never acts
\* on a container or a volume that is not there.
THEOREM TypeCorrect ==
    ASSUME PruningAlone PROVE Spec => []TypeOK
<1>1. Inv => TypeOK
  BY DEF Inv
<1> QED
  BY <1>1, Invariance, PTL

\* While nobody holds the deployment lock, the engine has what the inventory
\* says: the server of the installed version on a volume with data, or none.
THEOREM DeployedAsSaid ==
    ASSUME PruningAlone PROVE Spec => []InventoryIsDeployed
<1>1. Inv => InventoryIsDeployed
  <2> SUFFICES ASSUME Inv, op = NoOp
               PROVE  LET v == Named(Server) IN
                      IF installed = NoVersion THEN ~OwnedContainer(v)
                      ELSE /\ OwnedContainer(v) /\ OwnedVolume(v)
                           /\ container[v].version = installed
                           /\ content[v] # Empty
    BY DEF InventoryIsDeployed
  <2>1. EngineTypeOK /\ EngineInv /\ UniqueNames /\ Settled
    BY DEF Inv, TypeOK, OperationInv, EngineInv
  <2>2. CASE installed = NoVersion
    BY <2>1, <2>2, NamedFound, Identities
    DEF Settled, NoServer, NoServerBut, OwnedContainer, Exists, Everything
  <2>3. CASE installed # NoVersion
    <3>1. PICK v \in Volumes : Serves(v, installed)
      BY <2>1, <2>3 DEF Settled
    <3>2. Named(Server) = v /\ v # NoVolume
      BY <2>1, <3>1, NamedIs, Identities DEF Serves, Everything
    <3> QED
      BY <2>1, <2>3, <3>1, <3>2
      DEF Serves, OwnedContainer, OwnedVolume, Exists, EngineInv, Sound
  <2> QED
    BY <2>2, <2>3
<1> QED
  BY <1>1, Invariance, PTL

\* ADR-0007: as soon as a replacement is staged and until it ends, recovery of
\* it included, the container it replaces is there with its data, as the server
\* or under the name of the safety backup.
THEOREM PriorKept ==
    ASSUME PruningAlone PROVE Spec => []PriorIsPreserved
<1>1. Inv => PriorIsPreserved
  <2> SUFFICES ASSUME Inv, op # NoOp, Replaces(op.kind), op.phase # "prepared"
               PROVE  /\ OwnedContainer(op.prior) /\ OwnedVolume(op.prior)
                      /\ container[op.prior].version = op.from
                      /\ container[op.prior].name \in {Server, op.safety}
                      /\ content[op.prior] # Empty
    BY DEF PriorIsPreserved
  <2>1. op \in Operations /\ Holding(op) /\ EngineInv
    BY DEF Inv, TypeOK, AdapterTypeOK, OperationInv
  <2>2. Kept(op) /\ op.prior \in Volumes /\ op.prior # NoVolume
    BY <2>1, ReplacementHolds, Identities DEF Everything
  <2> QED
    BY <2>1, <2>2 DEF Kept, OwnedContainer, OwnedVolume, Exists, EngineInv, Sound
<1> QED
  BY <1>1, Invariance, PTL

\* Wherever a replacement stops, the checks of recoverReplacement accept what
\* it has left, and what an earlier recovery has left of that.
THEOREM RecoveryAccepts ==
    ASSUME PruningAlone PROVE Spec => []ReplacementRecoverable
<1>1. Inv => ReplacementRecoverable
  <2> SUFFICES ASSUME Inv, op # NoOp, Replaces(op.kind), op.phase # "prepared"
               PROVE  RevertAllowed
    BY DEF ReplacementRecoverable
  <2>1. op \in Operations /\ Holding(op) /\ EngineInv /\ EngineTypeOK
    BY DEF Inv, TypeOK, AdapterTypeOK, OperationInv
  <2>2. Kept(op) /\ op.prior \in Volumes /\ op.safety \in BackupIds
    BY <2>1, ReplacementHolds
  <2> QED
    BY <2>1, <2>2, KeptIsAccepted
<1> QED
  BY <1>1, Invariance, PTL

\* A replacement is started on the data of the backup it was asked to restore,
\* or else of its own safety backup, whatever is written meanwhile.
THEOREM SeededRight ==
    ASSUME PruningAlone PROVE Spec => []ReplacementIsSeeded
<1>1. Inv => ReplacementIsSeeded
  <2> SUFFICES ASSUME Inv, call.at = "replace-start"
               PROVE  content[op.safety] = IF op.kind \in {"restore", "rollback"}
                                             THEN archive[op.selected].content
                                             ELSE archive[op.safety].content
    BY DEF ReplacementIsSeeded
  <2>1. Going(op, call)
    BY ReplaceFinds DEF Inv, TypeOK, Working, ReplaceSteps
  <2> QED
    BY <2>1 DEF Going, Source
<1> QED
  BY <1>1, Invariance, PTL

-----------------------------------------------------------------------------
(* What a step may never do.                                               *)

\* What only shares a name with the deployment is left alone.
Spared ==
    /\ container'[Foreign] = container[Foreign]
    /\ volume[Data] = "foreign" => volume'[Data] = "foreign"

LEMMA RequestsSpare ==
    ASSUME EngineTypeOK, NEW v \in Volumes
    PROVE  /\ Start(v) \/ Stop(v) \/ RemoveContainer(v) => Spared
           /\ \A n : Rename(v, n) => Spared
           /\ \A x : CreateContainer(v, x) => Spared
           /\ volume[v] # "foreign" /\ (CreateVolume(v) \/ RemoveVolume(v)) => Spared
<1>1. v # Foreign /\ Foreign \in Everything
  BY Identities DEF Everything
<1>2. Start(v) \/ Stop(v) \/ RemoveContainer(v) => Spared
  BY <1>1 DEF Start, Stop, RemoveContainer, Spared, EngineTypeOK, Everything
<1>3. \A n : Rename(v, n) => Spared
  BY <1>1 DEF Rename, Spared, EngineTypeOK, Everything
<1>4. \A x : CreateContainer(v, x) => Spared
  BY <1>1 DEF CreateContainer, Spared, EngineTypeOK, Everything
<1>5. volume[v] # "foreign" /\ (CreateVolume(v) \/ RemoveVolume(v)) => Spared
  BY Identities DEF CreateVolume, RemoveVolume, Spared, EngineTypeOK
<1> QED
  BY <1>2, <1>3, <1>4, <1>5

LEMMA RestSpares == UNCHANGED engine => Spared
  BY DEF engine, Spared

LEMMA AdapterSpares == Working /\ AdapterStep => Spared
<1> SUFFICES ASSUME Working, AdapterStep
             PROVE  Spared
  OBVIOUS
<1>1. EngineTypeOK /\ Data \in Volumes
  BY Identities DEF Working
<1>2. CASE Stage \/ Commit \/ Verify
  BY <1>2, RestSpares DEF Stage, Commit, Verify
<1>3. CASE BackupStep
  <2>1. call.at \in BackupSteps
    BY <1>3 DEF BackupStep, BackupInspect, BackupStop, BackupArchive, BackupRestart,
                BackupReady, BackupSteps
  <2>2. op.prior \in Volumes /\ (call.at # "backup-inspect" => call.id = op.prior)
    BY <2>1, BackupFinds DEF Serves
  <2> QED
    BY <1>1, <1>3, <2>2, RequestsSpare, RestSpares
    DEF BackupStep, BackupInspect, BackupStop, BackupArchive, BackupRestart, BackupReady, Request
<1>4. CASE InstallStep
  BY <1>1, <1>4, RequestsSpare, RestSpares
  DEF InstallStep, InstallInspect, InstallVolume, InstallCreate, InstallStart, Request
<1>5. CASE ReplaceStep
  <2>1. call.at \in ReplaceSteps
    BY <1>5 DEF ReplaceStep, ReplaceInspect, ReplaceVolume, ReplaceStop, ReplaceRename,
                ReplaceCreate, ReplaceFill, ReplaceStart, ReplaceSteps
  <2>2. /\ op \in Operations /\ Holding(op) /\ Going(op, call)
        /\ op.phase # "prepared" /\ Replaces(op.kind)
    BY <2>1, ReplaceFinds
  <2>3. op.safety \in Volumes /\ op.prior \in Volumes
    BY <2>2, ReplacementHolds
  <2>4. call.at \in {"replace-stop", "replace-rename"} => call.id = op.prior
    BY <2>2 DEF Going
  <2>5. CASE ReplaceInspect \/ ReplaceFill
    BY <2>5, RestSpares DEF ReplaceInspect, ReplaceFill, Request, Spared
  <2>6. CASE ReplaceVolume \/ ReplaceCreate \/ ReplaceStart
    BY <1>1, <2>3, <2>6, RequestsSpare, RestSpares
    DEF ReplaceVolume, ReplaceCreate, ReplaceStart, Request
  <2>7. CASE ReplaceStop \/ ReplaceRename
    BY <1>1, <2>3, <2>4, <2>7, RequestsSpare, RestSpares DEF ReplaceStop, ReplaceRename, Request
  <2> QED
    BY <1>5, <2>5, <2>6, <2>7 DEF ReplaceStep
<1>6. CASE RemoveStep \/ UndoStep
  <2>1. call.at \in RemoveSteps \cup UndoSteps
    BY <1>6 DEF RemoveStep, RemoveInspect, RemoveServer, RemoveData, UndoStep, UndoInspect,
                UndoContainer, RemoveSteps, UndoSteps
  <2>2. call.at \in {"remove-container", "undo-container"} => call.id \in Volumes
    BY <1>1, <2>1, TakingFinds DEF Reverting
  <2> QED
    BY <1>1, <1>6, <2>2, RequestsSpare, RestSpares
    DEF RemoveStep, RemoveInspect, RemoveServer, RemoveData, UndoStep, UndoInspect,
        UndoContainer, Request
<1>7. CASE RevertStep
  <2>1. call.at \in RevertSteps
    BY <1>7 DEF RevertStep, RevertInspect, RevertContainer, RevertVolume, RevertRename,
                RevertStart, RevertReady, RevertSteps
  <2>2. /\ op \in Operations /\ Holding(op) /\ Reverting(op, call)
        /\ op.phase # "prepared" /\ Replaces(op.kind)
    BY <2>1, RevertFinds
  <2>3. op.safety \in Volumes /\ op.prior \in Volumes
    BY <2>2, ReplacementHolds
  <2>4. call.at # "revert-inspect" => call.id = op.prior
    BY <2>1, <2>2 DEF Reverting
  <2>5. CASE RevertInspect \/ RevertReady
    BY <2>5, RestSpares DEF RevertInspect, RevertReady
  <2>6. CASE RevertContainer \/ RevertVolume
    BY <1>1, <2>3, <2>6, RequestsSpare, RestSpares DEF RevertContainer, RevertVolume, Request
  <2>7. CASE RevertRename \/ RevertStart
    BY <1>1, <2>3, <2>4, <2>7, RequestsSpare, RestSpares DEF RevertRename, RevertStart, Request
  <2> QED
    BY <1>7, <2>5, <2>6, <2>7 DEF RevertStep
<1> QED
  BY <1>2, <1>3, <1>4, <1>5, <1>6, <1>7 DEF AdapterStep

\* README, "an unowned same-named container remains protected": no operation
\* and no pruning changes it, whatever fails and whatever was lost or stopped.
THEOREM StrangersProtected ==
    ASSUME PruningAlone PROVE Spec => StrangersUntouched
<1>1. Inv /\ [Next]_vars => [(call' # call \/ prune' # prune) =>
          /\ container'[Foreign] = container[Foreign]
          /\ volume[Data] = "foreign" => volume'[Data] = "foreign"]_vars
  <2> SUFFICES ASSUME Inv, Next, call' # call \/ prune' # prune
               PROVE  Spared
    BY DEF Spared
  <2>1. Working /\ PruneInv /\ EngineTypeOK
    BY DEF Inv, TypeOK, Working
  <2>2. CASE OperatorBegins \/ Recover \/ Crash
    BY <2>2, RestSpares DEF OperatorBegins, Begin, Recover, Crash
  <2>3. CASE AdapterStep
    BY <2>1, <2>3, AdapterSpares
  <2>4. CASE PruningStep
    <3>1. prune.at \in {"container", "volume"} => prune.id \in Volumes
      BY <2>1 DEF PruneInv
    <3> QED
      BY <2>1, <2>4, <3>1, RequestsSpare, RestSpares
      DEF PruningStep, PruneBegin, PruneList, PruneFails, PruneCheck, PruneContainer,
          PruneVolume, Request
  <2> QED
    BY <2>2, <2>3, <2>4 DEF Next
<1> QED
  BY <1>1, Invariance, PTL DEF Spec, StrangersUntouched

\* Only a step of its own call ends an operation that has begun to change the
\* target: nothing else takes the deployment lock from it.
LEMMA CallsEnd ==
    ASSUME AdapterTypeOK, Next, op # NoOp, op' = NoOp, op.phase # "prepared"
    PROVE  AdapterStep
<1>1. ~OperatorBegins
  BY DEF OperatorBegins, Begin
<1>2. ASSUME Recover PROVE FALSE
  <2>1. op \in Operations /\ op' = [op EXCEPT !.phase = "recovering"]
    BY <1>2 DEF Recover, AdapterTypeOK
  <2>2. op' \in Operations
    BY <2>1, PhaseTypes
  <2> QED
    BY <2>2, OperationTypes
<1>3. PruningStep => op' = op
  BY DEF PruningStep, PruneBegin, PruneList, PruneFails, PruneCheck, PruneContainer, PruneVolume
<1> QED
  BY <1>1, <1>2, <1>3 DEF Next, Crash

\* A call that fails once the target was changed leaves the operation open.
LEMMA FailStays ==
    ASSUME AdapterTypeOK, op # NoOp, op.phase # "prepared"
    PROVE  /\ Fail => op' # NoOp
           /\ \A step : Go(step) => op' # NoOp
           /\ \A step, v : GoOn(step, v) => op' # NoOp
<1>1. op \in Operations
  BY DEF AdapterTypeOK
<1>2. Fail => op' # NoOp
  <2>1. [op EXCEPT !.phase = "recovering"] # NoOp
    BY <1>1, PhaseTypes
  <2> QED
    BY <2>1 DEF Fail
<1>3. \A step : Go(step) => op' # NoOp
  BY DEF Go
<1>4. \A step, v : GoOn(step, v) => op' # NoOp
  BY DEF GoOn
<1> QED
  BY <1>2, <1>3, <1>4

\* A finished replacement has the new version on its new volume, and has kept
\* the container it replaced, stopped, under the name of the safety backup.
THEOREM CommitsDeliver ==
    ASSUME PruningAlone PROVE Spec => CommitDelivers
<1>1. Inv /\ [Next]_vars => [op # NoOp /\ op.phase = "applied" /\ op' = NoOp /\ Replaces(op.kind) =>
          /\ container'[op.safety].name = Server
          /\ container'[op.safety].version = op.to
          /\ container'[op.prior] = [name |-> op.safety, version |-> op.from, running |-> FALSE]]_vars
  <2> SUFFICES ASSUME Inv, Next, op # NoOp, op.phase = "applied", op' = NoOp, Replaces(op.kind)
               PROVE  /\ container'[op.safety].name = Server
                      /\ container'[op.safety].version = op.to
                      /\ container'[op.prior] =
                            [name |-> op.safety, version |-> op.from, running |-> FALSE]
    OBVIOUS
  <2>1. Working /\ EngineTypeOK /\ AdapterTypeOK /\ EngineInv
    BY DEF Inv, TypeOK, Working
  <2>2. AdapterStep
    BY <2>1, CallsEnd
  <2>3. op \in Operations /\ Holding(op) /\ call.at \in Steps(op) /\ Going(op, call)
    BY <2>1, <2>2, StepsAreCalls, Caller
  <2>4. call.at \in {"verify", "commit"}
    BY <2>3 DEF Steps
  <2>5. UNCHANGED engine
    BY <2>2, <2>4
    DEF AdapterStep, Stage, Commit, Verify, BackupStep, InstallStep, ReplaceStep, RemoveStep,
        UndoStep, RevertStep, BackupInspect, BackupStop, BackupArchive, BackupRestart,
        BackupReady, InstallInspect, InstallVolume, InstallCreate, InstallStart,
        ReplaceInspect, ReplaceVolume, ReplaceStop, ReplaceRename, ReplaceCreate,
        ReplaceFill, ReplaceStart, RemoveInspect, RemoveServer, RemoveData, UndoInspect,
        UndoContainer, RevertInspect, RevertContainer, RevertVolume, RevertRename,
        RevertStart, RevertReady
  <2>6. Serves(op.safety, op.to)
    BY <2>3, <2>4 DEF Going, Replaces
  <2>7. /\ Kept(op) /\ op.safety # Server /\ op.prior \in Volumes /\ op.prior \in Everything
    BY <2>3, ReplacementHolds
  <2>8. /\ container[op.prior] # NoContainer /\ container[op.prior].name = op.safety
        /\ container[op.prior].version = op.from
    BY <2>6, <2>7 DEF Kept, Serves
  <2>9. ~container[op.prior].running
    BY <2>1, <2>7, <2>8 DEF EngineInv, Sound
  <2>10. container[op.prior] \in Containers
    BY <2>1, <2>7, <2>8 DEF EngineTypeOK, Everything
  <2>11. container[op.prior] = [name |-> op.safety, version |-> op.from, running |-> FALSE]
    BY <2>8, <2>9, <2>10 DEF Containers
  <2> QED
    BY <2>5, <2>6, <2>11 DEF Serves, engine
<1> QED
  BY <1>1, Invariance, PTL DEF Spec, CommitDelivers

\* What an operation whose recovery ends has left.
LEMMA RecoveryLeaves ==
    ASSUME Inv, Inv', Next, op # NoOp, op.phase = "recovering", op' = NoOp
    PROVE  IF Replaces(op.kind)
             THEN /\ container'[op.prior] = [name |-> Server, version |-> op.from, running |-> TRUE]
                  /\ volume'[op.safety] = "absent" /\ container'[op.safety] = NoContainer
             ELSE \A v \in Volumes : container'[v] # NoContainer => container'[v].name # Server
<1>1. Working /\ EngineTypeOK /\ AdapterTypeOK /\ EngineInv
  BY DEF Inv, TypeOK, Working
<1>2. AdapterStep
  BY <1>1, CallsEnd
<1>3. /\ op \in Operations /\ Holding(op) /\ call.at \in Steps(op) /\ Reverting(op, call)
  BY <1>1, <1>2, StepsAreCalls, Caller
<1>4. op.kind \in Kinds /\ op.kind # "backup" /\ op.from = installed
  BY <1>3, OperationTypes DEF Holding, Legal
<1>5. ~Fail /\ (\A step : ~Go(step)) /\ (\A step, v : ~GoOn(step, v))
  BY <1>1, FailStays
<1>6. CASE Replaces(op.kind)
  <2>1. call.at \in RevertSteps
    BY <1>3, <1>4, <1>6 DEF Steps, Replaces
  <2>2. RevertStep
    BY <1>2, <2>1
    DEF AdapterStep, Stage, Commit, Verify, BackupStep, InstallStep, ReplaceStep, RemoveStep,
        UndoStep, BackupInspect, BackupStop, BackupArchive, BackupRestart,
        BackupReady, InstallInspect, InstallVolume, InstallCreate, InstallStart,
        ReplaceInspect, ReplaceVolume, ReplaceStop, ReplaceRename, ReplaceCreate,
        ReplaceFill, ReplaceStart, RemoveInspect, RemoveServer, RemoveData, UndoInspect,
        UndoContainer, RevertSteps
  <2>3. RevertReady /\ Ready(op.from)
    BY <1>5, <2>2
    DEF RevertStep, RevertInspect, RevertContainer, RevertVolume, RevertRename,
        RevertStart, RevertReady, Request
  <2>4. /\ call.at = "revert-ready" /\ UNCHANGED engine /\ PriorNamed(op, Server)
        /\ container[op.safety] = NoContainer /\ volume[op.safety] = "absent"
    BY <1>3, <2>3 DEF RevertReady, Reverting, RevertSteps
  <2>5. Kept(op) /\ op.prior \in Everything
    BY <1>3, <1>6, ReplacementHolds
  <2>6. Named(Server) = op.prior /\ container[op.prior] # NoContainer
    BY <1>1, <2>4, <2>5, NamedIs DEF Kept, PriorNamed, EngineInv
  <2>7. container[op.prior] \in Containers
    BY <1>1, <2>5, <2>6 DEF EngineTypeOK, Everything
  <2>8. container[op.prior].running /\ container[op.prior].version = op.from
    BY <2>3, <2>6 DEF Ready
  <2>9. container[op.prior] = [name |-> Server, version |-> op.from, running |-> TRUE]
    BY <2>4, <2>7, <2>8 DEF Containers, PriorNamed
  <2> QED
    BY <1>6, <2>4, <2>9 DEF engine
<1>7. CASE ~Replaces(op.kind)
  <2>1. op.kind \in {"install", "uninstall"}
    BY <1>4, <1>7 DEF Kinds, Replaces
  <2>2. call.at \in RemoveSteps \cup UndoSteps
    BY <1>3, <2>1 DEF Steps
  <2>3. RemoveStep \/ UndoStep
    BY <1>2, <2>2
    DEF AdapterStep, Stage, Commit, Verify, BackupStep, InstallStep, ReplaceStep,
        RevertStep, BackupInspect, BackupStop, BackupArchive, BackupRestart,
        BackupReady, InstallInspect, InstallVolume, InstallCreate, InstallStart,
        ReplaceInspect, ReplaceVolume, ReplaceStop, ReplaceRename, ReplaceCreate,
        ReplaceFill, ReplaceStart, RevertInspect, RevertContainer, RevertVolume,
        RevertRename, RevertStart, RevertReady, RemoveSteps, UndoSteps
  <2>4. Succeed
    BY <1>5, <2>3
    DEF RemoveStep, RemoveInspect, RemoveServer, RemoveData, UndoStep, UndoInspect,
        UndoContainer, Request
  <2>5. installed' = NoVersion
    BY <1>3, <1>4, <2>1, <2>4 DEF Succeed, Holding, Legal
  <2>6. Settled'
    BY DEF Inv, OperationInv
  <2>7. NoServer'
    BY <2>5, <2>6 DEF Settled
  <2> QED
    BY <1>7, <2>7, Identities DEF NoServer, NoServerBut, Everything
<1> QED
  BY <1>6, <1>7

\* Recovery ends where the operation began: a replacement with the container it
\* found running on its volume and nothing of its own left, an install or a
\* removal without a server.
THEOREM RecoveryIsComplete ==
    ASSUME PruningAlone PROVE Spec => RecoveryRestores
<1>1. Inv /\ Inv' /\ [Next]_vars => [op # NoOp /\ op.phase = "recovering" /\ op' = NoOp =>
          IF Replaces(op.kind)
            THEN /\ container'[op.prior] = [name |-> Server, version |-> op.from, running |-> TRUE]
                 /\ volume'[op.safety] = "absent" /\ container'[op.safety] = NoContainer
            ELSE \A v \in Volumes : container'[v] # NoContainer => container'[v].name # Server]_vars
  BY RecoveryLeaves
<1> QED
  BY <1>1, Invariance, PTL DEF Spec, RecoveryRestores
=============================================================================
