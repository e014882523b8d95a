--------------------------- MODULE DockerEngine ----------------------------
(***************************************************************************)
(* The Docker Engine as the local adapter uses it: the containers and the  *)
(* volumes of one deployment, and requests that fail, or take effect       *)
(* without their answer arriving.                                          *)
(*                                                                         *)
(* A container is identified by the volume it mounts: every container the  *)
(* adapter creates has a volume of its own, the configured one for an      *)
(* install and the one called after its safety backup for a replacement.   *)
(***************************************************************************)
EXTENDS Naturals

CONSTANTS
    Versions,
    MaxBackups,   \* bound of the backups taken, identified in order of time
    MaxWrites,    \* bound of what the application writes
    Faults,       \* "fails", "lost", "crash"
    Data,         \* the volume the plan configures
    Foreign,      \* a container of the same name that is not Ranch Hand's
    NoVolume, NoVersion, NoContainer, Empty

BackupIds == 1..MaxBackups

Volumes == {Data} \cup BackupIds

Server == 0   \* the name of the active container; rollback ones have a backup's

ASSUME BoundsAssumption == MaxBackups \in Nat /\ MaxWrites \in Nat
ASSUME FaultsAssumption == Faults \subseteq {"fails", "lost", "crash"}
ASSUME IdentityAssumption ==
    /\ {Data, Foreign, NoVolume} \cap BackupIds = {}
    /\ Data # Foreign /\ Data # NoVolume /\ Foreign # NoVolume
    /\ Versions # {} /\ NoVersion \notin Versions
    /\ Empty \notin 0..MaxWrites

VARIABLES
    container,  \* by identity: what the engine says of it
    volume,     \* absent, owned (labelled for this deployment) or foreign
    content     \* what the application finds in each volume

engine == <<container, volume, content>>

Contents == 0..MaxWrites \cup {Empty}

Containers == [name : {Server} \cup BackupIds, version : Versions, running : BOOLEAN]

ASSUME NoContainerAssumption == NoContainer \notin Containers

EngineTypeOK ==
    /\ container \in [Volumes \cup {Foreign} -> Containers \cup {NoContainer}]
    /\ volume \in [Volumes -> {"absent", "owned", "foreign"}]
    /\ content \in [Volumes -> Contents]

\* A container that has the server's name and not the deployment's labels.
Stranger == [name |-> Server, version |-> CHOOSE v \in Versions : TRUE, running |-> TRUE]

\* What has the names the plan configures may be there already.
EngineInit ==
    /\ \E c \in {NoContainer, Stranger} :
          container = [v \in Volumes \cup {Foreign} |->
                          IF v = Foreign THEN c ELSE NoContainer]
    /\ \E d \in {"absent", "foreign"} :
          volume = [v \in Volumes |-> IF v = Data THEN d ELSE "absent"]
    /\ content = [v \in Volumes |-> Empty]

-----------------------------------------------------------------------------
(* What a request finds, and what it does.                                 *)

Exists(v) == v # NoVolume /\ container[v] # NoContainer

\* The container of that name, NoVolume when there is none.
Named(name) ==
    IF \E v \in DOMAIN container : Exists(v) /\ container[v].name = name
      THEN CHOOSE v \in DOMAIN container : Exists(v) /\ container[v].name = name
      ELSE NoVolume

\* verifyOwnership: the labels are this deployment's.
OwnedContainer(v) == v \in Volumes /\ Exists(v)

OwnedVolume(v) == v \in Volumes /\ volume[v] = "owned"

Start(v) ==
    /\ container' = [container EXCEPT ![v].running = TRUE]
    /\ content' = [content EXCEPT ![v] = IF @ = Empty THEN 0 ELSE @]
    /\ UNCHANGED volume

Stop(v) ==
    /\ container' = [container EXCEPT ![v].running = FALSE]
    /\ UNCHANGED <<volume, content>>

Rename(v, name) ==
    /\ container' = [container EXCEPT ![v].name = name]
    /\ UNCHANGED <<volume, content>>

CreateContainer(v, version) ==
    /\ container' = [container EXCEPT ![v] =
                        [name |-> Server, version |-> version, running |-> FALSE]]
    /\ UNCHANGED <<volume, content>>

RemoveContainer(v) ==
    /\ container' = [container EXCEPT ![v] = NoContainer]
    /\ UNCHANGED <<volume, content>>

CreateVolume(v) ==
    /\ volume' = [volume EXCEPT ![v] = "owned"]
    /\ content' = [content EXCEPT ![v] = Empty]
    /\ UNCHANGED container

RemoveVolume(v) ==
    /\ volume' = [volume EXCEPT ![v] = "absent"]
    /\ content' = [content EXCEPT ![v] = Empty]
    /\ UNCHANGED container

\* A request is answered, has its effect without being answered, or fails.
Request(possible, effect, answered, failed) ==
    \/ possible /\ effect /\ answered
    \/ possible /\ "lost" \in Faults /\ effect /\ failed
    \/ (~possible \/ "fails" \in Faults) /\ UNCHANGED engine /\ failed

-----------------------------------------------------------------------------
(* What happens to the engine beside the requests.                         *)

\* The running application writes to its volume.
ApplicationWrites ==
    LET v == Named(Server) IN
    /\ OwnedContainer(v) /\ container[v].running
    /\ content[v] < MaxWrites
    /\ content' = [content EXCEPT ![v] = @ + 1]
    /\ UNCHANGED <<container, volume>>

\* Whoever owns what has the deployment's names takes it away.
StrangersLeave ==
    /\ Exists(Foreign) \/ volume[Data] = "foreign"
    /\ container' = [container EXCEPT ![Foreign] = NoContainer]
    /\ volume' = [volume EXCEPT ![Data] = IF @ = "foreign" THEN "absent" ELSE @]
    /\ UNCHANGED content
=============================================================================
