-------------------------- MODULE ComposeDirectory --------------------------
(***************************************************************************)
(* The remote Linux and the WSL adapter: a dedicated directory with three  *)
(* deployment files and the ownership marker, and the labelled container   *)
(* and volume of the Compose project started from it.  Apply, Verify and   *)
(* Recover as sequences of commands on the host.                           *)
(*                                                                         *)
(* A file is as good as the deployment that wrote it (the marker records   *)
(* digests), a container or a volume as its labels.  Temporary files exist *)
(* only before the marker does and go with the files they are for.         *)
(***************************************************************************)
EXTENDS TargetOperation

VARIABLES
    directory,  \* does the installation directory exist?
    files,      \* whose the file of each name is
    container, volume,
    up          \* the container runs

host == <<directory, files, container, volume, up>>

DeploymentFiles == {"compose", "override", "env"}

FileNames == DeploymentFiles \cup {"marker", "other"}

NoFiles == [f \in FileNames |-> None]

ComposeSteps == {"mkdir", "compose", "override", "env", "marker", "up",
                 "down", "erase", "wipe", "rmdir", "confirm"}

HostTypeOK ==
    /\ directory \in BOOLEAN /\ up \in BOOLEAN
    /\ files \in [FileNames -> Owners \cup {None}] /\ files.other \in {None, Foreign}
    /\ container \in Owners \cup {None}
    /\ volume \in Owners \cup {None}

\* What has the names may be there already: preflight was some time ago.
HostInit ==
    /\ up = FALSE
    /\ \/ directory = FALSE /\ files = NoFiles
       \/ /\ Compose /\ directory = TRUE
          /\ files \in {NoFiles} \cup { [NoFiles EXCEPT ![f] = Foreign] : f \in {"compose", "other"} }
    /\ container \in IF Compose THEN {None, Foreign} ELSE {None}
    /\ volume \in IF Compose THEN {None, Foreign} ELSE {None}

-----------------------------------------------------------------------------
(* Apply of an install.                                                    *)

\* remoteBoundaryAvailable looks for the project's label: what has the names
\* without it is not seen.
BoundaryAvailable ==
    ~directory /\ container \notin Deployments /\ volume \notin Deployments

ComposeCheck(d) ==
    /\ Compose /\ call[d] = "check"
    /\ \/ BoundaryAvailable /\ Go(d, "mkdir")
       \/ (~BoundaryAvailable \/ "fails" \in Faults) /\ Fail(d)
    /\ UNCHANGED host

MakeDirectory(d) ==
    /\ call[d] = "mkdir"
    /\ Request(~directory,
               directory' = TRUE /\ UNCHANGED <<files, container, volume, up>>,
               UNCHANGED host, Go(d, "compose"), Fail(d))

\* Mutant: the marker is written before the files it is about.
MutAfter == [compose |-> "marker", marker |-> "override", override |-> "env", env |-> "up"]

\* What is done once a file is written: the marker comes last.
After == [compose |-> "override", override |-> "env", env |-> "marker", marker |-> "up"]

\* Mutant: the marker gets a name that recovery does not look for.
MutWriteFile(d) ==
    /\ call[d] \in DOMAIN After
    /\ LET name == IF call[d] = "marker" THEN "other" ELSE call[d] IN
       Request(directory,
               files' = [files EXCEPT ![name] = d] /\ UNCHANGED <<directory, container, volume, up>>,
               UNCHANGED host, Go(d, After[call[d]]), Fail(d))

WriteFile(d) ==
    /\ call[d] \in DOMAIN After
    /\ Request(directory,
               files' = [files EXCEPT ![call[d]] = d] /\ UNCHANGED <<directory, container, volume, up>>,
               UNCHANGED host, Go(d, After[call[d]]), Fail(d))

FilesOf(d) == \A f \in DeploymentFiles : files[f] = d

\* The labels are those of the override file; a volume of that name is used
\* whoever made it.
CreateVolume == volume' = IF volume = None THEN files.override ELSE volume

\* `compose up' may stop when it has made the volume or the container.
ComposeUp(d) ==
    /\ call[d] = "up"
    /\ LET complete == \A f \in DeploymentFiles : files[f] # None IN
       \/ Request(complete /\ container # Foreign,
                  /\ CreateVolume /\ container' = files.override /\ up' = TRUE
                  /\ UNCHANGED <<directory, files>>,
                  UNCHANGED host, Succeed(d), Fail(d))
       \/ /\ complete /\ (container = Foreign \/ "fails" \in Faults)
          /\ CreateVolume
          /\ container' \in {container, IF container = None THEN files.override ELSE container}
          /\ UNCHANGED <<directory, files, up>>
          /\ Fail(d)

Deployed(d) ==
    /\ files.marker = d /\ FilesOf(d)
    /\ container = d /\ up /\ volume = d

ComposeVerify(d) ==
    /\ Compose /\ call[d] = "verify"
    /\ \/ Deployed(d) /\ Go(d, "commit")
       \/ (~Deployed(d) \/ "fails" \in Faults) /\ Fail(d)
    /\ UNCHANGED host

-----------------------------------------------------------------------------
(* Removal of what the marker says is owned: cleanupOwnedRemote.           *)

\* Mutant: the labels of what `compose down' will remove are not looked at.
MutCleanupAllowed(d) == files.marker = d /\ FilesOf(d)

CleanupAllowed(d) ==
    /\ files.marker = d /\ FilesOf(d)
    /\ container \in {None, d} /\ volume \in {None, d}

\* Neither the server's container nor its volume is there, whoever owns them.
NoResources == container = None /\ volume = None

\* Any error of `cat' reads as a marker that is not there.
MarkerUnavailable == files.marker = None \/ "misread" \in Faults

\* `compose down --volumes' removes the project's container and the volume of
\* that name; it may stop when it has removed the container.
ComposeDown(d) ==
    /\ call[d] = "down"
    /\ \/ Request(TRUE,
                  /\ container' = (IF container = Foreign THEN Foreign ELSE None)
                  /\ volume' = None /\ up' = FALSE
                  /\ UNCHANGED <<directory, files>>,
                  UNCHANGED host, Go(d, "erase"), Fail(d))
       \/ /\ "fails" \in Faults
          /\ container' = (IF container = Foreign THEN Foreign ELSE None) /\ up' = FALSE
          /\ UNCHANGED <<directory, files, volume>>
          /\ Fail(d)

\* Remove the files of those names, then the directory if it is empty.
Discard(names) ==
    LET left == [f \in FileNames |-> IF f \in names THEN None ELSE files[f]] IN
    /\ files' = left
    /\ directory' = (directory /\ left # NoFiles)
    /\ UNCHANGED <<container, volume, up>>

\* Only WSL's uninstall repeats its clean-up.
Removed(d) ==
    IF target = "wsl" /\ op[d] = [kind |-> "uninstall", phase |-> "staged"]
      THEN Go(d, "confirm") ELSE Succeed(d)

\* One command removes files and directory; it fails when something is left.
Command(d, names, done) ==
    LET all == directory => \A f \in FileNames \ names : files[f] = None IN
    \/ all /\ Request(TRUE, Discard(names), UNCHANGED host, done, Fail(d))
    \/ ~all /\ Discard(names) /\ Fail(d)

Erase(d) == call[d] = "erase" /\ Command(d, FileNames \ {"other"}, Removed(d))

-----------------------------------------------------------------------------
(* Recover of an install.                                                  *)

\* Without a marker the known files are removed if the project has nothing, as
\* the failed-install cleanup of v0.1.0-rc.8 has it, and ADR-0005 does not.
ComposeUndo(d) ==
    /\ Compose /\ call[d] = "undo"
    /\ \/ CleanupAllowed(d) /\ Go(d, "down")
       \/ MarkerUnavailable /\ NoResources /\ Go(d, "wipe")
       \/ ~CleanupAllowed(d) /\ ~(files.marker = None /\ NoResources) /\ Fail(d)
       \/ "fails" \in Faults /\ Fail(d)
    /\ UNCHANGED host

\* Mutant: the exit status of the removal is not looked at.
MutWipe(d) ==
    /\ call[d] = "wipe"
    /\ Request(TRUE, Discard(DeploymentFiles), UNCHANGED host, Succeed(d), Succeed(d))

Wipe(d) == call[d] = "wipe" /\ Command(d, DeploymentFiles, Succeed(d))

-----------------------------------------------------------------------------
(* Apply and Recover of an uninstall.                                      *)

RemoteRemove(d) ==
    /\ target = "remote" /\ call[d] = "remove"
    /\ \/ CleanupAllowed(d) /\ Go(d, "down")
       \/ (~CleanupAllowed(d) \/ Faults \cap {"fails", "misread"} # {}) /\ Fail(d)
    /\ UNCHANGED host

\* CleanupRemnant: without a marker only an empty directory is removed.
WslRemove(d) ==
    /\ target = "wsl" /\ call[d] = "remove"
    /\ \/ CleanupAllowed(d) /\ Go(d, "down")
       \/ MarkerUnavailable /\ NoResources /\ Go(d, "rmdir")
       \/ ~CleanupAllowed(d) /\ ~(files.marker = None /\ NoResources) /\ Fail(d)
       \/ Faults \cap {"fails", "misread"} # {} /\ Fail(d)
    /\ UNCHANGED host

RemoveDirectory(d) ==
    /\ call[d] = "rmdir"
    /\ \/ files = NoFiles /\ Command(d, {}, Removed(d))
       \/ files # NoFiles /\ UNCHANGED host /\ Fail(d)

\* The second pass finds nothing to do.
ConfirmRemoved(d) ==
    /\ call[d] = "confirm"
    /\ LET gone == ~directory /\ NoResources IN
       \/ gone /\ Succeed(d)
       \/ (~gone \/ "fails" \in Faults) /\ Fail(d)
    /\ UNCHANGED host

\* cleanupTargetRemnant: the operator has a directory that preflight found in
\* the way removed as an uninstall would, without an operation or a lock.
CleanupTargetRemnant(d) ==
    /\ target = "wsl" /\ op[d] = NoOp /\ ~installed[d] /\ MayCall(d) /\ directory
    /\ Go(d, "remove")
    /\ UNCHANGED host

ComposeStep(d) ==
    \/ ComposeCheck(d) \/ MakeDirectory(d) \/ WriteFile(d) \/ ComposeUp(d) \/ ComposeVerify(d)
    \/ ComposeUndo(d) \/ Wipe(d) \/ ComposeDown(d) \/ Erase(d)
    \/ RemoteRemove(d) \/ WslRemove(d) \/ RemoveDirectory(d) \/ ConfirmRemoved(d)

-----------------------------------------------------------------------------
(* Others on the host.                                                     *)

\* The operator changes a file, or adds one, while nothing is done to it.
OperatorEdits(d) ==
    /\ Compose /\ installed[d] /\ op[d] = NoOp
    /\ \E f \in {"env", "other"} : files' = [files EXCEPT ![f] = Foreign]
    /\ UNCHANGED <<directory, container, volume, up, operation>>

\* What is there, by owner.
HostOwners == {container, volume} \cup { files[f] : f \in FileNames }

\* Strangers take away what is theirs; an edited file is put back.
HostStrangersLeave ==
    /\ Foreign \in HostOwners
    /\ container' = IF container = Foreign THEN None ELSE container
    /\ volume' = IF volume = Foreign THEN None ELSE volume
    /\ files' = [f \in FileNames |-> IF files[f] # Foreign THEN files[f]
                                     ELSE IF f = "env" THEN files.marker ELSE None]
    /\ directory' = (directory /\ (files' = files \/ files' # NoFiles))
    /\ UNCHANGED <<up, operation>>

\* The first check of the recovery of d's operation accepts what it finds.
HostAccepts(d) ==
    \/ CleanupAllowed(d)
    \/ /\ files.marker = None /\ NoResources
       /\ \/ op[d].kind = "install"
          \/ target = "wsl" /\ files = NoFiles

\* A removal took the marker and was not answered; or the marker was misread
\* as missing, and the files were removed and not the marker.
HostEvidenceLost(d) ==
    \/ target = "remote" /\ op[d].kind = "uninstall" /\ files = NoFiles /\ NoResources
    \/ files = [NoFiles EXCEPT !.marker = d]
=============================================================================
