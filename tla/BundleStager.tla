---------------------------- MODULE BundleStager ----------------------------
(***************************************************************************)
(* The staging directories, one by artifact and target family: the targets *)
(* of Compose share theirs.  Stage holds a mutex; the adapter that is      *)
(* handed the path reads it later without one.                             *)
(***************************************************************************)
EXTENDS ReleaseCache

VARIABLES
    staged,     \* by artifact: the target of the stage manifest and the files
    stager      \* the request that holds the mutex

stages == <<staged, stager>>

NotStaged == [for |-> None, files |-> "none"]

StageTypeOK ==
    /\ staged \in [Artifacts -> [for : Targets \cup {None}, files : {"none", "part", "whole", "changed"}]]
    /\ stager # None => stager \in Requests /\ (At(stager, "compare") \/ At(stager, "extract"))

StageInit == staged = [a \in Artifacts |-> NotStaged] /\ stager = None

\* A request has its bundle: a request to stage one is answered.
Handed(r) ==
    CASE req[r].kind = "stage"     -> Answer(r) /\ UNCHANGED lifecycle
      [] req[r].kind = "preflight" -> Goto(r, "probe") /\ UNCHANGED lifecycle
      [] OTHER                     -> Staged(r, "identity")

\* The archive is hashed again first.
Stage(r) ==
    /\ At(r, "stage") /\ stager = None /\ StoreFree
    /\ IF archive[Artifact(r)] = "good"
         THEN stager' = r /\ Goto(r, "compare") /\ UNCHANGED lifecycle
         ELSE Error(r) /\ UNCHANGED stager
    /\ UNCHANGED <<staged, cache>>

\* Mutant: the stage manifest is taken for the files.
MutReusable(r) == staged[Artifact(r)].files # "none" /\ staged[Artifact(r)].for = Target(r)

\* verifyStaged: the manifest is one for this target, and the files are those
\* of the archive.
Reusable(r) == staged[Artifact(r)] = [for |-> Target(r), files |-> "whole"]

\* Mutant: the mutex is not released when the archive cannot be opened.
MutCompare(r) ==
    /\ At(r, "compare") /\ StoreFree
    /\ IF archive[Artifact(r)] = "none"
         THEN Error(r) /\ UNCHANGED stages
       ELSE IF Reusable(r) THEN Handed(r) /\ stager' = None /\ UNCHANGED staged
       ELSE /\ staged' = [staged EXCEPT ![Artifact(r)].files = IF @ = "none" THEN "none" ELSE "part"]
            /\ Goto(r, "extract")
            /\ UNCHANGED <<stager, lifecycle>>
    /\ UNCHANGED cache

\* What cannot be reused is removed, file by file.
Compare(r) ==
    /\ At(r, "compare") /\ StoreFree
    /\ IF archive[Artifact(r)] = "none"
         THEN Error(r) /\ stager' = None /\ UNCHANGED staged
       ELSE IF Reusable(r) THEN Handed(r) /\ stager' = None /\ UNCHANGED staged
       ELSE /\ staged' = [staged EXCEPT ![Artifact(r)].files = IF @ = "none" THEN "none" ELSE "part"]
            /\ Goto(r, "extract")
            /\ UNCHANGED <<stager, lifecycle>>
    /\ UNCHANGED cache

Extract(r) ==
    /\ At(r, "extract") /\ StoreFree
    /\ \/ /\ archive[Artifact(r)] # "none"
          /\ staged' = [staged EXCEPT ![Artifact(r)] = [for |-> Target(r), files |-> "whole"]]
          /\ Handed(r)
       \/ /\ staged' = [staged EXCEPT ![Artifact(r)] = NotStaged]
          /\ Error(r)
    /\ stager' = None
    /\ UNCHANGED cache

\* The files of the bundle are opened one by one: of a directory that is being
\* removed some may still be there.
ReadFiles(r, next) ==
    /\ \/ staged[Artifact(r)].files # "none" /\ Goto(r, next) /\ UNCHANGED lifecycle
       \/ staged[Artifact(r)].files # "whole" /\ StoreFree /\ Error(r)
    /\ UNCHANGED <<cache, stages>>

ReadIdentity(r) == At(r, "identity") /\ ReadFiles(r, "image")

\* A remote Apply reads its bundle again when it has the image, whoever has
\* staged meanwhile.
ReadBundle(r) == At(r, "apply") /\ ReadFiles(r, "verify")

StagerStep(r) == Stage(r) \/ Compare(r) \/ Extract(r) \/ ReadIdentity(r) \/ ReadBundle(r)
=============================================================================
