---------------------------- MODULE ReleaseCache ----------------------------
(***************************************************************************)
(* The application cache: the release service that verifies a release into *)
(* it, and the companion image archive that an Apply takes from it.  Both  *)
(* replace a file by removing it and renaming a verified one into place,   *)
(* and neither has a lock.                                                 *)
(***************************************************************************)
EXTENDS ServerRequests

VARIABLES
    archive,    \* by artifact: the release archive at its path
    image       \* the companion image archive at its path

cache == <<archive, image>>

Contents == {"none", "good", "bad"}

CacheTypeOK == archive \in [Artifacts -> Contents] /\ image \in Contents

CacheInit == archive = [a \in Artifacts |-> "none"] /\ image = "none"

-----------------------------------------------------------------------------
(* VerifyAndCache: cacheArtifact, then verifySupplyChain.                  *)

Lookup(r) ==
    /\ At(r, "lookup")
    /\ Goto(r, IF archive[Artifact(r)] = "good" THEN "record" ELSE "unlink")
    /\ UNCHANGED <<lifecycle, cache>>

\* The download is there, or it is not, and what it was to replace stays.
Unlink(r) ==
    /\ At(r, "unlink")
    /\ \/ archive' = [archive EXCEPT ![Artifact(r)] = "none"] /\ Goto(r, "place")
       \/ Answer(r) /\ UNCHANGED archive
    /\ UNCHANGED <<lifecycle, image>>

Place(r) ==
    /\ At(r, "place")
    /\ archive' = [archive EXCEPT ![Artifact(r)] = "good"]
    /\ Goto(r, "record")
    /\ UNCHANGED <<lifecycle, image>>

-----------------------------------------------------------------------------
(* cacheCompanionImage and resolveCompanionArchive, and the load.          *)

FindImage(r) ==
    /\ At(r, "image")
    /\ Goto(r, IF image = "good" THEN "load" ELSE "purge")
    /\ UNCHANGED <<lifecycle, cache>>

\* What is removed is not looked at again.
PurgeImage(r) ==
    /\ At(r, "purge")
    /\ image' = "none"
    /\ Goto(r, "fetch")
    /\ UNCHANGED <<lifecycle, archive>>

FetchImage(r) ==
    /\ At(r, "fetch")
    /\ \/ image' = "good" /\ Goto(r, "load") /\ UNCHANGED lifecycle
       \/ StoreFree /\ Error(r) /\ UNCHANGED image
    /\ UNCHANGED archive

\* A local Apply needs no more from its bundle, a remote one does.
LoadImage(r) ==
    /\ At(r, "load")
    /\ IF image = "good"
         THEN /\ Goto(r, IF Target(r) = "local-compose" THEN "verify" ELSE "apply")
              /\ UNCHANGED lifecycle
         ELSE StoreFree /\ Error(r)
    /\ UNCHANGED cache

CacheStep(r) ==
    \/ Lookup(r) \/ Unlink(r) \/ Place(r)
    \/ FindImage(r) \/ PurgeImage(r) \/ FetchImage(r) \/ LoadImage(r)
=============================================================================
