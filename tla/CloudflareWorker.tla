-------------------------- MODULE CloudflareWorker --------------------------
(***************************************************************************)
(* The Cloudflare adapter: a D1 database with the ownership marker in it,  *)
(* and the Worker that is bound to it.                                     *)
(***************************************************************************)
EXTENDS TargetOperation

VARIABLES
    database,   \* who created the database
    marked,     \* whose ownership marker is in it
    worker,     \* whose database the Worker is bound to
    exposed     \* its schedules and its workers.dev address are configured

account == <<database, marked, worker, exposed>>

CloudflareSteps == {"database", "mark", "migrate", "worker", "expose",
                    "find-worker", "delete-worker", "delete-database", "no-worker"}

AccountTypeOK ==
    /\ database \in Owners \cup {None}
    /\ marked \in Deployments \cup {None}
    /\ worker \in Owners \cup {None}
    /\ exposed \in BOOLEAN

AccountInit ==
    /\ database \in IF target = "cloudflare" THEN {None, Foreign} ELSE {None}
    /\ marked = None
    /\ worker \in IF target = "cloudflare" THEN {None, Foreign} ELSE {None}
    /\ exposed = FALSE

-----------------------------------------------------------------------------
(* Apply of an install.                                                    *)

NamesAvailable == worker = None /\ database = None

NamesCheck(d) ==
    /\ target = "cloudflare" /\ call[d] = "check"
    /\ \/ NamesAvailable /\ Go(d, "database")
       \/ (~NamesAvailable \/ "fails" \in Faults) /\ Fail(d)
    /\ UNCHANGED account

CreateDatabase(d) ==
    /\ call[d] = "database"
    /\ Request(database = None, database' = d /\ UNCHANGED <<marked, worker, exposed>>,
               UNCHANGED account, Go(d, "mark"), Fail(d))

\* Mutant: no ownership marker is written.
MutWriteOwnershipMarker(d) ==
    /\ call[d] = "mark"
    /\ UNCHANGED account /\ Go(d, "migrate")

WriteOwnershipMarker(d) ==
    /\ call[d] = "mark"
    /\ Request(database # None, marked' = d /\ UNCHANGED <<database, worker, exposed>>,
               UNCHANGED account, Go(d, "migrate"), Fail(d))

\* The migrations, and the upload of the assets.
Migrate(d) ==
    /\ call[d] = "migrate"
    /\ Request(database # None, UNCHANGED account, UNCHANGED account, Go(d, "worker"), Fail(d))

\* A PUT uploads the Worker with its bindings in place of one that is there.
UploadWorker(d) ==
    /\ call[d] = "worker"
    /\ Request(database # None, worker' = d /\ exposed' = FALSE /\ UNCHANGED <<database, marked>>,
               UNCHANGED account, Go(d, "expose"), Fail(d))

Expose(d) ==
    /\ call[d] = "expose"
    /\ Request(worker # None, exposed' = TRUE /\ UNCHANGED <<database, marked, worker>>,
               UNCHANGED account, Succeed(d), Fail(d))

WorkerDeployed(d) == database = d /\ marked = d /\ worker = d /\ exposed

CloudflareVerify(d) ==
    /\ target = "cloudflare" /\ call[d] = "verify"
    /\ \/ WorkerDeployed(d) /\ Go(d, "commit")
       \/ (~WorkerDeployed(d) \/ "fails" \in Faults) /\ Fail(d)
    /\ UNCHANGED account

-----------------------------------------------------------------------------
(* Recover of an install; Apply and Recover of an uninstall.               *)

\* Mutant: an uninstall insists on the database.
MutFindDatabase(d) ==
    /\ target = "cloudflare" /\ call[d] \in {"undo", "remove"}
    /\ \/ database = None /\ call[d] = "undo" /\ Succeed(d)
       \/ marked = d /\ Go(d, "find-worker")
       \/ marked # d /\ (call[d] = "remove" \/ database # None) /\ Fail(d)
       \/ "fails" \in Faults /\ Fail(d)
    /\ UNCHANGED account

\* Without a database an uninstall still looks for the Worker.
FindDatabase(d) ==
    /\ target = "cloudflare" /\ call[d] \in {"undo", "remove"}
    /\ \/ database = None /\ IF call[d] = "undo" THEN Succeed(d) ELSE Go(d, "no-worker")
       \/ marked = d /\ Go(d, "find-worker")
       \/ ((database # None /\ marked # d) \/ "fails" \in Faults) /\ Fail(d)
    /\ UNCHANGED account

NoWorker(d) ==
    /\ call[d] = "no-worker"
    /\ \/ worker = None /\ Succeed(d)
       \/ (worker # None \/ "fails" \in Faults) /\ Fail(d)
    /\ UNCHANGED account

\* The Worker must be bound to the database that has the marker.
FindWorker(d) ==
    /\ call[d] = "find-worker"
    /\ \/ worker = None /\ Go(d, "delete-database")
       \/ worker = d /\ Go(d, "delete-worker")
       \/ (worker \in Owners \ {d} \/ "fails" \in Faults) /\ Fail(d)
    /\ UNCHANGED account

DeleteWorker(d) ==
    /\ call[d] = "delete-worker"
    /\ Request(worker # None, worker' = None /\ exposed' = FALSE /\ UNCHANGED <<database, marked>>,
               UNCHANGED account, Go(d, "delete-database"), Fail(d))

DeleteDatabase(d) ==
    /\ call[d] = "delete-database"
    /\ Request(database # None, database' = None /\ marked' = None /\ UNCHANGED <<worker, exposed>>,
               UNCHANGED account, Succeed(d), Fail(d))

CloudflareStep(d) ==
    \/ NamesCheck(d) \/ CreateDatabase(d) \/ WriteOwnershipMarker(d) \/ Migrate(d)
    \/ UploadWorker(d) \/ Expose(d) \/ CloudflareVerify(d)
    \/ FindDatabase(d) \/ NoWorker(d) \/ FindWorker(d) \/ DeleteWorker(d) \/ DeleteDatabase(d)

AccountStrangersLeave ==
    /\ Foreign \in {database, worker}
    /\ database' = IF database = Foreign THEN None ELSE database
    /\ worker' = IF worker = Foreign THEN None ELSE worker
    /\ UNCHANGED <<marked, exposed, operation>>
=============================================================================
