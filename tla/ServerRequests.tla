--------------------------- MODULE ServerRequests ---------------------------
(***************************************************************************)
(* The requests that one run of Ranch Hand answers at a time, each in a    *)
(* goroutine of its own, and the operations they begin.  Of the lifecycle  *)
(* store and the coordinator only what the handlers of the loopback server *)
(* can tell apart is left: LifecycleStore and Coordinator have the rest.   *)
(***************************************************************************)
CONSTANTS
    Requests,
    Plans,      \* [target : deployment plan target, artifact : its digest]
    Asked,      \* [kind, plan]: what is asked for
    None

Targets == { p.target : p \in Plans }

Artifacts == { p.artifact : p \in Plans }

\* "change": an update, restore, rollback or repair, and a backup up to its
\* beginning.
Changes == {"install", "change", "uninstall"}

Kinds == Changes \cup {"verify", "stage", "preflight", "prerequisites", "cleanup", "recover"}

ASSUME RequestsAssumption ==
    /\ Plans \subseteq [target : Targets, artifact : Artifacts]
    /\ Asked \subseteq [kind : Kinds, plan : Plans]
    /\ None \notin Targets \cup Artifacts \cup Requests

VARIABLES
    req,        \* by goroutine: what it answers and the next thing it does
    op,         \* by target: the operation of active.lock
    installed   \* the targets with an active installation.json

lifecycle == <<op, installed>>

Steps == {"lookup", "unlink", "place", "record",
          "stage", "compare", "extract",
          "identity", "image", "purge", "fetch", "load",
          "probe", "annotate", "remnant",
          "begin", "remove", "apply", "verify", "recover", "project", "unlock"}

Activities == [kind : Kinds, plan : Plans, at : Steps]

Outcomes == {"committed", "recovered", "failed"}

\* "prepared": not staged yet; "applying": staged and not ended.
Operations == [kind : Changes, phase : {"prepared", "applying"} \cup Outcomes]

ASSUME SentinelAssumption == None \notin Activities \cup Operations

RequestTypeOK ==
    /\ req \in [Requests -> Activities \cup {None}]
    /\ op \in [Targets -> Operations \cup {None}]
    /\ installed \subseteq Targets

RequestInit ==
    /\ req = [r \in Requests |-> None]
    /\ op = [t \in Targets |-> None]
    /\ installed = {}

-----------------------------------------------------------------------------
At(r, step) == req[r] # None /\ req[r].at = step

Target(r) == req[r].plan.target

Artifact(r) == req[r].plan.artifact

Ask(r, k, p, step) ==
    /\ req[r] = None /\ [kind |-> k, plan |-> p] \in Asked
    /\ req' = [req EXCEPT ![r] = [kind |-> k, plan |-> p, at |-> step]]

Goto(r, step) == req' = [req EXCEPT ![r].at = step]

Answer(r) == req' = [req EXCEPT ![r] = None]

Ended(t) == op[t] # None /\ op[t].phase \in Outcomes

\* What installation.json says once the journal of an ended operation has been
\* projected onto it.
Recorded(t) ==
    LET o == op[t] IN
    IF o.kind = "install" /\ o.phase = "committed" THEN installed \cup {t}
    ELSE IF o.kind = "uninstall" /\ o.phase \in {"committed", "recovered"} THEN installed \ {t}
    ELSE installed

\* The store's mutex is held from the terminal journal to the removal of the
\* lock.
StoreFree == \A r \in Requests : ~At(r, "project") /\ ~At(r, "unlock")

\* The terminal journal is written; the record and the lock come after it.
End(r, outcome) ==
    /\ op' = [op EXCEPT ![Target(r)].phase = outcome]
    /\ Goto(r, "project")
    /\ UNCHANGED installed

\* The lock stays when the record cannot be written,
Project(r) ==
    /\ At(r, "project")
    /\ \/ installed' = Recorded(Target(r)) /\ Goto(r, "unlock")
       \/ Answer(r) /\ UNCHANGED installed
    /\ UNCHANGED op

\* or when it cannot be removed.
Unlock(r) ==
    /\ At(r, "unlock")
    /\ op' \in {op, [op EXCEPT ![Target(r)] = None]}
    /\ Answer(r)
    /\ UNCHANGED installed

\* Recover of the adapter fails, or the terminal journal cannot be written, and
\* the operation stays as it is; or what an install made, or an uninstall left,
\* is gone.
RecoverTarget(r) ==
    \/ Answer(r) /\ UNCHANGED lifecycle
    \/ End(r, "recovered")

\* An operation that has not been staged is closed, unless that cannot be
\* written; one that has is recovered; any other request is answered with the
\* error.
Error(r) ==
    IF req[r].kind \notin Changes THEN Answer(r) /\ UNCHANGED lifecycle
    ELSE IF op[Target(r)].phase = "prepared"
      THEN (Answer(r) /\ UNCHANGED lifecycle) \/ End(r, "failed")
    ELSE RecoverTarget(r)

\* Mutant: the installation record is not looked at.
MutBegin(r) ==
    /\ At(r, "begin") /\ StoreFree
    /\ LET t == Target(r) IN
       \/ Answer(r) /\ UNCHANGED lifecycle
       \/ /\ op[t] = None \/ Ended(t)
          /\ installed' = IF Ended(t) THEN Recorded(t) ELSE installed
          /\ op' = [op EXCEPT ![t] = [kind |-> req[r].kind, phase |-> "prepared"]]
          /\ Goto(r, IF req[r].kind = "uninstall" THEN "remove" ELSE "stage")

\* Begin refuses a deployment with an open operation.  It records what one that
\* has ended owes to the inventory, removes its lock and takes it, unless the
\* inventory is not one for such a request; a write may fail at each of these.
Begin(r) ==
    /\ At(r, "begin") /\ StoreFree
    /\ LET t == Target(r)
           recorded == IF Ended(t) THEN Recorded(t) ELSE installed IN
       \/ Answer(r) /\ UNCHANGED lifecycle
       \/ /\ op[t] = None \/ Ended(t)
          /\ installed' = recorded
          /\ \/ Answer(r) /\ op' \in {op, [op EXCEPT ![t] = None]}
             \/ /\ req[r].kind = "install" <=> t \notin recorded
                /\ op' = [op EXCEPT ![t] = [kind |-> req[r].kind, phase |-> "prepared"]]
                /\ Goto(r, IF req[r].kind = "uninstall" THEN "remove" ELSE "stage")

\* From here on a failure is one of a target that may have been changed.
Staged(r, next) ==
    /\ op' = [op EXCEPT ![Target(r)].phase = "applying"]
    /\ Goto(r, next)
    /\ UNCHANGED installed

Remove(r) == At(r, "remove") /\ Staged(r, "verify")

\* What is left of Apply, Verify, and the commit.
Verify(r) ==
    /\ At(r, "verify") /\ StoreFree
    /\ Error(r) \/ End(r, "committed")

\* RecoverActive closes what was not staged without calling the adapter, and
\* refuses what has ended.
Recover(r) ==
    /\ At(r, "recover") /\ StoreFree
    /\ LET o == op[Target(r)] IN
       \/ Answer(r) /\ UNCHANGED lifecycle
       \/ o # None /\ o.phase = "prepared" /\ End(r, "failed")
       \/ o # None /\ o.phase = "applying" /\ RecoverTarget(r)

OperationStep(r) ==
    \/ Begin(r) \/ Remove(r) \/ Verify(r) \/ Recover(r)
    \/ Project(r) \/ Unlock(r)
=============================================================================
