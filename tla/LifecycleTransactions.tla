------------------------ MODULE LifecycleTransactions ------------------------
(***************************************************************************)
(* What the lifecycle store promises of one deployment, without files,     *)
(* phases or locks: transactions run one at a time, each starts from the   *)
(* version that is installed, and the inventory changes exactly once per   *)
(* successful transaction, before the next one can start.                  *)
(***************************************************************************)
CONSTANTS Ops, Versions, NoVersion, NoTransaction

VARIABLES
    transaction,  \* the transaction that owns the deployment
    status,       \* started, running, pending (its effect is owed) or done
    installed     \* the installed version, NoVersion when there is none

vars == <<transaction, status, installed>>

Kinds == {"install", "update", "backup", "restore", "repair", "rollback",
          "uninstall"}

Transactions == [op : Ops, kind : Kinds,
                 from : Versions \cup {NoVersion}, to : Versions]

Init ==
    /\ transaction = NoTransaction
    /\ status = "done"
    /\ installed = NoVersion

\* A transaction starts from what is installed: nothing, for an install.
Start(t) ==
    /\ transaction = NoTransaction
    /\ (t.kind = "install") <=> (t.from = NoVersion)
    /\ t.from = installed
    /\ transaction' = t
    /\ status' = "started"
    /\ UNCHANGED installed

Run ==
    /\ status = "started"
    /\ status' = "running"
    /\ UNCHANGED <<transaction, installed>>

\* It ends: nothing is owed, or the inventory owes it its effect.
End ==
    /\ \/ status \in {"started", "running"} /\ status' = "done"
       \/ status = "running" /\ transaction.kind # "backup" /\ status' = "pending"
    /\ UNCHANGED <<transaction, installed>>

Settle ==
    /\ status = "pending"
    /\ status' = "done"
    /\ installed' = IF transaction.kind = "uninstall" THEN NoVersion
                                                      ELSE transaction.to
    /\ UNCHANGED transaction

\* The deployment is released, by a transaction that ended or that was given
\* up before it ran.
Release ==
    /\ transaction # NoTransaction
    /\ status \in {"done", "started"}
    /\ transaction' = NoTransaction
    /\ status' = "done"
    /\ UNCHANGED installed

Next == (\E t \in Transactions : Start(t)) \/ Run \/ End \/ Settle \/ Release

Spec == Init /\ [][Next]_vars
=============================================================================
