-------------------------- MODULE MCLifecycleStore --------------------------
(* Instances of LifecycleStore for TLC.                                    *)
EXTENDS LifecycleStore

\* What a caller was told has no bearing on what the store does next.
WithoutReplies == <<lock, journal, record, backups, clock, call>>

\* Bounds.  To the store, update, restore, repair and rollback differ only in
\* whether they name an input backup: update and restore stand for all four,
\* with the versions the server lets through.  The clock moves on once the
\* first operation has ended, so that times are told apart between two
\* operations and within the second.
Bounds ==
    /\ \A o \in Ops : journal[o] # NoJournal =>
          /\ journal[o].kind \notin {"repair", "rollback"}
          /\ journal[o].kind = "update" => journal[o].to # journal[o].from
          /\ journal[o].kind \in {"backup", "restore", "uninstall"} =>
                journal[o].to = journal[o].from
    /\ clock > 0 => record # NoRecord
=============================================================================
