--------------------------- MODULE AdapterContract ---------------------------
(***************************************************************************)
(* What the coordinator relies on in an adapter (operations.Mutator),      *)
(* without containers, names, requests or faults: what is deployed, and    *)
(* what is set aside for recovery, while Backup, Apply, Verify and Recover *)
(* work on it.  A deployment is a version with what its application has    *)
(* written, which only ever grows while it is served or set aside.         *)
(***************************************************************************)
EXTENDS Naturals

CONSTANTS Versions, NoVersion, Contents, Empty

VARIABLES
    stage,      \* idle, untouched, changing, delivered or undoing
    installed,  \* the version the inventory says, NoVersion when there is none
    goal,       \* the version asked for, NoVersion for a removal
    served,     \* what is deployed; nothing is promised while it changes
    spare       \* what is set aside until the change is committed or undone

vars == <<stage, installed, goal, served, spare>>

Nothing == [version |-> NoVersion, content |-> Empty]

Deployments == [version : Versions, content : Contents \ {Empty}]

Init ==
    /\ stage = "idle"
    /\ installed = NoVersion /\ goal = NoVersion
    /\ served = Nothing /\ spare = Nothing

\* An operation begins, and may take a backup.
Begin ==
    /\ stage = "idle" /\ stage' = "untouched"
    /\ goal' \in Versions
    /\ UNCHANGED <<installed, served, spare>>

\* It ends before anything was changed.
Withdraw ==
    /\ stage = "untouched" /\ stage' = "idle"
    /\ goal' = NoVersion
    /\ UNCHANGED <<installed, served, spare>>

\* Apply may change the target, and sets what it replaces aside.
Stage ==
    /\ stage = "untouched" /\ stage' = "changing"
    /\ served' = Nothing /\ spare' = served
    /\ UNCHANGED <<installed, goal>>

\* A removal is staged as it begins, and sets nothing aside.
BeginRemoval ==
    /\ stage = "idle" /\ stage' = "changing"
    /\ goal' = NoVersion
    /\ served' = Nothing
    /\ UNCHANGED <<installed, spare>>

\* Apply succeeds.
Deliver ==
    /\ stage = "changing" /\ stage' = "delivered"
    /\ served' \in { d \in Deployments \cup {Nothing} : d.version = goal }
    /\ UNCHANGED <<installed, goal, spare>>

Commit ==
    /\ stage = "delivered" /\ stage' = "idle"
    /\ installed' = goal /\ goal' = NoVersion
    /\ spare' = Nothing
    /\ UNCHANGED served

\* Apply or Verify fails, or is interrupted.
Undo ==
    /\ stage \in {"changing", "delivered"} /\ stage' = "undoing"
    /\ served' = Nothing
    /\ UNCHANGED <<installed, goal, spare>>

\* Recover succeeds: what was set aside is served again, with its data.
Restore ==
    /\ stage = "undoing" /\ stage' = "idle"
    /\ served' = spare /\ spare' = Nothing
    /\ installed' = spare.version /\ goal' = NoVersion

\* The application of d writes.
Grows(d, after) ==
    /\ d \in Deployments /\ after \in Deployments
    /\ after.version = d.version /\ after.content > d.content

\* What is set aside serves until Apply stops it, and after it is restored.
Write ==
    /\ \/ Grows(served, served') /\ UNCHANGED spare
       \/ stage \in {"changing", "undoing"} /\ Grows(spare, spare') /\ UNCHANGED served
    /\ UNCHANGED <<stage, installed, goal>>

Next ==
    \/ Begin \/ Withdraw \/ Stage \/ BeginRemoval \/ Deliver \/ Commit
    \/ Undo \/ Restore \/ Write

Spec == Init /\ [][Next]_vars
=============================================================================
