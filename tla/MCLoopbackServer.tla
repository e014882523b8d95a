-------------------------- MODULE MCLoopbackServer --------------------------
(***************************************************************************)
(* One release and two targets that share a bundle family.  Local Docker   *)
(* has operations of every kind; WSL is prepared and installed beside it.  *)
(***************************************************************************)
EXTENDS LoopbackServer, TLC

MCPlans == [target : {"local-compose", "local-wsl-compose"}, artifact : {"x"}]

LocalKinds == {"verify", "preflight", "install", "change", "uninstall", "recover"}

WslKinds == {"verify", "stage", "prerequisites", "cleanup", "install"}

MCAsked ==
    { a \in [kind : Kinds, plan : MCPlans] :
          a.kind \in IF a.plan.target = "local-compose" THEN LocalKinds ELSE WslKinds }

\* One deployment, managed by one operator.
MCManaged == { a \in [kind : LocalKinds, plan : MCPlans] : a.plan.target = "local-compose" }

\* What a later step can tell: of an operation that has ended, what the
\* inventory will say once it is recorded; of a staging directory that is not
\* whole, not for whom it was staged; of an image that is not good, no more.
Observable ==
    <<req, installed, archive, image = "good", stager, session,
      [t \in Targets |-> IF Ended(t) THEN Recorded(t) ELSE op[t]],
      [a \in Artifacts |-> IF staged[a].files = "whole" THEN staged[a] ELSE staged[a].files]>>

\* Goroutines are told apart by nothing.
Symmetry == Permutations(Requests)
=============================================================================
