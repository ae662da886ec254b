----------------------- MODULE SandboxPoolRefinement -----------------------
(* How the pool implements SandboxLease: a Run is a user of the sandbox it  *)
(* has checked out, and a sandbox is closed once its real cleanup ran.      *)
EXTENDS SandboxPool

leaseUser == [s \in Sandboxes |-> {r \in Runs : Using(r, s)}]

leaseState == [s \in Sandboxes |-> IF s \notin built THEN "new"
                                   ELSE IF cleanups[s] = 0 THEN "open" ELSE "closed"]

Lease == INSTANCE SandboxLease WITH user <- leaseUser, state <- leaseState

\* Every pool step is a step of the abstract lease or changes nothing of it:
\* one Run inside a sandbox at a time, one teardown, never under a Run.
ImplementsLease == Lease!Spec
=============================================================================
