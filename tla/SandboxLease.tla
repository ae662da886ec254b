---------------------------- MODULE SandboxLease ----------------------------
(***************************************************************************)
(* What pool.SandboxPool promises about each sandbox, without saying how:  *)
(* it is opened once, leased to one Run at a time, and closed once, never  *)
(* while leased.  The pool is shown to implement this with users read off  *)
(* its Runs (SandboxPoolRefinement).  A lease of a closed sandbox is not   *)
(* excluded: the pool does grant one (see UsedSandboxIsLive there).        *)
(***************************************************************************)
CONSTANTS Runs, Sandboxes

VARIABLES user,     \* sandbox -> set of Runs that are inside it
          state     \* sandbox -> "new", "open" or "closed"

vars == <<user, state>>

Init ==
    /\ user = [s \in Sandboxes |-> {}]
    /\ state = [s \in Sandboxes |-> "new"]

Open(s) ==
    /\ state[s] = "new"
    /\ state' = [state EXCEPT ![s] = "open"]
    /\ UNCHANGED user

Lease(s, r) ==
    /\ state[s] # "new"
    /\ user[s] = {}
    /\ user' = [user EXCEPT ![s] = {r}]
    /\ UNCHANGED state

GiveBack(s, r) ==
    /\ r \in user[s]
    /\ user' = [user EXCEPT ![s] = {}]
    /\ UNCHANGED state

CloseSandbox(s) ==
    /\ state[s] = "open"
    /\ user[s] = {}
    /\ state' = [state EXCEPT ![s] = "closed"]
    /\ UNCHANGED user

Next ==
    \E s \in Sandboxes :
        \/ Open(s) \/ CloseSandbox(s)
        \/ \E r \in Runs : Lease(s, r) \/ GiveBack(s, r)

Spec == Init /\ [][Next]_vars
=============================================================================
