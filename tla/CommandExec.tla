--------------------------- MODULE CommandExec ---------------------------
(***************************************************************************)
(* exec(): one command of a script, from its permission to its result.     *)
(*                                                                         *)
(* Three things race: the child, which may fork helpers that keep its      *)
(* output pipes open; the call's context, which ends by the call's timeout *)
(* or with the Run; and the wait delay that bounds the draining of the     *)
(* pipes.  What os/exec does with them is modelled from its use here.      *)
(***************************************************************************)
EXTENDS Integers

CONSTANT Codes     \* the statuses a command of its own accord exits with

VARIABLES
  pc,        \* where exec() is
  policy,    \* what the policy says of this command
  approver,  \* whether there is someone to ask
  child,     \* the command: none, running, exited, killed
  code,      \* ExitCode() once it has exited; -1 when killed
  helpers,   \* which helpers hold the pipes: in the child's group or out of it
  ctxErr,    \* ctx.Err(): none, Canceled, DeadlineExceeded
  watcher,   \* os/exec's context watcher: off, armed, fired
  delay,     \* the WaitDelay timer: off, running, fired
  err,       \* what Run() is going to return
  result     \* the value of exec()

vars == <<pc, policy, approver, child, code, helpers, ctxErr, watcher, delay, err, result>>
childVars == <<child, code, helpers>>
waitVars == <<watcher, delay, err>>
configVars == <<policy, approver>>

NoResult == [code |-> -1, timedOut |-> FALSE]

Init ==
  /\ pc = "idle"
  /\ policy \in {"allows", "denies", "fails"} /\ approver \in BOOLEAN
  /\ child = "none" /\ code = -1 /\ helpers = {}
  /\ ctxErr = "none" /\ watcher = "off" /\ delay = "off" /\ err = "none"
  /\ result = NoResult

-----------------------------------------------------------------------------
(* authorize. *)
Authorize ==
  /\ pc = "idle"
  /\ pc' = CASE policy = "allows" -> "start"
             [] policy = "denies" /\ approver -> "ask"
             [] OTHER -> "threw"
  /\ UNCHANGED <<configVars, childVars, ctxErr, waitVars, result>>

Answer ==
  /\ pc = "ask"
  /\ pc' \in {"start", "threw"}
  /\ UNCHANGED <<configVars, childVars, ctxErr, waitVars, result>>

(* The command cannot be started, or the context is over already. *)
NotStarted ==
  /\ pc = "start"
  /\ pc' = "done"
  /\ err' = "not started"
  /\ UNCHANGED <<configVars, childVars, ctxErr, watcher, delay, result>>

Start ==
  /\ pc = "start" /\ ctxErr = "none"
  /\ pc' = "wait"
  /\ child' = "running"
  /\ watcher' = "armed"
  /\ UNCHANGED <<configVars, code, helpers, ctxErr, delay, err, result>>

-----------------------------------------------------------------------------
(* The world outside: the command, its helpers, and the context. *)
Forks ==
  /\ child = "running"
  /\ \E h \in {"group", "detached"} \ helpers : helpers' = helpers \cup {h}
  /\ UNCHANGED <<pc, configVars, child, code, ctxErr, waitVars, result>>

HelperEnds ==
  /\ \E h \in helpers : helpers' = helpers \ {h}
  /\ UNCHANGED <<pc, configVars, child, code, ctxErr, waitVars, result>>

Exits ==
  /\ child = "running"
  /\ child' = "exited"
  /\ code' \in Codes
  /\ UNCHANGED <<pc, configVars, helpers, ctxErr, waitVars, result>>

(* The call's own timeout and the Run's deadline end it the same way. *)
TimeoutPasses ==
  /\ pc \in {"start", "wait", "drain", "done"} /\ ctxErr = "none"
  /\ ctxErr' = "DeadlineExceeded"
  /\ UNCHANGED <<pc, configVars, childVars, waitVars, result>>

RunCancelled ==
  /\ pc \in {"start", "wait", "drain", "done"} /\ ctxErr = "none"
  /\ ctxErr' = "Canceled"
  /\ UNCHANGED <<pc, configVars, childVars, waitVars, result>>

-----------------------------------------------------------------------------
(* terminateProcess: the child's whole group, or nothing when it is gone. *)
Terminate ==
  /\ watcher = "armed" /\ pc = "wait" /\ ctxErr # "none"
  /\ watcher' = "fired"
  /\ delay' = "running"
  /\ helpers' = helpers \ {"group"}
  /\ \/ /\ child = "running"
        /\ child' = "killed"
        /\ err' = ctxErr
        /\ UNCHANGED code
     \/ /\ child = "exited"
        /\ err' \in {ctxErr, "none"}
        /\ UNCHANGED <<child, code>>
  /\ UNCHANGED <<pc, configVars, ctxErr, result>>

(* Process.Wait returns; a bad status takes precedence over the watcher's. *)
Reap ==
  /\ pc = "wait" /\ child \in {"exited", "killed"}
  /\ pc' = "drain"
  /\ err' = IF child = "killed" \/ code # 0 THEN "ExitError" ELSE err
  /\ watcher' = "off"
  /\ delay' = IF delay = "off" THEN "running" ELSE delay
  /\ UNCHANGED <<configVars, childVars, ctxErr, result>>

DelayPasses ==
  /\ delay = "running"
  /\ delay' = "fired"
  /\ UNCHANGED <<pc, configVars, childVars, ctxErr, watcher, err, result>>

Drained ==
  /\ pc = "drain" /\ helpers = {}
  /\ pc' = "done"
  /\ UNCHANGED <<configVars, childVars, ctxErr, waitVars, result>>

(* A slip: the pipes are drained to their end, however long it takes. *)
AbandonedNever ==
  /\ pc = "drain" /\ delay = "fired" /\ helpers = {}
  /\ pc' = "done"
  /\ UNCHANGED <<configVars, childVars, ctxErr, waitVars, result>>

Abandoned ==
  /\ pc = "drain" /\ delay = "fired" /\ helpers # {}
  /\ pc' = "done"
  /\ err' = IF err = "none" THEN "ErrWaitDelay" ELSE err
  /\ UNCHANGED <<configVars, childVars, ctxErr, watcher, delay, result>>

(* A slip: an exit error is taken for the command's own exit. *)
ReturnExit ==
  /\ pc = "done"
  /\ LET timedOut == ctxErr = "DeadlineExceeded" /\ err # "ExitError" IN
     IF err \in {"none", "ExitError"} \/ timedOut
       THEN /\ pc' = "returned"
            /\ result' = [code |-> code, timedOut |-> timedOut]
       ELSE /\ pc' = "threw"
            /\ UNCHANGED result
  /\ UNCHANGED <<configVars, childVars, ctxErr, waitVars>>

Return ==
  /\ pc = "done"
  /\ LET timedOut == ctxErr = "DeadlineExceeded" IN
     \/ /\ (err \in {"none", "ExitError"} \/ timedOut)
        /\ pc' = "returned"
        /\ result' = [code |-> code, timedOut |-> timedOut]
     \/ /\ err \notin {"none", "ExitError"} /\ ~timedOut
        /\ pc' = "threw"
        /\ UNCHANGED result
  /\ UNCHANGED <<configVars, childVars, ctxErr, waitVars>>

World == Forks \/ HelperEnds \/ Exits \/ RunCancelled
Timers == TimeoutPasses \/ DelayPasses
Program ==
  \/ Authorize \/ NotStarted \/ Start
  \/ Terminate \/ Reap \/ Drained \/ Abandoned \/ Return

Next == World \/ Timers \/ Program \/ Answer

(* The program and the timers make progress; the command, its helpers and
   the user need not. *)
Fairness == WF_vars(Program) /\ WF_vars(TimeoutPasses) /\ WF_vars(DelayPasses)

Spec == Init /\ [][Next]_vars /\ Fairness

-----------------------------------------------------------------------------
(* A result that does not say "timed out" carries the status the command
   itself exited with, unless the Run was cancelled under it; and a command
   that ran to a bad status of its own is never reported as one that could
   not run (run's timedOut and its error triage). *)
StatusIsTheCommands ==
  /\ pc = "returned" /\ ~result.timedOut /\ child = "killed" => ctxErr = "Canceled"
  /\ pc = "returned" /\ child = "exited" => result.code = code /\ code \in Codes
  /\ pc = "threw" /\ child = "exited" => code = 0

(* Once a command is being run, exec() comes back to the script, whether or
   not the command ever exits and whatever its helpers hold open (WaitDelay,
   terminateProcess). *)
ExecReturns == pc \in {"start", "wait"} ~> pc \in {"returned", "threw"}

(* What run's comment says: only a command that could not be started throws.
   One that exited 0 and left a helper holding its output does too. *)
ThrowsOnlyUnstarted == pc = "threw" => child = "none"
=============================================================================
