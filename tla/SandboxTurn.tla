----------------------------- MODULE SandboxTurn -----------------------------
(***************************************************************************)
(* Sandbox.ExecuteTurn: successive scripts in one JavaScript runtime, each *)
(* under a wall-clock timer.  The timer's callback runs in a goroutine of  *)
(* its own: Stop does not wait for one that has started, so its Interrupt  *)
(* may reach the runtime at any later time.  An interrupt that finds       *)
(* nothing running stays pending for whatever runs next, which may be the  *)
(* one line that hands the script its args.  Scripts log, answer, load     *)
(* modules and call tools in any order; a script may loop forever.         *)
(***************************************************************************)
EXTENDS Integers, Sequences, FiniteSets, SequencesExt

CONSTANTS
    MaxTurns,   \* how many scripts are run (bound)
    MaxLogs,    \* log lines per script (bound)
    MaxDepth,   \* require() calls under way at once (bound)
    Modules,    \* names require() may be called with
    Known,      \* modules with registered code (Sandbox.skillCode)
    Tools,      \* primitives with side effects
    HasTimeout  \* execTimeout > 0

ASSUME TurnAssumption ==
    /\ MaxTurns \in Nat /\ MaxLogs \in Nat /\ MaxDepth \in Nat
    /\ Known \subseteq Modules
    /\ HasTimeout \in BOOLEAN

Turns == 1..MaxTurns
Nothing == 0        \* an empty object: of the first turn, returned, or left by a loss
Null == -1          \* no value, or one that JSON cannot hold
NoTool == "none"

ASSUME ToolAssumption == NoTool \notin Tools

VARIABLES
    pc,         \* where ExecuteTurn is; "idle" between turns
    turn,       \* the script being run, or the last one
    pending,    \* the runtime's interrupt flag
    armed,      \* this turn's timer is running
    fired,      \* turns whose callback has started and not yet called Interrupt
    expired,    \* turns whose timer fired (history)
    carried,    \* the loop's prevArgs: the turn whose return value it is
    args,       \* the global args the script sees
    logs,       \* s.logs: the turn each line was written in
    answered,   \* s.answered: the turn that called answer(), or Nothing
    loading,    \* modules whose bodies are running, innermost last
    cache,      \* s.requireCache
    calling,    \* the tool call the script is blocked in
    policy,     \* names the installed PolicyChecker allows
    results     \* what ExecuteTurn and TakeAnswer told the loop, by turn

timerVars == <<pending, armed, fired, expired>>
moduleVars == <<loading, cache>>
vars == <<pc, turn, timerVars, carried, args, logs, answered, moduleVars, calling, policy, results>>

Init ==
    /\ pc = "idle"
    /\ turn = 0
    /\ pending = FALSE
    /\ armed = FALSE
    /\ fired = {}
    /\ expired = {}
    /\ carried = Nothing
    /\ args = Nothing
    /\ logs = <<>>
    /\ answered = Nothing
    /\ loading = <<>>
    /\ cache = {}
    /\ calling = NoTool
    /\ policy \in SUBSET (Modules \cup Tools)
    /\ results = <<>>

-----------------------------------------------------------------------------
(* The timer.                                                              *)

\* The timeout expires: the callback's goroutine starts.
TimerFires ==
    /\ armed
    /\ armed' = FALSE
    /\ fired' = fired \cup {turn}
    /\ expired' = expired \cup {turn}
    /\ UNCHANGED <<pc, turn, pending, carried, args, logs, answered, moduleVars, calling, policy, results>>

\* The callback of turn t calls Interrupt, whatever runs by then.
Interrupt(t) ==
    /\ t \in fired
    /\ fired' = fired \ {t}
    /\ pending' = TRUE
    /\ UNCHANGED <<pc, turn, armed, expired, carried, args, logs, answered, moduleVars, calling, policy, results>>

-----------------------------------------------------------------------------
(* Entering a turn.                                                        *)

\* Another Run has the runtime: Loop.Run installs its policy and carries nothing.
NewRun ==
    /\ pc = "idle"
    /\ policy' \in SUBSET (Modules \cup Tools)
    /\ carried' = Nothing
    /\ UNCHANGED <<pc, turn, timerVars, args, logs, answered, moduleVars, calling, results>>

\* Slip: the answer of the previous script is still there.
BeginTurnAnswered ==
    /\ pc = "idle"
    /\ turn < MaxTurns
    /\ turn' = turn + 1
    /\ logs' = <<>>
    /\ armed' = HasTimeout
    /\ pc' = "inject"
    /\ UNCHANGED <<pending, fired, expired, carried, args, answered, moduleVars, calling, policy, results>>

\* The resets at the top of ExecuteTurn, then time.AfterFunc.
BeginTurn ==
    /\ pc = "idle"
    /\ turn < MaxTurns
    /\ turn' = turn + 1
    /\ logs' = <<>>
    /\ answered' = Nothing
    /\ armed' = HasTimeout
    /\ pc' = "inject"
    /\ UNCHANGED <<pending, fired, expired, carried, args, moduleVars, calling, policy, results>>

\* What the script is to see of it.
Given == IF carried = Null THEN Nothing ELSE carried

\* Slip: the injection starts with a clean runtime, whatever has been asked of it.
InjectArgsClearing ==
    /\ pc = "inject"
    /\ args' = IF pending THEN Nothing ELSE Given
    /\ pending' = FALSE
    /\ pc' = "run"
    /\ UNCHANGED <<turn, armed, fired, expired, carried, logs, answered, moduleVars, calling, policy, results>>

\* Slip: the interrupt that spoils the args also waits for the script.
InjectArgsKeeping ==
    /\ pc = "inject"
    /\ args' = IF pending THEN Nothing ELSE Given
    /\ pc' = "run"
    /\ UNCHANGED <<turn, timerVars, carried, logs, answered, moduleVars, calling, policy, results>>

\* Unless there is nothing to hand over, "args = JSON.parse(...)" is run as a
\* script of its own.  A pending interrupt fails it and, as nothing encloses it, is
\* over with that: args becomes an empty object and the turn goes on.
InjectArgs ==
    /\ pc = "inject"
    /\ IF pending /\ carried # Null
       THEN args' = Nothing /\ pending' = FALSE
       ELSE args' = Given /\ UNCHANGED pending
    /\ pc' = "run"
    /\ UNCHANGED <<turn, armed, fired, expired, carried, logs, answered, moduleVars, calling, policy, results>>

-----------------------------------------------------------------------------
(* What the script does.  The runtime looks at the interrupt flag before   *)
(* every instruction, but not while a tool call keeps it waiting.          *)

Running == pc = "run" /\ ~pending /\ calling = NoTool

\* log(), print() and the console: emitConsole.
Log ==
    /\ Running
    /\ Len(logs) < MaxLogs
    /\ logs' = Append(logs, turn)
    /\ UNCHANGED <<pc, turn, timerVars, carried, args, answered, moduleVars, calling, policy, results>>

Answer ==
    /\ Running
    /\ answered' = turn
    /\ UNCHANGED <<pc, turn, timerVars, carried, args, logs, moduleVars, calling, policy, results>>

\* require() of a module that is not cached: allowed and known, or it throws,
\* which the script may catch.  Modules require modules in turn, and as the cache
\* is filled at the end of a body, one may be loaded within its own loading.
Require(m) ==
    /\ Running
    /\ Len(loading) < MaxDepth
    /\ m \notin cache
    /\ m \in policy \cap Known
    /\ loading' = Append(loading, m)
    /\ UNCHANGED <<pc, turn, timerVars, carried, args, logs, answered, cache, calling, policy, results>>

ModuleLoads ==
    /\ Running
    /\ loading # <<>>
    /\ cache' = cache \cup {Last(loading)}
    /\ loading' = Front(loading)
    /\ UNCHANGED <<pc, turn, timerVars, carried, args, logs, answered, calling, policy, results>>

\* The body throws; require() rethrows in the requiring script, which may catch it.
ModuleThrows ==
    /\ Running
    /\ loading # <<>>
    /\ loading' = Front(loading)
    /\ UNCHANGED <<pc, turn, timerVars, carried, args, logs, answered, cache, calling, policy, results>>

\* CheckPolicyOrPanic allows the call, and the script waits for it.  A denied
\* call throws and changes nothing.
CallTool(t) ==
    /\ Running
    /\ t \in policy
    /\ calling' = t
    /\ UNCHANGED <<pc, turn, timerVars, carried, args, logs, answered, moduleVars, policy, results>>

\* With a result or an error, which throws in the script.
ToolReturns ==
    /\ calling # NoTool
    /\ calling' = NoTool
    /\ UNCHANGED <<pc, turn, timerVars, carried, args, logs, answered, moduleVars, policy, results>>

-----------------------------------------------------------------------------
(* Leaving a turn.                                                         *)

\* What the loop is told about the turn: TakeAnswer follows ExecuteTurn.
Report(err, ret, lines) ==
    results' = Append(results, [err |-> err, ret |-> ret, logs |-> lines, args |-> args,
                                given |-> Given, answered |-> answered])

\* run returns a value, be it an empty object, or null, undefined or what JSON
\* cannot hold.
Returns ==
    /\ Running
    /\ loading = <<>>
    /\ \E ret \in {turn, Nothing, Null} :
          /\ Report("none", ret, logs)
          /\ carried' = ret
    /\ pc' = "stop"
    /\ UNCHANGED <<turn, timerVars, args, logs, answered, moduleVars, calling, policy>>

\* RunString returns an error: the script threw, or it was interrupted, which
\* nothing catches, not even the script that required the module it was in, and
\* which is over when the outermost script has been left.
Fails ==
    /\ pc = "run"
    /\ calling = NoTool
    /\ Report(IF pending THEN "timeout" ELSE "throw", Null, logs)
    /\ pending' = FALSE
    /\ loading' = <<>>
    /\ pc' = "failed"
    /\ UNCHANGED <<turn, armed, fired, expired, carried, args, logs, answered, cache, calling, policy>>

\* ClearInterrupt on the error path: an interrupt that came since is dropped.
ClearAfterError ==
    /\ pc = "failed"
    /\ pending' = FALSE
    /\ pc' = "stop"
    /\ UNCHANGED <<turn, armed, fired, expired, carried, args, logs, answered, moduleVars, calling, policy, results>>

\* The deferred timer.Stop; the runtime is not interrupted any more.
StopTimer ==
    /\ pc = "stop"
    /\ armed' = FALSE
    /\ pc' = "idle"
    /\ UNCHANGED <<turn, pending, fired, expired, carried, args, logs, answered, moduleVars, calling, policy, results>>

\* A pack panics in Go: timer.Stop is deferred last and runs first; the logs
\* are lost with the named results.
PackPanics ==
    /\ calling # NoTool
    /\ calling' = NoTool
    /\ loading' = <<>>
    /\ armed' = FALSE
    /\ Report("panic", Null, <<>>)
    /\ pc' = "recover"
    /\ UNCHANGED <<turn, pending, fired, expired, carried, args, logs, answered, cache, policy>>

\* The deferred recover, with its ClearInterrupt.
Recover ==
    /\ pc = "recover"
    /\ pending' = FALSE
    /\ pc' = "idle"
    /\ UNCHANGED <<turn, armed, fired, expired, carried, args, logs, answered, moduleVars, calling, policy, results>>

Script ==
    \/ Log \/ Answer \/ ModuleLoads \/ ModuleThrows \/ Returns
    \/ \E m \in Modules : Require(m)
    \/ \E t \in Tools : CallTool(t)

Next ==
    \/ TimerFires \/ \E t \in Turns : Interrupt(t)
    \/ NewRun \/ BeginTurn \/ InjectArgs
    \/ Script \/ ToolReturns \/ PackPanics
    \/ Fails \/ ClearAfterError \/ StopTimer \/ Recover

Spec == Init /\ [][Next]_vars

(* Timers expire and their goroutines are scheduled; an interrupted script  *)
(* stops; a tool call returns, as every built-in one has a deadline of its  *)
(* own.  Nothing makes a script take another step.                          *)
Fairness ==
    /\ WF_vars(TimerFires) /\ \A t \in Turns : WF_vars(Interrupt(t))
    /\ WF_vars(InjectArgs) /\ WF_vars(pending /\ Fails) /\ WF_vars(ToolReturns)
    /\ WF_vars(ClearAfterError) /\ WF_vars(StopTimer) /\ WF_vars(Recover)

FairSpec == Spec /\ Fairness

-----------------------------------------------------------------------------
Outcome == [err: {"none", "throw", "timeout", "panic"}, ret: {Null, Nothing} \cup Turns,
            logs: Seq(Turns), args: {Nothing} \cup Turns, given: {Nothing} \cup Turns,
            answered: {Nothing} \cup Turns]

\* Type invariant of the runtime and of ExecuteTurn's locals; between turns
\* nothing of a turn is left running.
TypeOK ==
    /\ pc \in {"idle", "inject", "run", "failed", "stop", "recover"}
    /\ turn \in 0..MaxTurns
    /\ {pending, armed} \subseteq BOOLEAN
    /\ fired \subseteq expired /\ expired \subseteq Turns
    /\ {args, answered} \subseteq {Nothing} \cup Turns
    /\ carried \in {Null, Nothing} \cup Turns
    /\ logs \in Seq(Turns)
    /\ loading \in Seq(Known)
    /\ cache \subseteq Known
    /\ calling \in Tools \cup {NoTool}
    /\ policy \subseteq Modules \cup Tools
    /\ results \in Seq(Outcome)
    /\ pc = "idle" => ~armed /\ calling = NoTool /\ loading = <<>>

\* Every expired timer does harm once at most: it fails one script, its own or a
\* later one, or it costs one script its args; no interrupt outlives what it did
\* (ExecuteTurn, ClearInterrupt and the args injection).
TimeoutsCharged ==
    Cardinality({t \in DOMAIN results : results[t].err = "timeout"})
        + Cardinality({t \in DOMAIN results : results[t].args # results[t].given})
    <= Cardinality(expired)

\* What the loop reads after a turn is that turn's: no answer or log line of an
\* earlier script, after any mix of errors, panics and late interrupts.
ReportIsOwn ==
    \A t \in DOMAIN results :
        /\ results[t].answered \in {Nothing, t}
        /\ ToSet(results[t].logs) \subseteq {t}

\* The turn's own interrupt was spent on its args, and no other will come.
Uncapped == pc = "run" /\ carried # Null /\ turn \in expired \ fired /\ ~pending

\* With a timeout every turn ends, even that of a script that loops forever, and
\* even if interrupts hit tool calls or come late, unless the injection of its
\* args has used up the turn's own interrupt.
TurnEnds == pc # "idle" ~> pc = "idle" \/ Uncapped

-----------------------------------------------------------------------------
\* sandbox.go, ExecuteTurn: "argsJSON (the previous turn's return value) is
\* injected as the global `args`".  A script whose injection was hit by a late
\* interrupt runs, and returns, with an empty object instead.
ArgsIntact ==
    \A t \in DOMAIN results : results[t].err = "none" => results[t].args = results[t].given

\* sandbox.go, SetExecTimeout: the timeout is a "per-Execute wall-clock cap".
\* A callback that is late interrupts the next script, whose time is not up.
TimeoutIsOwn ==
    \A t \in DOMAIN results : results[t].err = "timeout" => t \in expired
=============================================================================
