------------------------------ MODULE AgentRun ------------------------------
(***************************************************************************)
(* Loop.Run over one session: every Run loads the session's trace, writes  *)
(* its user step, builds a sandbox, rehydrates and perhaps compacts the    *)
(* history, and then alternates model calls and script executions until    *)
(* it responds, fails or runs out of iterations.  Runs share nothing but   *)
(* the stores, so each store call, model call and script execution is one  *)
(* step and Runs of one session interleave between them.                   *)
(***************************************************************************)
EXTENDS History, FiniteSets

CONSTANTS
    NumRuns,            \* how many times Loop.Run is called on the session (bound)
    MaxIterations,      \* Config.MaxIterations
    MaxEmptyRetries,    \* maxEmptyRetries in run.go
    UseCompactor,       \* Config.Compactor is set
    MaxFaults,          \* how many store calls may fail, as with a full disk or an expired ctx (bound)
    Overlap             \* Runs of the session may overlap, and processes may die

ASSUME RunAssumption ==
    /\ MaxIterations \in Nat \ {0}
    /\ MaxEmptyRetries \in Nat
    /\ {UseCompactor, Overlap} \subseteq BOOLEAN
    /\ NumRuns \in Nat /\ MaxFaults \in Nat

\* Runs are numbered in the order in which they start.
Runs == 1..NumRuns
NoRun == 0

\* What a script returned: nil, the empty object, or working state (named by
\* the iteration that produced it, which is all the properties tell apart).
Nil == -1
Empty == 0
Working == 1..MaxIterations
Args == {Nil, Empty} \cup Working

VARIABLES
    trace,      \* StepStore: rows in insertion order
    session,    \* SessionStore: the persisted data snapshot and last status
    pc,         \* Run -> where it is in Run
    steps,      \* Run -> priorSteps, as positions in trace
    stepIdx,    \* Run -> index of the next step it writes
    hist,       \* Run -> rehydrated, perhaps compacted history
    folded,     \* Run -> the positions this Run's own summary stands for
    iter,       \* Run -> iterations used
    retries,    \* Run -> emptyRetries
    args,       \* Run -> prevArgs
    work,       \* Run -> the latest working state a script of it returned (history)
    answered,   \* Run -> the last script called answer()
    status,     \* Run -> RunResult.Status, "" while it has none
    lost,       \* Run -> the kinds of store writes ("step", "data") it lost
    faults      \* store calls that failed so far

runVars == <<steps, stepIdx, hist, folded, iter, retries, args, work, answered, status>>
faultVars == <<lost, faults>>
vars    == <<trace, session, pc, runVars, faultVars>>

Ended == {"new", "returned", "failed", "crashed"}
Active(r) == pc[r] \notin Ended

Init ==
    /\ trace = <<>>
    /\ session = [by |-> NoRun, data |-> Nil, status |-> ""]
    /\ pc = [r \in Runs |-> "new"]
    /\ steps = [r \in Runs |-> <<>>]
    /\ stepIdx = [r \in Runs |-> 0]
    /\ hist = [r \in Runs |-> <<>>]
    /\ folded = [r \in Runs |-> {}]
    /\ iter = [r \in Runs |-> 0]
    /\ retries = [r \in Runs |-> 0]
    /\ args = [r \in Runs |-> Empty]
    /\ work = [r \in Runs |-> Nil]
    /\ answered = [r \in Runs |-> FALSE]
    /\ status = [r \in Runs |-> ""]
    /\ lost = [r \in Runs |-> {}]
    /\ faults = 0

\* A store call fails, and with it a write of the given kind, or none.
Fails(r, kind) ==
    /\ faults < MaxFaults
    /\ faults' = faults + 1
    /\ lost' = [lost EXCEPT ![r] = @ \cup kind]

Goto(r, label) == pc' = [pc EXCEPT ![r] = label]

\* writeStep: a failed Append is only a warning, and the index moves on anyway.
WriteRow(r, row) ==
    /\ stepIdx' = [stepIdx EXCEPT ![r] = @ + 1]
    /\ \/ trace' = Append(trace, row) /\ UNCHANGED faultVars
       \/ Fails(r, {"step"}) /\ UNCHANGED trace

WriteStep(r, type) ==
    WriteRow(r, [by |-> r, type |-> type, idx |-> stepIdx[r], retain |-> 0, covers |-> {}])

-----------------------------------------------------------------------------
(* Up to the first turn.                                                   *)

\* Sessions.Get and Steps.LastN.  Without the session the Run returns at once;
\* without the history it goes on as if there were none.
LoadSession(r) ==
    /\ pc[r] = "new"
    /\ \A q \in Runs : q < r => pc[q] # "new"
    /\ Overlap \/ \A q \in Runs : ~Active(q)
    /\ \/ /\ Fails(r, {})
          /\ Goto(r, "failed")
          /\ UNCHANGED <<steps, stepIdx>>
       \/ /\ steps' = [steps EXCEPT ![r] = LastN(trace)]
          /\ stepIdx' = [stepIdx EXCEPT ![r] = Len(LastN(trace))]
          /\ Goto(r, "user")
          /\ UNCHANGED faultVars
       \/ /\ Fails(r, {})
          /\ Goto(r, "user")
          /\ UNCHANGED <<steps, stepIdx>>
    /\ UNCHANGED <<trace, session, hist, folded, iter, retries, args, work, answered, status>>

WriteUser(r) ==
    /\ pc[r] = "user"
    /\ WriteStep(r, "user")
    /\ Goto(r, "build")
    /\ UNCHANGED <<session, steps, hist, folded, iter, retries, args, work, answered, status>>

\* SandboxBuilder.Build, then rehydrateHistory and the compactor's decision.
BuildSandbox(r) ==
    /\ pc[r] = "build"
    /\ LET replay == Rehydrate(trace, steps[r])
       IN  \/ /\ Goto(r, "finalize")
              /\ status' = [status EXCEPT ![r] = "error"]
              /\ UNCHANGED hist
           \/ /\ hist' = [hist EXCEPT ![r] = replay]
              /\ Goto(r, IF UseCompactor /\ WillCompact(trace, replay) THEN "compact" ELSE "turn")
              /\ UNCHANGED status
    /\ UNCHANGED <<trace, session, steps, stepIdx, folded, iter, retries, args, work, answered, faultVars>>

\* Compact's summarization calls fail, and the history stays as it was, or
\* they yield a summary of everything before the split.
Compact(r) ==
    /\ pc[r] = "compact"
    /\ \/ Goto(r, "turn") \/ Goto(r, "checkpoint")
    /\ UNCHANGED <<trace, session, runVars, faultVars>>

\* compactHistory persists the summary as a checkpoint and sends the summary
\* and the retained tail.
WriteCheckpoint(r) ==
    /\ pc[r] = "checkpoint"
    /\ LET split == SafeSplit(trace, hist[r])
           covers == CoveredBy(trace, hist[r], split)
       IN  /\ WriteRow(r, [by |-> r, type |-> "summary", idx |-> stepIdx[r],
                           retain |-> RetainFromStep(trace, hist[r], split), covers |-> covers])
           /\ hist' = [hist EXCEPT ![r] = <<Unsaved>> \o Retained(@, split)]
           /\ folded' = [folded EXCEPT ![r] = covers]
    /\ Goto(r, "turn")
    /\ UNCHANGED <<session, steps, iter, retries, args, work, answered, status>>

-----------------------------------------------------------------------------
(* The turn loop.                                                          *)

\* Slip: running out of iterations leaves no row in the trace.
NextIterationSilent(r) ==
    /\ pc[r] = "turn"
    /\ \/ /\ iter[r] < MaxIterations
          /\ iter' = [iter EXCEPT ![r] = @ + 1]
          /\ Goto(r, "llm")
          /\ UNCHANGED status
       \/ /\ iter[r] = MaxIterations
          /\ status' = [status EXCEPT ![r] = "max_iterations"]
          /\ Goto(r, "finalize")
          /\ UNCHANGED iter
    /\ UNCHANGED <<trace, session, steps, stepIdx, hist, folded, retries, args, work, answered, faultVars>>

\* The loop condition and the ctx check at the top of an iteration.  RunTimeout
\* or the caller may have ended the ctx at any time; only here does the loop look.
NextIteration(r) ==
    /\ pc[r] = "turn"
    /\ \/ /\ iter[r] < MaxIterations
          /\ iter' = [iter EXCEPT ![r] = @ + 1]
          /\ Goto(r, "llm")
          /\ UNCHANGED status
       \/ /\ iter[r] < MaxIterations
          /\ status' = [status EXCEPT ![r] = "error"]
          /\ Goto(r, "finalize")
          /\ UNCHANGED iter
       \/ /\ iter[r] = MaxIterations
          /\ status' = [status EXCEPT ![r] = "max_iterations"]
          /\ Goto(r, "error")
          /\ UNCHANGED iter
    /\ UNCHANGED <<trace, session, steps, stepIdx, hist, folded, retries, args, work, answered, faultVars>>

\* LLM.Stream fails: provider error, or the ctx expired during the call.
LLMFails(r) ==
    /\ pc[r] = "llm"
    /\ status' = [status EXCEPT ![r] = "error"]
    /\ Goto(r, "error")
    /\ UNCHANGED <<trace, session, steps, stepIdx, hist, folded, iter, retries, args, work, answered, faultVars>>

\* Slip: a blank reply gives its iteration back and is not counted.
LLMBlankUncounted(r) ==
    /\ pc[r] = "llm"
    /\ iter' = [iter EXCEPT ![r] = @ - 1]
    /\ Goto(r, "turn")
    /\ UNCHANGED <<trace, session, steps, stepIdx, hist, folded, retries, args, work, answered, status, faultVars>>

\* A blank reply is retried on the same prompt, up to maxEmptyRetries per Run.
LLMBlank(r) ==
    /\ pc[r] = "llm"
    /\ \/ /\ retries[r] < MaxEmptyRetries
          /\ retries' = [retries EXCEPT ![r] = @ + 1]
          /\ Goto(r, "turn")
          /\ UNCHANGED status
       \/ /\ retries[r] = MaxEmptyRetries
          /\ status' = [status EXCEPT ![r] = "error"]
          /\ Goto(r, "error")
          /\ UNCHANGED retries
    /\ UNCHANGED <<trace, session, steps, stepIdx, hist, folded, iter, args, work, answered, faultVars>>

\* A DONE marker or no code fence: the reply is the response.
LLMResponds(r) ==
    /\ pc[r] = "llm"
    /\ Goto(r, "respond")
    /\ UNCHANGED <<trace, session, runVars, faultVars>>

\* A code fence: the execute_js step is written before the script runs.
LLMWritesScript(r) ==
    /\ pc[r] = "llm"
    /\ WriteStep(r, "execute_js")
    /\ Goto(r, "exec")
    /\ UNCHANGED <<session, steps, hist, folded, iter, retries, args, work, answered, status>>

\* TakeAnswer ends the Run, also after a script that threw.
AfterScript(a) == IF a THEN "respond" ELSE "turn"

\* Slip: the answer is taken before the data snapshot, which is then skipped.
ExecuteTurnAnswersFirst(r) ==
    /\ pc[r] = "exec"
    /\ \E a \in BOOLEAN, threw \in BOOLEAN, ret \in {Nil, Empty, iter[r]} :
          /\ args' = IF threw THEN args ELSE [args EXCEPT ![r] = ret]
          /\ work' = IF ~threw /\ ret \in Working THEN [work EXCEPT ![r] = ret] ELSE work
          /\ answered' = [answered EXCEPT ![r] = a]
          /\ Goto(r, IF ~a /\ ~threw /\ ret \in Working THEN "persist" ELSE AfterScript(a))
    /\ WriteStep(r, "execute_js_result")
    /\ UNCHANGED <<session, steps, hist, folded, iter, retries, status>>

\* Slip: a script that throws has no result row.
ExecuteTurnThrowsSilently(r) ==
    /\ pc[r] = "exec"
    /\ \E a \in BOOLEAN, threw \in BOOLEAN, ret \in {Nil, Empty, iter[r]} :
          /\ args' = IF threw THEN args ELSE [args EXCEPT ![r] = ret]
          /\ work' = IF ~threw /\ ret \in Working THEN [work EXCEPT ![r] = ret] ELSE work
          /\ answered' = [answered EXCEPT ![r] = a]
          /\ Goto(r, IF ~threw /\ ret \in Working THEN "persist" ELSE AfterScript(a))
          /\ IF threw THEN UNCHANGED <<trace, stepIdx, faultVars>> ELSE WriteStep(r, "execute_js_result")
    /\ UNCHANGED <<session, steps, hist, folded, iter, retries, status>>

\* ExecuteTurn: a script that throws leaves prevArgs alone, one that returns
\* replaces it, with nil when it returns nothing; either may have called answer().
\* The execute_js_result step follows at once.
ExecuteTurn(r) ==
    /\ pc[r] = "exec"
    /\ \E a \in BOOLEAN, threw \in BOOLEAN, ret \in {Nil, Empty, iter[r]} :
          /\ args' = IF threw THEN args ELSE [args EXCEPT ![r] = ret]
          /\ work' = IF ~threw /\ ret \in Working THEN [work EXCEPT ![r] = ret] ELSE work
          /\ answered' = [answered EXCEPT ![r] = a]
          /\ Goto(r, IF ~threw /\ ret \in Working THEN "persist" ELSE AfterScript(a))
    /\ WriteStep(r, "execute_js_result")
    /\ UNCHANGED <<session, steps, hist, folded, iter, retries, status>>

\* Sessions.UpdateData with this turn's return value, before the answer is taken.
PersistData(r) ==
    /\ pc[r] = "persist"
    /\ \/ session' = [session EXCEPT !.by = r, !.data = args[r]] /\ UNCHANGED faultVars
       \/ Fails(r, {"data"}) /\ UNCHANGED session
    /\ Goto(r, AfterScript(answered[r]))
    /\ UNCHANGED <<trace, runVars>>

-----------------------------------------------------------------------------
(* Endings.                                                                *)

WriteResponse(r) ==
    /\ pc[r] = "respond"
    /\ WriteStep(r, "response")
    /\ status' = [status EXCEPT ![r] = "completed"]
    /\ Goto(r, "finalize")
    /\ UNCHANGED <<session, steps, hist, folded, iter, retries, args, work, answered>>

WriteError(r) ==
    /\ pc[r] = "error"
    /\ WriteStep(r, "error")
    /\ Goto(r, "finalize")
    /\ UNCHANGED <<session, steps, hist, folded, iter, retries, args, work, answered, status>>

\* The Run's variables die with it; what it returns stays.
Leave(r) ==
    /\ hist' = [hist EXCEPT ![r] = <<>>]
    /\ folded' = [folded EXCEPT ![r] = {}]
    /\ iter' = [iter EXCEPT ![r] = 0]
    /\ retries' = [retries EXCEPT ![r] = 0]
    /\ args' = [args EXCEPT ![r] = Empty]
    /\ work' = [work EXCEPT ![r] = Nil]
    /\ answered' = [answered EXCEPT ![r] = FALSE]
    /\ UNCHANGED <<steps, stepIdx, status>>

\* Sessions.Finalize, with the Run's own ctx; a failure is only a warning.
Finalize(r) ==
    /\ pc[r] = "finalize"
    /\ \/ session' = [session EXCEPT !.status = status[r]] /\ UNCHANGED faultVars
       \/ Fails(r, {}) /\ UNCHANGED session
    /\ Goto(r, "returned")
    /\ Leave(r)
    /\ UNCHANGED trace

\* The process dies: the Run is gone, its rows stay.
Crash(r) ==
    /\ Overlap
    /\ Active(r)
    /\ Goto(r, "crashed")
    /\ Leave(r)
    /\ UNCHANGED <<trace, session, faultVars>>

Step(r) ==
    \/ WriteUser(r) \/ BuildSandbox(r) \/ Compact(r) \/ WriteCheckpoint(r)
    \/ NextIteration(r) \/ LLMFails(r) \/ LLMBlank(r) \/ LLMResponds(r) \/ LLMWritesScript(r)
    \/ ExecuteTurn(r) \/ PersistData(r)
    \/ WriteResponse(r) \/ WriteError(r) \/ Finalize(r)

Next == \E r \in Runs : LoadSession(r) \/ Step(r) \/ Crash(r)

Spec == Init /\ [][Next]_vars

(* A Run that has loaded its session keeps going: model calls and scripts   *)
(* end, at the latest when RunTimeout or the script timeout expires.        *)
Fairness == \A r \in Runs : WF_vars(Step(r))

FairSpec == Spec /\ Fairness

-----------------------------------------------------------------------------
Labels == Ended \cup {"user", "build", "compact", "checkpoint", "turn", "llm", "exec", "persist",
                      "respond", "error", "finalize"}

Row == [by: Runs, type: StepTypes, idx: Nat, retain: Nat, covers: SUBSET Nat]

\* Type invariant of the stores and of every Run's local state.
TypeOK ==
    /\ trace \in Seq(Row)
    /\ session \in [by: Runs \cup {NoRun}, data: Args,
                    status: {"", "completed", "error", "max_iterations"}]
    /\ pc \in [Runs -> Labels]
    /\ steps \in [Runs -> Seq(Nat)]
    /\ stepIdx \in [Runs -> Nat]
    /\ hist \in [Runs -> Seq(Nat)]
    /\ folded \in [Runs -> SUBSET Nat]
    /\ iter \in [Runs -> 0..MaxIterations]
    /\ retries \in [Runs -> 0..MaxEmptyRetries]
    /\ args \in [Runs -> Args]
    /\ work \in [Runs -> Args]
    /\ answered \in [Runs -> BOOLEAN]
    /\ status \in [Runs -> {"", "completed", "error", "max_iterations"}]
    /\ lost \in [Runs -> SUBSET {"step", "data"}]
    /\ faults \in 0..MaxFaults

\* The rows r wrote, and the last of them.
RowsOf(r) == {p \in DOMAIN trace : trace[p].by = r}
LastRowOf(r) == trace[CHOOSE p \in RowsOf(r) : \A q \in RowsOf(r) : q <= p]

\* r has made its history and is past writing a checkpoint for it.
HasHistory(r) == hist[r] # <<>> /\ pc[r] # "checkpoint"

Loaded(r) == Elements(steps[r])
LastLoaded(r) == IF steps[r] = <<>> THEN 0 ELSE steps[r][Len(steps[r])]

\* What the summary at the head of r's history stands for.
Summarized(r) ==
    IF hist[r] = <<>> THEN {}
    ELSE IF hist[r][1] = Unsaved THEN folded[r]
    ELSE trace[hist[r][1]].covers

\* While the numbering is intact, every loaded turn reaches the model exactly
\* once: verbatim or through the summary, never dropped and never doubled,
\* through any number of checkpoints (history.go, compactHistory).
ReplayedOnce ==
    \A r \in Runs : HasHistory(r) /\ IndicesIncrease(trace, LastLoaded(r)) =>
        \A p \in Loaded(r) : IsTurn(trace, p) =>
            (p \in Summarized(r)) # (\E i \in DOMAIN hist[r] : hist[r][i] = p)

\* Runs did not interleave and every step was stored.
CleanTrace ==
    /\ \A p, q, s \in DOMAIN trace :
          p < q /\ q < s /\ trace[p].by = trace[s].by => trace[q].by = trace[p].by
    /\ \A r \in Runs : "step" \notin lost[r]

\* While the numbering is intact, an execution result reaches the model right
\* behind the script it came from; neither replay nor the compaction's split
\* separates the two.  Only the first loaded row may have lost its script to
\* the window.
ResultsKeepScripts ==
    CleanTrace => \A r \in Runs :
        HasHistory(r) /\ IndicesIncrease(trace, LastLoaded(r)) => \A i \in DOMAIN hist[r] :
            IsResult(trace, hist[r][i]) =>
                \/ hist[r][i] = steps[r][1]
                \/ i > 1 /\ hist[r][i-1] = hist[r][i] - 1
                   /\ trace[hist[r][i-1]].type = "execute_js"

\* The stored trace tells how the Run ended: its only response is the last row
\* of a completed Run, and running out of iterations leaves an error row.
TraceTellsOutcome ==
    \A r \in Runs : pc[r] = "returned" /\ "step" \notin lost[r] =>
        /\ status[r] = "completed" <=> LastRowOf(r).type = "response"
        /\ status[r] = "max_iterations" => LastRowOf(r).type = "error"
        /\ Cardinality({p \in RowsOf(r) : trace[p].type = "response"}) <= 1

\* Only the last script of a Run may be without its result, and only while it
\* runs or if the process died under it: whatever a script did, threw or
\* answered, its result is the next row the Run writes (run.go: "Persist before
\* AND after so the trace shows the in-flight script").  The next Run replays
\* such a script with no result behind it.
LoneScriptWasInFlight ==
    \A r \in Runs : "step" \notin lost[r] =>
        \A p \in RowsOf(r) : trace[p].type = "execute_js" =>
            LET later == {q \in RowsOf(r) : q > p}
            IN  IF later = {} THEN pc[r] \in {"exec", "crashed"}
                ELSE trace[CHOOSE q \in later : \A x \in later : q <= x].type = "execute_js_result"

\* Between turns the persisted snapshot is the latest working state that any
\* script of the Run returned, whatever came after: a script that threw, that
\* returned nothing or {}, or that answered.  What the next script gets is that
\* state too, unless the last one returned nothing or {}: the snapshot then
\* stays where it was while the carried state is gone (run.go: prevArgs is
\* replaced, UpdateData is not called).  Overlapping Runs overwrite each other's.
SnapshotIsLatestWork ==
    \A r \in Runs :
        /\ Active(r) /\ pc[r] # "persist" /\ work[r] \in Working
        /\ "data" \notin lost[r]
        /\ Overlap => session.by = r
        => /\ session.by = r /\ session.data = work[r]
           /\ args[r] \in {Nil, Empty, session.data}

\* Every Run that started returns, unless its process dies.
RunReturns == \A r \in Runs : Active(r) ~> ~Active(r)

-----------------------------------------------------------------------------
(* Claims of the repository that this code does not keep.                  *)

\* compact.go, CompactionCheckpoint: "Every earlier step is represented by the
\* summary instead of being replayed".  Step numbering restarts at the window
\* size once a session has outgrown it, and steps written after the checkpoint
\* are then dropped as if the summary covered them.
NothingDropped ==
    \A r \in Runs : HasHistory(r) =>
        \A p \in Loaded(r) : IsTurn(trace, p) => p \in Summarized(r) \cup Elements(hist[r])

\* compact.go, safeSplitPoint: "an execution result is always immediately
\* preceded by the assistant turn that produced it".  The window may begin
\* between the two.
ResultsHaveScripts ==
    \A r \in Runs : HasHistory(r) => \A i \in DOMAIN hist[r] :
        IsResult(trace, hist[r][i]) =>
            i > 1 /\ hist[r][i-1] # Unsaved /\ trace[hist[r][i-1]].type = "execute_js"
=============================================================================
