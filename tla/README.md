# agentloop in TLA+

TLA+ models of agentloop, the configurations that model-check them with TLC, and
theorems checked by TLAPS. Every definition is translated from the Go source;
`PROJECT.json` maps each of them to the lines it stands for, lists the hazards of
the code with the properties that watch them, and names the theorems.

## 1. The system

agentloop runs a language model in a loop. `Loop.Run` handles one user message:
it loads the session's trace, asks the model, runs the script the model answers
with in a goja runtime, shows the model the script's output, and repeats until
the model answers, fails or uses up its iterations.

| Component | State it keeps | Operations | Interacts with |
|---|---|---|---|
| Run (`run.go`) | per call: step index, history, carried `prevArgs`, retry and token counts | `Run`, `compactHistory`, `respond` | stores, sandbox builder, model client, compactor |
| history (`history.go`) | none; reads a window of the trace | `rehydrateHistory`, `lastCheckpoint` | step numbering chosen by Run, checkpoints written by Run |
| compaction (`compact.go`) | none | `Compact`, split, chunked summaries | model client; its split becomes a checkpoint row |
| budget, elision (`budget.go`, `shape.go`) | none | `fit`, `elideStaleCode`, `dataShape` | the request of each turn |
| stores (`store.go`, `agentloopmem`, `agentloopsql`) | rows per session, data snapshot, grants | `Append`, `LastN`, `Get`, `UpdateData`, `Finalize`, `Delete`, `Grant` | shared by all Runs and processes |
| sandbox pool (`pool`) | entries by session, a lock per entry, idle times | `Build`, its cleanup, `Evict`, `EvictIdle`, `Close`, reaper | Runs of all sessions, the delegate builder |
| sandbox (`sandbox`) | runtime globals, logs, answer, interrupt flag, require cache | `ExecuteTurn`, `TakeAnswer`, packs, policy | timer goroutine; host packs |
| fetch pack, policies (`sandbox`) | approved hosts, last allowlist | `fetch`, `http`, `allowUrls` | policy checkers, the user |
| model client (`llm`), streamer (`streamer.go`) | none between calls; a mode and a buffer per turn | `Complete`, `Stream`, retry, `onChunk` | HTTP upstream, the caller's callback |
| tool packs (`ext`) | child processes, files | `exec`, `writeFile`, `editFile`, `glob`, `grep` | the operating system, the user |
| browser (`browser`, `browser/chrome`) | validity of marks; one Chrome process | marks, clicks, typing; start, step, `Close` | the page, Chrome |
| terminal client (`cmd/agentloop`) | remembered approvals, session id | `run`, `chat`, `sessions rm`, `sessions revoke` | SQL store, Run |
| evaluation (`eval`, `evalmem`) | suites, cases, runs | `RunSuite`, CRUD | Run, a judging model |
| skills, project context, redaction, tracing, prompts, profile | none | load, render, compute | Run's configuration |

What is hard in it:

* **Concurrency.** The pool is shared by goroutines of many Runs, its reaper and
  the application, with two levels of locks. Runs of one session may overlap and
  share only the stores. A script's timer fires on a goroutine of its own. A
  command, its helpers, its timeout and the wait delay race. Several processes
  have one database open.
* **Ordering and identity.** Step indices are derived from how many rows the
  history window returned; checkpoints later compare those indices. Scripts and
  their results must stay together through windows, splits and budget cuts. Page
  elements are numbered in a document that may be gone when a number is used.
* **Failure.** Every store call may fail and is mostly a warning; a process may
  die between two rows; a context may expire at any point; an endpoint may stall,
  break off or answer in another format.
* **Stale state.** What was read before a question to the user is written after it;
  approvals are remembered beside the table that holds them.
* **Termination.** Retries, iterations, folding rounds and waiting on locks.

What makes each part correct:

* *Pool*: one Run in a runtime at a time; the runtime has that Run's context and
  callback; each sandbox is cleaned up once, never under a Run, and none is
  forgotten; everybody who waits gets on.
* *Run, history, compaction*: each loaded turn reaches the model exactly once,
  through any number of checkpoints; scripts keep their results; the stored trace
  tells how a Run ended; the persisted snapshot is the latest state a script returned;
  a summary has no hole; every Run and every compaction ends.
* *Prompt*: what is sent fits or is reported; as little as possible is dropped;
  nothing sent misleads the model about what it can see.
* *Sandbox*: a script's report is its own, a timer does harm at most once, and every
  turn ends.
* *Model client*: the chunks are the reply, the text shown is the reply however it is cut, waits are
  bounded, and every call returns.
* *Terminal, stores*: an approval was given by the user; `rm` and `revoke` are
  final; no trace without its session; both stores keep the log they promise.
* *Packs, browser, evaluation*: the user is asked once and heeded; a status is the
  command's; an edit changes what it says; a search hides nothing it can read; a number
  means the latest numbering; a closed driver leaves no process; a verdict was earned.

## 2. Modules

| Module | Models |
|---|---|
| `SandboxPool` | `pool.SandboxPool` as goroutines over the map and the entry locks |
| `SandboxLease` | what the pool promises about a sandbox, abstractly |
| `SandboxPoolRefinement` | the mapping from the pool's state to the lease's |
| `History` | window, checkpoint lookup, replay, split and marker, as operators over traces |
| `AgentRun` | `Loop.Run` over one session, on top of `History` |
| `PromptBudget` | the request of every turn: elision, digest, budget |
| `SandboxTurn` | `ExecuteTurn` against its timer goroutine, turn after turn in one runtime |
| `ModelCall` | `Stream` and `Complete` with retries, the response streamer, the parser |
| `ChunkedSummary` | chunking, merging and folding of a summary too long for one call |
| `SessionLog` | what the store contracts ask, abstractly |
| `SqlStore`, `MemStore` | the two stores, each with its mapping to `SessionLog` |
| `TerminalSessions` | terminal processes on one database: sessions, approvals, grants |
| `EvalSuite` | `RunSuite` over the in-memory store, while the suite is edited |
| `FetchAccess` | the fetch pack, its approvals and the policies it asks |
| `CommandExec` | `exec()` with a child, its helpers, the timeout and the wait delay |
| `WorkspaceEdit`, `WorkspaceSearch` | writes and edits of files; reading, `glob` and `grep` |
| `BrowserMarks`, `ChromeDriver` | numbered page elements; start, sharing and closing of Chrome |
| `Lists` | `Only`, `SumOf`, `Flat`, `Picked`, `Elements`: the operators on sequences several of them share |
| `Services` | one at a time: `EvalSuite`, `ChunkedSummary`, `SqlStore`, `MemStore`, `PromptBudget` |
| `Packs` | one at a time: the six pack modules |
| `MCSandboxPool`, `MCModelCall`, `MCTerminalSessions`, `MCServices`, `MCPacks` | instances: symmetry, values |
| `*_proofs` | the theorems (section 4) |

`Services` and `Packs` choose one component at the start, so that one run checks
several; components that do not interact are not multiplied. The sequence
operators are recursive functions that take a set where a library fold takes a
predicate: their value for every input can then be proved about (section 4).

Some modules also hold *slips*: variants of one definition that make a plausible
mistake, each said to be one in its comment and never used by a specification.
`PROJECT.json` pairs every checked property with a slip that breaks it, which
shows that the property depends on the code being right. Where a module has a
`TypeOK` it documents the state; those of `SandboxPool` and `SandboxTurn` are proved,
and the other proof modules prove as much typing as they need.

### SandboxPool

Processes are goroutines: a Run from `Build` to its deferred cleanup, the callers
of `Evict`, `EvictIdle` and `Close`, and the reaper. `p.mu` protects single map
operations, so each of these is one step. `entry.inUse` is modelled as a lock
(`holder`), because what happens between its Lock and Unlock matters.

| Go | TLA+ |
|---|---|
| `p.entries` | `entries`: session -> sandbox |
| `entry.inUse` | `holder`: sandbox -> goroutine |
| `ctxHolder`, `SetOnEvent` | `bound`: sandbox -> Run whose context and callback it has |
| `lastUsed` older than `IdleTimeout` | `stale`, entered by `Age` at any time |
| `e.cleanup()` | `cleanups`: how often it ran |
| `Build` | `LookupHit`, `LookupMiss`, `DelegateFails`, `DelegateBuilds`, `StoreWins`, `StoreLoses`, `Discard`, `Checkout` |
| the cleanup `Build` returned | `Release` |
| `Evict`, `EvictIdle`, `Close`, `reap` | `Evict`, `EvictIdle`, `Close` (all through `Remove`), then `TakeNext`, `LockEntry`, `TearDown`; `ReaperExits` |

The delegate is an identity per sandbox; contexts, callbacks and times are reduced
to who they belong to. A `Build` waiting for the lock does not give up when its
context expires, as in the code.

`SandboxLease` says: a sandbox is opened once, leased to one Run at a time and
closed once, never while leased. It allows a lease of a closed sandbox, because
the pool grants one (see the findings).

### History and AgentRun

A trace is a sequence of rows in insertion order, as both stores keep it. A
message is named by the position of the row it replays, so that "exactly once"
can be stated; a summary row records in `covers` the positions its text stands
for. Texts are left out. `History` has one operator per function: `LastN`,
`LastCheckpoint`, `Rehydrate`, `KeepBound`, `SafeSplit`, `RetainFromStep`.

`AgentRun` gives each Run a label (`pc`) and its local variables. One step is one
store call, model call or script execution, with the bookkeeping the code does
around it:

| Go | TLA+ |
|---|---|
| `Sessions.Get`, `Steps.LastN` | `LoadSession` |
| `writeStep` | `WriteRow`: the index moves on even when the append fails |
| user step | `WriteUser` |
| `SandboxBuilder.Build`, `rehydrateHistory` | `BuildSandbox` |
| `compactHistory` | `Compact` (the summarization), `WriteCheckpoint` |
| loop head, context check, exhaustion | `NextIteration` |
| outcomes of `LLM.Stream` | `LLMFails`, `LLMBlank`, `LLMResponds`, `LLMWritesScript` |
| `ExecuteTurn` and the result step | `ExecuteTurn` |
| `UpdateData`, `TakeAnswer` | `PersistData`, `AfterScript` |
| `respond`, error steps, `finalize` | `WriteResponse`, `WriteError`, `Finalize` |

Store failures are limited by `MaxFaults`. `Crash` ends a Run's process anywhere.
With `Overlap` FALSE the Runs of the session follow one another and processes do
not die; with TRUE they interleave freely. `prevArgs` is nil, the empty object, or
the state returned in iteration n; `work` remembers the latest such state whatever was
carried after it.

### PromptBudget

One Run's turns: rehydration leaves any history whose results follow their
scripts (except the first message, whose script may lie outside the window), the
question is appended, and each turn builds the request as `runTurn` does and fits
it. A message is a kind and a cost. `Fit` follows `ContextBudget.fit`; `DropsLeast`
states independently which cut is wanted, given that room for a marker is kept. The
marker's cost grows with its count at `WideCount`, as its text does with another digit.

### SandboxTurn

One runtime of the pool, turn after turn, its `SetExecTimeout` timer included.

| Go | TLA+ |
|---|---|
| the runtime's interrupt flag; timers whose callback runs | `pending`; `armed`, `fired`, `expired` |
| the loop's `prevArgs`, the global `args` | `carried`, `args` |
| `s.logs`, `s.answered`, `s.requireCache` | `logs`, `answered`, `cache` (`loading`: modules whose bodies run) |
| `AfterFunc` callback: fires, then calls `Interrupt` | `TimerFires`, `Interrupt` |
| `ExecuteTurn` up to `RunString` | `BeginTurn`, `InjectArgs` |
| what the script does | `Script`: `Log`, `Answer`, `Require`, `ModuleLoads`, `ModuleThrows`, `CallTool`, `Returns`; `ToolReturns` |
| its end | `Fails`, `ClearAfterError`, `StopTimer`; `PackPanics`, `Recover` |
| another `Run` takes the runtime: `SetPolicy`, its empty `prevArgs` | `NewRun` |

`Stop` does not wait for a callback that has begun, so `Interrupt(t)` may come in
any later turn. One that is pending when the args are injected fails that one line
(`args = JSON.parse(...)`, run as a script of its own) and is over with it: `InjectArgs`
then leaves the empty object, clears the flag and goes on. With nothing to inject no
line is run, and the interrupt waits for the script. `carried` is a value of an earlier
turn, the empty object (`Nothing`), or no value (`Null`). A script takes its steps in any
order and may loop for ever. `require()` puts a module into the cache when its body has
ended and looks for nothing else, so modules may load each other in circles; the real
stack overflows, the model's `loading` stops at `MaxDepth`.

### ModelCall

One call by the loop (`Stream`) or by `ai()` (`Complete`). `Post` and the answers to
it (`Unanswered`, `Overloaded`, `Rejected`, `Odd`, `Accepted`) are `post`'s attempts;
`Wake` and `SleepCancelled` its backoff, with `Exponential`, `CapDelay`, `RetryAfter`
and `RetryDelays` for `retry.go`'s arithmetic; `Delta`, `OtherFrame`, `StreamEnds`,
`StreamBreaks`, `PlainBody` and `Completed` the body; `Hear` and `Decide` the
streamer behind the callback. A text is a sequence of symbols, those of a fence with its
tag, of the DONE marker, line ends, a space and one for all the rest; a frame brings any
number of them, so that a fence or marker may be cut anywhere and `Decide` sees what
`onChunk` sees: the text so far, its white space trimmed, and whether the hold-back is
used up. `HasDone` and `HasBlock` are the parser's two expressions over the whole reply,
for `ShowsNoScript` (section 5) to compare the streamer with. A duration is a small number.

### TerminalSessions, SqlStore, MemStore, SessionLog

A process of `TerminalSessions` is `agentloop run` or `agentloop chat`: `Start`
(`--session`, `--continue`, `--ephemeral`, approval mode), `BeginTurn`, `TakeStep`,
`EndTurn`, `NewSession` (`/new`), `Leave` (also by being killed, anywhere), and an
approval as `Confirm`, `Recall`, `Lookup` (the store's `Grants`), `Answer` or
`InputEnds`, `Record`. `Delete` and `Revoke` are the `sessions` commands, at any
time. `memo` is `terminalPrompter.remembered`; `rows`, `steps` and `grants` are the
tables. `Stamp` writes an instant as `time.RFC3339Nano` does and `TextLess` compares
two as SQLite does.

`SqlStore` looks at the same database a level below: `Append` is `BeginAppend`,
`TouchSession`, `InsertStep`, `Commit`, and `Delete` is `BeginDelete`, `DropSession`,
`DropSteps`, `Commit`; the first writing statement takes the write lock; `Rollback`
is a failed statement, an expired context or a dead process. `MemStore` has one
step per method. Each ends with an `INSTANCE SessionLog WITH` that maps its tables
to traces and snapshots: the abstract log changes only by a commit.

### EvalSuite and ChunkedSummary

`RunSuite` of a caller is `GetSuite`, `ListCases`, `CreateRun`, then per case
`AgentFails`, or `AgentAnswers` and `JudgeFails` or `JudgeScores`, then `FinishRun`:
each a critical section of the store or a model call. `CreateSuite`, `DeleteSuite`,
`AddCase` and `DeleteCase` happen between any two of them.

`ChunkedSummary` keeps the bodies still to be summarized (`todo`), the summaries so
far (`parts`) and the `round`. `TranscriptChunks`, `Groups` and `GroupParts` are the
code's grouping, over token counts; every body carries the messages it `covers`.

### The packs

* `FetchAccess`: `Fetch` and `Http` ask `Cleared` (an approval in `sessionAllowed`, or
  the policy: `Check`, `Probe`, `URLMatches`), else the user (`Yes`, `No`); `AllowUrls`
  asks for one host after another (`NextOfBatch`), in the order Go's map yields.
  `Policies` are chains of the three kinds of checkers there are. A request that leaves
  may be redirected, up to `MaxRedirects` times and anywhere (`Redirect`): net/http
  follows, and asks nobody.
* `CommandExec`: `Authorize`, `Answer`, `Start`, then the child (`Exits`), helpers that
  keep the pipes open (`Forks`, `HelperEnds`; in the child's process group or out of
  it), the context (`TimeoutPasses`, `RunCancelled`), os/exec's watcher (`Terminate`),
  `Reap`, the wait delay (`DelayPasses`) and `Drained` or `Abandoned`; `Return` is the
  code's triage of the error.
* `WorkspaceEdit`: a call reads (`WriteFile`, `EditFile`), asks (`Answer`), opens and so
  empties the file (`Open`), fills it, perhaps not wholly (`Fill`); `OthersWrite` is any
  other program, at any moment. A text is a sequence of symbols, so that an occurrence
  may overlap another and a replacement may hold or recreate what it replaces; `Ambiguous`
  and `ReplaceAll` are `strings.Count` (more than one that do not overlap) and
  `strings.ReplaceAll` (from the left).
* `WorkspaceSearch`: `ReadFile`, `Glob` and `Grep` as operators over a tree. `Walk` goes
  over the files in directories that can be read (`Visible`) until a visitor, the cap on
  results or the cap on files ends it; `Scan` is grep's visitor, which passes over what
  it cannot read, what is too large and what is binary (`Searched`); `MatchSegments` is
  the glob. The state is the files' contents and what cannot be read; a step changes
  either. A search sees one state of the disk.
* `BrowserMarks`: `Install` is the script that numbers the elements; `Mark`, `AskMarks`
  (with `Screenshot`, `VisionAnswers`), `ClickMark`, `TypeMark` the primitives; any of
  them may fail after it took effect (`MarkFails`, `AskFails`). `TypeMark` focuses, `KeyEvent`
  types into what has the focus a round trip later. The page `Rerenders`, moves the focus
  and `Navigates` by itself.
* `ChromeDriver`: `Ensure`, `StartFails`, `Started`, `Casts`, `CastFails` under `mu`,
  `TakePage` and `StepEnds` under `runMu`; `Close`, `Crashes` and `TurnEnds` between any
  two of them.

## 3. What the runs check

| Run | Instance | Checks |
|---|---|---|
| `pool_safety` | 2 Runs, 1 caller, reaper, 2 sessions, 3 sandboxes; symmetric | `ExclusiveUse`, `BoundToUser`, `CleanedExactlyOnce` |
| `pool_live` | 2 Runs, 1 caller, reaper, 1 session, 2 sandboxes; fair | `CheckoutReturns`, `IdleIsReaped`, `SwapOnlyBetweenRuns`, `ImplementsLease` |
| `pool_torn` | 1 Run, 1 sandbox | `UsedSandboxIsLive` fails |
| `session_serial` | 3 Runs, 2 iterations, 1 blank retry, window 5, trigger 2, keep 1; fair | `ReplayedOnce`, `ResultsKeepScripts`, `SnapshotIsLatestWork`, `RunReturns` |
| `session_overlap` | 2 overlapping Runs that may die, 1 iteration, 1 store failure | `TraceTellsOutcome`, `LoneScriptWasInFlight` |
| `session_dropped` | 4 Runs, window 5 | `NothingDropped` fails |
| `turns` | 2 turns, 1 log line each, 2 modules, 3 loads under way, 1 tool; fair | `TimeoutsCharged`, `ReportIsOwn`, `TurnEnds` |
| `turn_args` | the same | `ArgsIntact` fails |
| `model_call` | 55 replies and their beginnings, 7 symbols held back, cap 8, four retry configurations; fair | `ChunksAreReply`, `ShownIsReply`, `BackoffBounded`, `CallReturns` |
| `terminal` | 2 processes, 2 sessions, 1 question; symmetric | `ApprovalWasGiven`, `GrantsAreStanding`, `NoOrphanSteps`, `ContinuesLatest` |
| `services` | 2 suites, 2 cases, 1 `RunSuite`; up to 3 messages, 2 fold rounds; 2 processes, 2 sessions, 3 rows, windows 0 and 2; histories of up to 3 messages, costs 1 and 3, allowance 10, 3 turns | `VerdictsEarned`, `NoRunLeftRunning`, `NoSilentHole`, `CompactionEnds`, `StoresKeepLog`, `FitsOrOver`, `TokensHonest`, `DropsLeast`, `NoStrandedResult` |
| `packs` | seven policies over 3 hosts; 2 exit codes; up to 2 redirects; 3 documents of 2 elements; 2 driver calls, 2 launches; 1 file of up to 3 symbols; a tree of 4 files of up to 2 lines, four choices of what cannot be read | `AsksOnceThenHonours`, `StatusIsTheCommands`, `ExecReturns`, `NumbersAreLatest`, `CloseReleasesChrome`, `EditIsExact`, `SearchTellsAll` |

What they show, by hazard:

* *Nobody shares and nothing is lost.* `ExclusiveUse`, `BoundToUser`,
  `CleanedExactlyOnce`; `NoOrphanSteps` and `StoresKeepLog` for rows between two
  processes that may die inside a transaction; `CloseReleasesChrome` for processes.
* *What is told is true.* `TraceTellsOutcome` (a returned Run's rows tell how it ended),
  `LoneScriptWasInFlight` (a script without its result was running when its process died),
  `ReportIsOwn` (no answer or log line of an earlier script), `ChunksAreReply` and
  `ShownIsReply` (no retry, fallback or plain body repeats or skips text),
  `StatusIsTheCommands`, `VerdictsEarned`, `SearchTellsAll`.
* *What is carried on is complete.* `ReplayedOnce` and `ResultsKeepScripts` across
  checkpoints, `NoSilentHole` across chunks and merges, `SnapshotIsLatestWork` across
  scripts that throw, answer or return nothing.
* *The user's word.* `AsksOnceThenHonours`, `ApprovalWasGiven`, `GrantsAreStanding`,
  `EditIsExact`.
* *Stale numbers and stamps.* `NumbersAreLatest`, `ContinuesLatest`.
* *Limits.* `FitsOrOver`, `TokensHonest`, `DropsLeast`, `NoStrandedResult`,
  `TimeoutsCharged`, `BackoffBounded`.
* *It ends.* `CheckoutReturns`, `IdleIsReaped`, `RunReturns`, `TurnEnds`, `CallReturns`,
  `CompactionEnds`, `ExecReturns`.

Why the bounds are enough to be interesting:

* *Pool.* Two Runs reach every path to the lock (hit, miss, lost race) while a
  sweep and an explicit eviction are both in progress; three sandboxes let an
  evicted, a discarded and a live one coexist. `Sandboxes` runs out at the end of
  long behaviours, and a `Build` that misses can then only fail; nothing else
  stops. The proofs do not depend on any of these numbers.
* *Session.* With trigger 2 and keep 1 the second Run already compacts and the
  third replays a checkpoint and compacts again, over a summary. The window of 5
  is full in the third Run, so that a replay also begins behind a cut. Both
  invariants state their condition on numbering (`IndicesIncrease`) explicitly:
  section 5 says what happens without it. Two iterations cover the carry of
  state from one turn to the next, including a turn that throws; overlapping Runs
  take one iteration each, because interleavings of two longer Runs exceed what can
  be enumerated.
* *Prompt.* The allowance leaves room for two to four messages, so every cut
  position, both sides of the equality and an over-full floor occur.
* *Turns.* Two turns are what a late interrupt needs; two modules and three loads
  under way let one be loaded within its own loading.
* *Model call.* The replies are scripts, prose, other fences and markers in both forms,
  behind so little white space that a fence or marker lies within the hold-back, just
  fits into it, or does not; every cut into frames occurs. The configurations have the default, no
  retries, a base above the cap and doubling that passes it; hints lie below, at and
  above the cap and in the past.
* *Terminal.* One process can use a session while the other deletes, revokes or
  resumes it; a chat goes on under a new id. The two instants lie in successive
  seconds, the later one with the shorter stamp. One question suffices, since no
  answer looks at another.
* *Services.* A case may be judged under a rubric or not and vanish meanwhile; with
  allowance 6 a message of 7 is elided, one of 5 is alone, ones of 2 share a chunk,
  and replies of 7 never fit. Three rows and windows of 0 and 2 let `LastN` return
  nothing, all and the end of a trace; one process's transaction is open while the other tries.
* *Packs.* One host is a subdomain of another and one is private; a batch names
  three; a host whose text begins like another's passes a prefix. Two launches let a
  process be orphaned by a second start. Three symbols make an occurrence missing,
  unique, ambiguous or overlapping, and replacements of up to two symbols hold or make
  anew what was found. The tree has a skipped directory and more files than a walk
  visits: some patterns make it give up, some stop it with every match found, some match
  more files than there may be results; the root, a directory or files may be closed.
  `ReplaceAllScans` of `MCPacks` compares `ReplaceAll` with a scan of the text, for all
  texts of up to five symbols.

Deadlock is checked for the pool and the terminal, where somebody can always move
on. The other systems end, so their configurations say `CHECK_DEADLOCK FALSE`.

### Fairness

* *Pool*: goroutines that can move do (weak fairness); the delegate returns and a
  Run ends, since `RunTimeout` bounds it; a waiter on `sync.Mutex` is not starved
  (after 1 ms it is handed the lock in FIFO order), hence strong fairness on
  `Checkout` and `LockEntry`; the reaper's ticker keeps firing. Nobody is obliged to
  call `Build`, `Evict` or `Close`.
* *Run*: weak fairness of a started Run's next step: model calls and scripts are
  bounded by `RunTimeout` and the script timeout. Nobody is obliged to start a Run.
* *Turn*: timers expire and their goroutines are scheduled; an interrupted script
  stops; a tool call returns, as each built-in one has a deadline of its own.
  Nothing makes a script take another step. A script whose own interrupt was spent on
  its args has no time limit left, and `TurnEnds` says so (`Uncapped`).
* *Model call*: the HTTP client has a deadline that includes the body, so a request is
  answered or fails and a body ends; timers fire. Nobody is obliged to cancel.
* *Compaction*: a summarization call returns, as a model call does.
* *Exec*: the program and its two timers move; the command, its helpers and the user
  need not.

## 4. What is proved

Every invariant and action property of the passing runs is a theorem, and so are
both refinements: for every value of the constants, so for any number of Runs,
processes, rows, messages and replies, and texts of any length. Eight proof
modules, checked by TLAPS. Most properties are not inductive; each proof finds a
stronger invariant, shows that the initial states have it, that every action
keeps it, and that it implies the property. TLC checks the same properties on the
small instances.

**Assumptions.** They are named, and TLC evaluates them in every run.

| Assumption | Says | Why the code justifies it |
|---|---|---|
| `PoolAssumption`, `TerminalAssumption`, `StoresAssumption`, `ToolAssumption` | identities differ, and nobody is none of them | goroutines, processes and ids are distinct values |
| `RunAssumption`, `TurnAssumption`, `ModelCallAssumption`, `ChunkAssumption`, `EvalAssumption` | numbers are numbers of the right kind | Go's types, and defaults where zero is replaced |
| `BudgetAssumption` | the budget is enabled and a message costs something | `fit` returns at once when disabled; role framing is charged for every message |
| `HostsAssumption` | the empty string is no host | `Hostname` of an argument without one is refused |
| `EditAssumption` | what edits look for and put in are texts, and what they look for is not empty | `editFile` refuses an empty `find` |
| `SearchAssumption` | the caps of a search are at least 1 | `WorkspaceOptions` replaces others by defaults |

**Lists** (`Lists_proofs`). What `Only`, `SumOf`, `Flat` and `Picked` compute for every
sequence: type, elements, order and count of what is kept, that keeping twice is
keeping the intersection, the sum and the join of two sequences, that regrouping
pieces and joining them gives the same whole. The induction theorems of the library
take an operator, which the provers here cannot instantiate; `NumberInduction` and
`SequenceInduction` take the *set* of values that have the property instead, and
`RecursionExists` gives a recursive function its existence. The other modules rest on
these lemmas.

**Pool** (`SandboxPool_proofs`). `TypeOK`, `ExclusiveUse`, `BoundToUser`,
`CleanedExactlyOnce`, `SwapOnlyBetweenRuns` and `ImplementsLease`, from
`IInv == TypeOK /\ LockInv /\ CustodyInv`:

* `LockInv` says where each lock is: a Run that uses a sandbox, or has built one it
  has not stored, holds its lock and is bound to it, and an evictor tearing one
  down holds its lock. One holder per lock gives `ExclusiveUse`.
* `CustodyInv` says that each sandbox is in exactly one custody: at most one place
  in the map, one sweep, one evictor's hands, or one Build's, and which of them
  exclude each other. `CleanedExactlyOnce` counts the cleanups against it; without
  it a sandbox could be swept by two evictors.

`UserUpdate`, `StateUpdate` and `LeaseStep` carry the refinement: a pool step changes
the abstract user of one sandbox, or the state of one, or neither.

**Run** (`AgentRun_proofs`), with and without overlap, crashes and store failures:

* `SnapshotIsLatestWork` is strengthened to `SnapshotInv`, which adds that a Run that has
  not started carries nothing and that without overlap one Run is active at a time
  (`CarryInv`): otherwise another Run could be about to overwrite the snapshot. It adds
  too that what a Run carries is its latest work or nothing, and what it is about to
  persist is that work (`WorkInv`).
* `TraceTellsOutcome` is strengthened to `TraceInv`: `Outcome` says, for each place a
  Run can be in, whether it has written a response and which type its last row has.
* `LoneScriptWasInFlight` is strengthened to `LoneInv`: unless the Run lost a row, each of
  its scripts is its last row and running or died (`Open`), or its next row is the
  result (`Followed`).
* `ReplayedOnce` is strengthened to `ReplayInv`. `Sound` says of every row of the trace
  what a writer can have put there, of a summary in particular: it covers exactly
  the turns below the position it retains from. `Follows` says that each Run's history
  is what `Rehydrate` makes of some prefix of the trace, or one compaction of that. The
  heart is arithmetic over positions: what a checkpoint covers, what it retains and
  what the window holds are three intervals that meet.
* `ResultsKeepScripts` is strengthened to `ScriptInv`: a result's row comes right
  after its script's (`Paired`), and no checkpoint retains from a result
  (`NamesNoResult`), since the split steps back over one. The attempt to prove it
  without a condition on numbering failed for a good reason: once a full window makes
  indices restart, a checkpoint may name an index that an old result has too, and
  the replay begins in the middle of a pair. The property now says so, as
  `ReplayedOnce` does; it is the same fault as in section 5's first finding.

**Turn** (`SandboxTurn_proofs`). `TypeInv` adds to `TypeOK` how far the report of the
current turn has got (`StageInv`, `ReportInv`), which gives `ReportIsOwn`. `ChargeInv`
is that of `TimeoutsCharged`: an expired timer is on its way, pending, about to be charged
for lost args, or charged to one script that failed or was run without its args, never
to two of them.

**Model call** (`ModelCall_proofs`). `HeardInv` relates the accumulated text, the text
heard and the attempt: as long as anything may be posted again, nothing has been
heard; hence `ChunksAreReply`. `ShownInv` says of the streamer that it has shown nothing before it
decides; from then on what it shows lacks nothing of what it has heard but leading
white space and a leading marker, and what it has heard does not open with a fence,
unless white space had used up the hold-back before the fence was complete. Hence
`ShownIsReply`, for replies of any length and however they are cut into frames; the
lemmas before it are about texts, their parts and what trimming leaves of them.
`BackoffBounded` needs that doubling stays positive and that capping is monotone.

**Terminal** (`TerminalSessions_proofs`). `RecordInv` and `MemoInv` say that a grant on
its way or in a process's memory stems from a yes; with them `ApprovalWasGiven`,
`GrantsAreStanding` and `NoOrphanSteps` are inductive. `ContinuesLatest` follows from
`TextLess`: stamps of different seconds differ in a digit before the fraction.

**Packs** (`Packs_proofs`). `PacksInv` has a part for each pack:

* `FetchInv`: the approvals are what was said yes to, and the request that a call makes
  was cleared; redirects are not (section 5). It gives `AsksOnceThenHonours` for any
  chain of policies.
* `ExecInv`: the child, its status and the error stand in the relation the triage
  relies on (`StatusIsTheCommands`).
* `MarksInv`: the page's map is that of the last install, and a `typeMark` under way has
  the focus on a listed element unless the page has moved it (`NumbersAreLatest`).
* `ChromeInv`: one call under each mutex, and which process the driver knows
  (`CloseReleasesChrome`).
* `EditInv`: what the file is at each place of a call, and what was read and found
  before it (`EditIsExact`).
* `SearchInv` only types the disk: `SearchTellsAll` is about a walk, whose invariants
  are `GlobTold` and `GrepTold`. After i files they say what has been told of the
  matches among them that can be reached and read (`Met`, `HeardIn`), and once the walk has stopped why that is
  enough.

**Services** (`Services_proofs`). `ServicesInv` has a part for each service:

* `EvalInv`: the results of a job are earned verdicts on the listed cases, in order,
  and a run that is over is the job's (`VerdictsEarned`, `NoRunLeftRunning`).
* `ChunkInv`: what was summarized and what is to be stands for all older messages.
  Chunking and every merge keep it because grouping leaves out nothing and keeps
  the order (`NoSilentHole`).
* `SqlInv`: what an open transaction has done so far, so that rolling it back gives
  the tables before it, and committing one step of the log; `MemInv`, the rows' type.
  They give `StoresKeepLog`: both stores implement `SessionLog` step by step.
* `BudgetInv`: results follow their scripts in a request, and what was sent is `Fit`
  of it. The cut `Fit` makes is then characterised independently
  (`FitsOrOver`, `TokensHonest`, `DropsLeast`, `NoStrandedResult`).

**Only model-checked**: liveness (`CheckoutReturns`, `IdleIsReaped`, `RunReturns`,
`TurnEnds`, `CallReturns`, `CompactionEnds`, `ExecReturns`). It rests on fairness and
on ENABLED, which the provers here do not reason about. The three runs that find a
violation are counterexamples, which need no proof.

## 5. Where code and documentation disagree

Three runs find a violation:

* **Turns are dropped after a checkpoint in a long session** (`session_dropped`).
  Once the trace exceeds `HistoryWindow`, `stepIdx` starts at the window size again.
  A checkpoint's `retain_from_step` may then be larger than the indices of turns
  written after it, and `rehydrateHistory` skips those.
* **A torn-down sandbox may be handed out** (`pool_torn`): look-up and lock are two
  steps, and an eviction fits in between. With a delegate whose cleanup does
  nothing (the default builder) this is harmless.
* **A script may run without its args** (`turn_args`). The args are injected by a line
  of script of their own. An interrupt that comes late from an earlier turn, or the
  turn's own, fails that line and is used up by it; the script then runs with an empty
  object, and if the interrupt was its own, without a time limit.

The others are stated as a definition of their module, beside the property that does
hold, and quoted in `PROJECT.json`; to see one, put the definition into the
configuration of the run as an invariant (or a property, where it is an action formula),
that of a pack or a service after naming it in `Packs` or `Services` as the checked
ones are. Three need other bounds: `ResultsHaveScripts` a window of 4 without a compactor,
`ContinuesExactlyLatest` the instants 2 and 3, and `GivesUpOnlyWhenStuck` four messages.

| Definition | Module | What happens |
|---|---|---|
| `ResultsHaveScripts` | `AgentRun` | a replay may begin with a result whose script the window cut off |
| `SessionRunsSerialize` | `SandboxPool` | after an eviction of a busy entry two Runs of a session run side by side, in two runtimes |
| `QuestionIsSent` | `PromptBudget` | from the second turn on the question may be dropped from the prompt |
| `TimeoutIsOwn` | `SandboxTurn` | a late timer aborts the next turn's script |
| `FullResponse` | `ModelCall` | a stream without its end frame is returned as complete |
| `ShowsNoScript` | `ModelCall` | a script is shown and then run: prose before the fence, or more white space than the hold-back |
| `DropsOnlyToFit` | `PromptBudget` | a prompt that fits is cut when it would not fit beside a marker |
| `ReachesTheAllowed` | `FetchAccess` | redirects lead to hosts nobody was asked about |
| `ApprovalStaysInSession` | `TerminalSessions` | the memo outlives `/new` |
| `ContinuesExactlyLatest` | `TerminalSessions` | stamps without trailing zeros sort wrongly within a second |
| `RunsCascade` | `EvalSuite` | a run may outlive its suite |
| `CloseReleasesEveryChrome` | `ChromeDriver` | a screencast that fails to start leaves a process |
| `ThrowsOnlyUnstarted` | `CommandExec` | a command that exited 0 may throw when a helper holds its output |
| `ActsOnListed` | `BrowserMarks` | an old number may act on another element |
| `TypesIntoMark` | `BrowserMarks` | keys go to whatever has the focus when they arrive |
| `EditsExactlyOnce` | `WorkspaceEdit` | an edit overwrites what changed since it read the file, and does not see occurrences that overlap |
| `SearchTellsAllEverywhere` | `WorkspaceSearch` | `grep` never reads past `MaxResults` files that match the glob |
| `WindowReadsFurther` | `WorkspaceSearch` | of a file over the size cap no window reads past the cap, whatever the marker says |
| `GivesUpOnlyWhenStuck` | `ChunkedSummary` | compaction gives up although every reply was shorter |

Also noticed: `RunResult.Steps` is documented as the number of steps persisted by
the call (`loop.go:93`) but is the next index, prior steps included; `bounds`
promises a strictly shorter history (`compact.go:272-275`), but with
`keep = trigger - 1` and a step back over a result the history keeps its length; the
header of a chunk's part is not charged against a call's allowance; a write that
fails half way leaves the file emptied or cut (`ThrownIsUntouched` of
`WorkspaceEdit` does not hold).

## 6. What could come next

* `Profile` operators beside `PromptBudget`: derived settings are coherent (reserve
  below the window, keep below trigger) for every window.
* Larger compositions: the turns of a pooled runtime under the pool's lock (a late
  interrupt that meets another Run), `AgentRun` over `SessionLog` instead of its own
  trace, `TerminalSessions` over `SqlStore`'s transactions.
* Proofs of the operators that only runs evaluate: that `ReadFile`'s windows tile a
  file under the cap, that `MatchSegments` is the glob its segments describe.

## 7. Not modelled, and why

* *Texts*: prompts, the args digest's wording, rendering, markdown and OpenAPI conversion,
  redaction; of the reply parser, what it takes out of a reply (whether there is a
  fence or a marker is in `ModelCall`). They are functions from string to string, with no
  state between calls, and the repository tests them by example.
* *I/O without state of its own*: the search, mail, secret and OpenAPI packs, `listDir`,
  skills and project files. One request or one read per call.
* *Context profile*: arithmetic from one number.
* *Tracing and events*, which do not influence the loop; flags and output of the
  command line; `doctor`.
* *In modelled parts*: of the runtime's globals only `args`; the resolution of paths
  inside `os.Root`; the encoding of requests and the usage numbers; the finalize
  summaries, which nothing the loop calls reads.
* Site, examples and test helpers.
