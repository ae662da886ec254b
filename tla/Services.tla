--------------------------- MODULE Services ---------------------------
(***************************************************************************)
(* The parts around the loop, one at a time: the suite runner, the         *)
(* compactor's summarizer, the two session stores and the prompt under its *)
(* token budget.  A behaviour is a behaviour of one of them, chosen at the *)
(* start, so that one run checks them all.  Variables of the same name     *)
(* stand for the chosen one's, the others' keep the value Unused.          *)
(***************************************************************************)
EXTENDS Integers, Sequences

CONSTANTS
  Suites, CaseIds, Callers, Thresholds, Rubrics, Replies,           \* EvalSuite
  Allowance, MessageFrame, MaxFoldRounds, MessageCosts, ReplyCosts, \* ChunkedSummary
  MaxOlder,
  Procs, Sessions, Rows, Snapshots, Windows, NoData, Nobody, MaxRows,  \* the stores
  PromptAllowance, SystemCost, MarkerCost, WideCount, ElidedCost,   \* PromptBudget
  Costs, MaxPrior, MaxTurns

(* The numbers of EvalSuite: what AddCase is given may be anything, what the
   judge writes is a number, if any. *)
ASSUME EvalAssumption ==
  Thresholds \subseteq Int /\ Rubrics \subseteq Seq(Int) /\ Replies \subseteq Nat \cup {-1}

(* Token counts: of messages, of replies, of what one call may carry. *)
ASSUME ChunkAssumption ==
  MessageCosts \cup ReplyCosts \cup {Allowance, MessageFrame, MaxOlder} \subseteq Nat

(* The callers of the stores: LastN takes any number, and no process is nobody. *)
ASSUME StoresAssumption == Windows \subseteq Int /\ Nobody \notin Procs

(* The numbers of PromptBudget: a budget that is enabled, and messages that
   cost something, their role framing at least. *)
ASSUME BudgetAssumption ==
  /\ {PromptAllowance, SystemCost, MarkerCost, WideCount, ElidedCost, MaxTurns} \subseteq Nat \ {0}
  /\ Costs \subseteq Nat \ {0} /\ MaxPrior \in Nat

VARIABLES
  service,
  suites, unborn, cases, fresh, runs, judge, pc, job,
  older, todo, parts, round, outcome, shrinking,
  sessions, steps, appended, writer, draft, op, answer,
  rows, kept,
  history, base, digest, turn, prompt, sent

Unused == "unused"

E == INSTANCE EvalSuite
K == INSTANCE ChunkedSummary
Q == INSTANCE SqlStore
M == INSTANCE MemStore
B == INSTANCE PromptBudget WITH Allowance <- PromptAllowance

-----------------------------------------------------------------------------
evalVars == <<suites, unborn, cases, fresh, runs, judge, job>>
chunkVars == <<older, todo, parts, round, outcome, shrinking>>
sqlVars == <<sessions, steps, appended, writer, draft, op>>
memVars == <<rows, kept>>
budgetVars == <<history, base, digest, turn, prompt, sent>>

NoEval ==
  /\ suites = Unused /\ unborn = Unused /\ cases = Unused /\ fresh = Unused
  /\ runs = Unused /\ judge = Unused /\ job = Unused

NoChunk ==
  /\ older = Unused /\ todo = Unused /\ parts = Unused
  /\ round = Unused /\ outcome = Unused /\ shrinking = Unused

NoSql ==
  /\ sessions = Unused /\ steps = Unused /\ appended = Unused
  /\ writer = Unused /\ draft = Unused /\ op = Unused

NoMem == rows = Unused /\ kept = Unused

NoBudget ==
  /\ history = Unused /\ base = Unused /\ digest = Unused
  /\ turn = Unused /\ prompt = Unused /\ sent = Unused

Init ==
  \/ /\ service = "eval" /\ E!Init
     /\ NoChunk /\ NoSql /\ NoMem /\ NoBudget /\ answer = Unused
  \/ /\ service = "compactor" /\ K!Init
     /\ NoEval /\ NoSql /\ NoMem /\ NoBudget /\ pc = Unused /\ answer = Unused
  \/ /\ service = "sql" /\ Q!Init
     /\ NoEval /\ NoChunk /\ NoMem /\ NoBudget
  \/ /\ service = "mem" /\ M!Init
     /\ NoEval /\ NoChunk /\ NoSql /\ NoBudget /\ pc = Unused
  \/ /\ service = "budget" /\ B!Init
     /\ NoEval /\ NoChunk /\ NoSql /\ NoMem /\ pc = Unused /\ answer = Unused

evalRest == <<service, chunkVars, sqlVars, memVars, budgetVars, answer>>
chunkRest == <<service, evalVars, sqlVars, memVars, budgetVars, pc, answer>>
sqlRest == <<service, evalVars, chunkVars, memVars, budgetVars>>
memRest == <<service, evalVars, chunkVars, sqlVars, budgetVars, pc>>
budgetRest == <<service, evalVars, chunkVars, sqlVars, memVars, pc, answer>>

Next ==
  \/ service = "eval" /\ E!Next /\ UNCHANGED evalRest
  \/ service = "compactor" /\ K!Next /\ UNCHANGED chunkRest
  \/ service = "sql" /\ Q!Next /\ UNCHANGED sqlRest
  \/ service = "mem" /\ M!Next /\ UNCHANGED memRest
  \/ service = "budget" /\ B!Next /\ UNCHANGED budgetRest

vars == <<service, evalVars, chunkVars, sqlVars, memVars, budgetVars, pc, answer>>

Spec ==
  /\ Init /\ [][Next]_vars
  /\ WF_vars(service = "compactor" /\ K!Next /\ UNCHANGED chunkRest)

-----------------------------------------------------------------------------
(* eval: a completed run's verdicts are those its cases earned. *)
VerdictsEarned == service = "eval" => E!VerdictsEarned

(* eval: a RunSuite that is back leaves no record of it "running". *)
NoRunLeftRunning == service = "eval" => E!NoRunLeftRunning

(* compactor: a summary stands for every older message, once and in order. *)
NoSilentHole == service = "compactor" => K!NoSilentHole

(* compactor: a compaction ends, whatever the model answers. *)
CompactionEnds == service = "compactor" ~> service = "compactor" /\ outcome # "working"

(* stores: both implement the log that the store contracts describe. *)
StoresKeepLog ==
  /\ service = "sql" => Q!Log!Init
  /\ service = "mem" => M!Log!Init
  /\ [][service = "sql" => Q!Log!Next \/ UNCHANGED Q!Log!logVars]_vars
  /\ [][service = "mem" => M!Log!Next \/ UNCHANGED M!Log!logVars]_vars

(* budget: what is sent fits, or is reported as over with nothing left to drop. *)
FitsOrOver == service = "budget" => B!FitsOrOver

(* budget: the reported size is that of what is sent, or one token more. *)
TokensHonest == service = "budget" => B!TokensHonest

(* budget: nothing is dropped that there was room for beside a marker. *)
DropsLeast == service = "budget" => B!DropsLeast

(* budget: no result is sent without its script, unless it comes last. *)
NoStrandedResult == service = "budget" => B!NoStrandedResult
=============================================================================
