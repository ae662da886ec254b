---------------------------- MODULE EvalSuite ----------------------------
(***************************************************************************)
(* The evaluation harness: eval.Service over evalmem.InMemoryStore.        *)
(*                                                                         *)
(* RunSuite reads a suite, then its cases, then creates a run record, runs *)
(* the cases one by one through the agent and the judge, and files the     *)
(* results: four separate critical sections of the store, between which    *)
(* another caller may add or delete cases and delete the suite.  The store *)
(* never looks at a context, so a caller's cancellation shows only as      *)
(* agent and judge calls that fail.                                        *)
(***************************************************************************)
EXTENDS Integers, Sequences, FiniteSets, FiniteSetsExt, Lists

CONSTANTS
  Suites,       \* suite identifiers
  CaseIds,      \* case identifiers
  Callers,      \* concurrent RunSuite calls, one run record each
  Thresholds,   \* the passThreshold arguments of AddCase
  Rubrics,      \* the items arguments: sequences of MinScore
  Replies       \* the scores a judge writes; NoScore: no "Score: <n>" in it

NoScore == -1
DefaultPassThreshold == 7
Nothing == [status |-> "absent"]

VARIABLES
  suites,       \* the stored suites
  unborn,       \* suite ids not handed out yet
  cases,        \* the stored cases, oldest first
  fresh,        \* case ids not handed out yet
  runs,         \* caller -> the run record it created
  judge,        \* whether the service has a judge client
  pc, job       \* caller -> its place in RunSuite, and its local state

storeVars == <<suites, unborn, cases, fresh, runs>>
vars == <<suites, unborn, cases, fresh, runs, judge, pc, job>>

Cases == [id : CaseIds, suite : Suites, threshold : Int, items : Seq(Int)]
NoSummary == [total |-> 0, passed |-> 0, failed |-> 0]
NoJob == [suite |-> "none", listed |-> <<>>, results |-> <<>>, verdicts |-> <<>>]

Init ==
  /\ suites = {} /\ unborn = Suites
  /\ cases = <<>> /\ fresh = CaseIds
  /\ runs = [c \in Callers |-> Nothing]
  /\ judge \in BOOLEAN
  /\ pc = [c \in Callers |-> "idle"]
  /\ job = [c \in Callers |-> NoJob]

-----------------------------------------------------------------------------
(* The CRUD half of the service. *)

OrDefault(n, default) == IF n <= 0 THEN default ELSE n

CreateSuite ==
  \E s \in unborn :
    /\ suites' = suites \cup {s} /\ unborn' = unborn \ {s}
    /\ UNCHANGED <<cases, fresh, runs, judge, pc, job>>

(* DeleteSuite cascades to the cases and the runs that are there. *)
DeleteSuite ==
  \E s \in suites :
    /\ suites' = suites \ {s}
    /\ cases' = Only(cases, {k \in Elements(cases) : k.suite # s})
    /\ runs' = [c \in Callers |->
                  IF runs[c] # Nothing /\ runs[c].suite = s THEN Nothing ELSE runs[c]]
    /\ UNCHANGED <<unborn, fresh, judge, pc, job>>

(* AddCase fills the defaults in; nothing asks whether the suite exists. *)
AddCase ==
  \E id \in fresh, s \in Suites \ unborn, t \in Thresholds, items \in Rubrics :
    LET threshold == OrDefault(t, DefaultPassThreshold) IN
    /\ cases' = Append(cases, [id |-> id, suite |-> s, threshold |-> threshold,
                 items |-> [i \in DOMAIN items |-> OrDefault(items[i], threshold)]])
    /\ fresh' = fresh \ {id}
    /\ UNCHANGED <<suites, unborn, runs, judge, pc, job>>

DeleteCase ==
  \E id \in CaseIds \ fresh :
    /\ cases' = Only(cases, {k \in Elements(cases) : k.id # id})
    /\ UNCHANGED <<suites, unborn, fresh, runs, judge, pc, job>>

-----------------------------------------------------------------------------
(* RunSuite. *)

Goto(c, label) == pc' = [pc EXCEPT ![c] = label]

GetSuite(c) ==
  /\ pc[c] = "idle"
  /\ \E s \in Suites \ unborn :
       \/ /\ s \in suites
          /\ job' = [job EXCEPT ![c].suite = s]
          /\ Goto(c, "list")
       \/ /\ s \notin suites
          /\ Goto(c, "failed")
          /\ UNCHANGED job
  /\ UNCHANGED <<storeVars, judge>>

ListCases(c) ==
  /\ pc[c] = "list"
  /\ job' = [job EXCEPT ![c].listed = Only(cases, {k \in Elements(cases) : k.suite = job[c].suite})]
  /\ Goto(c, "create")
  /\ UNCHANGED <<storeVars, judge>>

CreateRun(c) ==
  /\ pc[c] = "create"
  /\ runs' = [runs EXCEPT ![c] = [suite |-> job[c].suite, status |-> "running",
                                  results |-> <<>>, summary |-> NoSummary]]
  /\ Goto(c, "agent")
  /\ UNCHANGED <<suites, unborn, cases, fresh, judge, job>>

Finished(c) == Len(job[c].results) = Len(job[c].listed)
Current(c) == job[c].listed[Len(job[c].results) + 1]

(* The results of runCase: a failure fills Error in, a judged case the rest. *)
FailedResult(c, error, response) ==
  [case |-> Current(c).id, error |-> error, response |-> response,
   score |-> 0, passed |-> FALSE, verdicts |-> <<>>]

Total(verdicts) == SumOf([i \in DOMAIN verdicts |-> verdicts[i].score])

(* A slip: the verdict of the criterion judged last decides the case. *)
JudgedResultLast(c, verdicts) ==
  [case |-> Current(c).id, error |-> "", response |-> TRUE,
   score |-> Total(verdicts) \div Len(verdicts),
   passed |-> verdicts[Len(verdicts)].passed,
   verdicts |-> IF Current(c).items = <<>> THEN <<>> ELSE verdicts]

JudgedResult(c, verdicts) ==
  [case |-> Current(c).id, error |-> "", response |-> TRUE,
   score |-> Total(verdicts) \div Len(verdicts),
   passed |-> \A i \in DOMAIN verdicts : verdicts[i].passed,
   verdicts |-> IF Current(c).items = <<>> THEN <<>> ELSE verdicts]

File(c, result) ==
  job' = [job EXCEPT ![c].results = Append(@, result), ![c].verdicts = <<>>]

(* A slip: a case the agent fails ends RunSuite before FinishRun. *)
AgentFailsTheSuite(c) ==
  /\ pc[c] = "agent" /\ ~Finished(c)
  /\ Goto(c, "failed")
  /\ UNCHANGED <<storeVars, judge, job>>

AgentFails(c) ==
  /\ pc[c] = "agent" /\ ~Finished(c)
  /\ File(c, FailedResult(c, "agent", FALSE))
  /\ UNCHANGED <<storeVars, judge, pc>>

AgentAnswers(c) ==
  /\ pc[c] = "agent" /\ ~Finished(c)
  /\ \/ /\ judge
        /\ Goto(c, "judge")
        /\ UNCHANGED job
     \/ /\ ~judge
        /\ File(c, FailedResult(c, "unjudged", TRUE))
        /\ UNCHANGED pc
  /\ UNCHANGED <<storeVars, judge>>

JudgeFails(c) ==
  /\ pc[c] = "judge"
  /\ File(c, FailedResult(c, "judge", TRUE))
  /\ Goto(c, "agent")
  /\ UNCHANGED <<storeVars, judge>>

(* parseJudgeReply: the first "Score: <n>", at most 10, and 0 without one. *)
ParseScore(reply) ==
  CASE reply = NoScore -> 0
    [] reply > 10 -> 10
    [] OTHER -> reply

(* The item judged next, its MinScore defaulted once more; a case with no
   items is judged once against its threshold. *)
MinScore(c) ==
  IF Current(c).items = <<>>
    THEN Current(c).threshold
    ELSE OrDefault(Current(c).items[Len(job[c].verdicts) + 1], Current(c).threshold)

(* One judge call; the last one of the case rolls the verdicts up. *)
JudgeScores(c) ==
  /\ pc[c] = "judge"
  /\ \E reply \in Replies :
       LET score == ParseScore(reply)
           verdicts == Append(job[c].verdicts,
             [score |-> score, min |-> MinScore(c), passed |-> score >= MinScore(c)])
       IN \/ /\ Len(verdicts) < Len(Current(c).items)
             /\ job' = [job EXCEPT ![c].verdicts = verdicts]
             /\ UNCHANGED pc
          \/ /\ Len(verdicts) >= Len(Current(c).items)
             /\ File(c, JudgedResult(c, verdicts))
             /\ Goto(c, "agent")
  /\ UNCHANGED <<storeVars, judge>>

ComputeSummary(results) ==
  LET passed == Len(Only(results, {r \in Elements(results) : r.passed})) IN
  [total |-> Len(results), passed |-> passed, failed |-> Len(results) - passed]

(* FinishRun replaces the record that is there, and fails when none is. *)
FinishRun(c) ==
  /\ pc[c] = "agent" /\ Finished(c)
  /\ \/ /\ runs[c] # Nothing
        /\ runs' = [runs EXCEPT ![c].status = "completed",
                                ![c].results = job[c].results,
                                ![c].summary = ComputeSummary(job[c].results)]
        /\ Goto(c, "returned")
     \/ /\ runs[c] = Nothing
        /\ Goto(c, "failed")
        /\ UNCHANGED runs
  /\ UNCHANGED <<suites, unborn, cases, fresh, judge, job>>

Next ==
  \/ CreateSuite \/ DeleteSuite \/ AddCase \/ DeleteCase
  \/ \E c \in Callers :
       \/ GetSuite(c) \/ ListCases(c) \/ CreateRun(c)
       \/ AgentFails(c) \/ AgentAnswers(c) \/ JudgeFails(c) \/ JudgeScores(c)
       \/ FinishRun(c)

Spec == Init /\ [][Next]_vars

-----------------------------------------------------------------------------
(* The verdict of a case with its listed record k and its result r. *)
Earned(k, r) ==
  LET mins == Elements(k.items) IN
  /\ r.case = k.id
  /\ r.error # "" => r.score = 0 /\ ~r.passed /\ r.verdicts = <<>>
  /\ r.error = "" /\ k.items = <<>> => (r.passed <=> r.score >= k.threshold)
  /\ r.error = "" /\ k.items # <<>> =>
       /\ Len(r.verdicts) = Len(k.items)
       /\ r.passed <=> \A i \in DOMAIN k.items : r.verdicts[i].score >= k.items[i]
       /\ r.passed => r.score >= Min(mins)

(* A completed run judges every case that was listed when it started, once
   and in order, whatever was added or deleted meanwhile; a case passes
   exactly when no call for it failed and every rubric item reached its own
   minimum, and the summary counts those cases (RunSuite, runCase). *)
VerdictsEarned ==
  \A c \in Callers : runs[c] # Nothing /\ runs[c].status = "completed" =>
    LET results == runs[c].results
        summary == runs[c].summary IN
    /\ Len(results) = Len(job[c].listed)
    /\ \A i \in DOMAIN results : Earned(job[c].listed[i], results[i])
    /\ summary.total = summary.passed + summary.failed
    /\ summary.passed = Cardinality({i \in DOMAIN results : results[i].passed})

(* When RunSuite is back, no record of it is left "running": the run was
   completed, whichever calls failed in it, or went with its suite (RunSuite,
   FinishRun). *)
NoRunLeftRunning ==
  \A c \in Callers : pc[c] \in {"returned", "failed"} => runs[c].status # "running"

(* What stores.go says of DeleteSuite, of the runs: none is left whose suite
   is gone.  CreateRun after a DeleteSuite leaves one. *)
RunsCascade ==
  \A c \in Callers : runs[c] # Nothing => runs[c].suite \in suites
=============================================================================
