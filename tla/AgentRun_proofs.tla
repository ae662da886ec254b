--------------------------- MODULE AgentRun_proofs ---------------------------
(***************************************************************************)
(* Proofs about Loop.Run for any number of Runs, iterations, retries and   *)
(* store failures, overlapping or not.  SnapshotInv strengthens            *)
(* SnapshotIsLatestWork; TraceInv follows each Run's rows to its outcome;  *)
(* LoneInv says what comes behind each script; ReplayInv says what every   *)
(* row of the trace and every Run's history stand for; ScriptInv where     *)
(* the script of each execution result is.                                 *)
(***************************************************************************)
EXTENDS AgentRun, Lists_proofs, SequenceTheorems, TLAPS

\* What every Run's control state ranges over.
Statuses == {"", "completed", "error", "max_iterations"}
WriteKinds == {"step", "data"}

ControlOK ==
    /\ pc \in [Runs -> Labels]
    /\ status \in [Runs -> Statuses]
    /\ lost \in [Runs -> SUBSET WriteKinds]

\* The counter and the state a Run carries between turns.
CarriedOK ==
    /\ iter \in [Runs -> 0..MaxIterations]
    /\ args \in [Runs -> Args]
    /\ work \in [Runs -> Args]

\* A Run that has not started carries nothing; without overlap one Run is
\* active at a time.
CarryInv ==
    /\ \A r \in Runs : pc[r] = "new" => args[r] = Empty /\ work[r] = Nil
    /\ ~Overlap => \A q, r \in Runs : Active(q) /\ Active(r) => q = r

\* What a Run carries is its latest work, or nothing, and what it is about to
\* store is that work.
Carries(r) ==
    /\ args[r] \in {Nil, Empty, work[r]}
    /\ pc[r] = "persist" => args[r] = work[r]

WorkInv == \A r \in Runs : Carries(r)

SessionOK ==
    session \in [by: Runs \cup {NoRun}, data: Args,
                 status: Statuses]

SnapshotInv == ControlOK /\ CarriedOK /\ SessionOK /\ CarryInv /\ WorkInv /\ SnapshotIsLatestWork

\* The trace is a sequence, whatever its rows look like.
TraceOK == trace \in Seq(Elements(trace))

NoResponse(r) == \A p \in RowsOf(r) : trace[p].type # "response"

\* r has rows, the last one has a type in T, and no other is a response.
LastIs(r, T) ==
    \E p \in RowsOf(r) :
        /\ trace[p].type \in T
        /\ \A q \in RowsOf(r) : q <= p /\ (q # p => trace[q].type # "response")

Unanswered == StepTypes \ {"response"}
Ending == {"finalize", "returned"}

\* A Run writes its only response on the way to finalize, and reaches finalize
\* out of iterations only through the error row.
Outcome(r) ==
    /\ pc[r] \notin Ending \cup {"crashed"} => NoResponse(r)
    /\ pc[r] \notin Ending \cup {"crashed", "error"} => status[r] = ""
    /\ pc[r] = "error" => status[r] # "completed"
    /\ "step" \notin lost[r] =>
        /\ pc[r] \notin Ended \cup Ending \cup {"user"} => LastIs(r, Unanswered)
        /\ pc[r] \in Ending =>
            /\ status[r] = "completed" => LastIs(r, {"response"})
            /\ status[r] # "completed" => LastIs(r, Unanswered)
            /\ status[r] = "max_iterations" => LastIs(r, {"error"})

TraceInv == ControlOK /\ TraceOK /\ \A r \in Runs : Outcome(r)

-----------------------------------------------------------------------------
(* The variables each Run has to itself.                                   *)

LEMMA LabelNames ==
    /\ {"user", "build", "compact", "checkpoint", "turn", "llm", "exec"} \subseteq Labels
    /\ {"persist", "respond", "error", "finalize", "returned", "failed", "crashed"} \subseteq Labels
BY DEF Labels, Ended

LEMMA StatusNames == {"completed", "error", "max_iterations"} \subseteq Statuses
BY DEF Statuses

\* A Run goes to one label, and the others stay where they were.
LEMMA Goes ==
    ASSUME ControlOK, NEW r \in Runs, NEW label \in Labels, Goto(r, label)
    PROVE  /\ pc' \in [Runs -> Labels]
           /\ pc'[r] = label
           /\ \A q \in Runs : q # r => pc'[q] = pc[q]
BY DEF ControlOK, Goto

\* A failed store call marks at most the kind of write it was.
LEMMA Loses ==
    ASSUME ControlOK, NEW r \in Runs, NEW kind \in SUBSET WriteKinds,
           UNCHANGED faultVars \/ Fails(r, kind)
    PROVE  /\ lost' \in [Runs -> SUBSET WriteKinds]
           /\ \A q \in Runs : lost[q] \subseteq lost'[q] /\ (q # r => lost'[q] = lost[q])
BY DEF ControlOK, Fails, faultVars

LEMMA WriteLoses ==
    ASSUME ControlOK, NEW r \in Runs, NEW type, WriteStep(r, type)
    PROVE  /\ lost' \in [Runs -> SUBSET WriteKinds]
           /\ \A q \in Runs : lost[q] \subseteq lost'[q] /\ (q # r => lost'[q] = lost[q])
<1>1. {"step"} \in SUBSET WriteKinds
  BY DEF WriteKinds
<1>2. UNCHANGED faultVars \/ Fails(r, {"step"})
  BY DEF WriteStep, WriteRow
<1> QED
  BY <1>1, <1>2, Loses

LEMMA EndLoses ==
    ASSUME ControlOK, NEW r \in Runs, Finalize(r) \/ Crash(r)
    PROVE  /\ lost' \in [Runs -> SUBSET WriteKinds]
           /\ \A q \in Runs : lost[q] \subseteq lost'[q]
<1>1. UNCHANGED faultVars \/ Fails(r, {})
  BY DEF Finalize, Crash
<1> QED
  BY <1>1, Loses

\* Steps that touch neither the trace nor the stores' failures.
LEMMA CalmControl ==
    ASSUME ControlOK, NEW r \in Runs,
           \/ BuildSandbox(r) \/ Compact(r) \/ NextIteration(r)
           \/ LLMFails(r) \/ LLMBlank(r) \/ LLMResponds(r)
    PROVE  ControlOK'
<1>1. \E label \in {"finalize", "compact", "turn", "checkpoint", "llm", "error", "respond"} : Goto(r, label)
  BY DEF BuildSandbox, Compact, NextIteration, LLMFails, LLMBlank, LLMResponds
<1>2. pc' \in [Runs -> Labels]
  BY <1>1, LabelNames, Goes
<1>3. UNCHANGED status \/ \E st \in {"error", "max_iterations"} : status' = [status EXCEPT ![r] = st]
  BY DEF BuildSandbox, Compact, NextIteration, LLMFails, LLMBlank, LLMResponds, runVars
<1>4. status' \in [Runs -> Statuses]
  BY <1>3, StatusNames DEF ControlOK
<1>5. UNCHANGED lost
  BY DEF BuildSandbox, Compact, NextIteration, LLMFails, LLMBlank, LLMResponds, faultVars
<1> QED
  BY <1>2, <1>4, <1>5 DEF ControlOK

\* Steps that write a row.
LEMMA WritingControl ==
    ASSUME ControlOK, NEW r \in Runs,
           \/ WriteUser(r) \/ WriteCheckpoint(r) \/ LLMWritesScript(r)
           \/ ExecuteTurn(r) \/ WriteResponse(r) \/ WriteError(r)
    PROVE  ControlOK' /\ \A q \in Runs : lost[q] \subseteq lost'[q]
<1>1. \E label \in {"build", "turn", "exec", "persist", "respond", "finalize"} : Goto(r, label)
  BY DEF WriteUser, WriteCheckpoint, LLMWritesScript, ExecuteTurn, AfterScript, WriteResponse, WriteError
<1>2. pc' \in [Runs -> Labels]
  BY <1>1, LabelNames, Goes
<1>3. UNCHANGED status \/ status' = [status EXCEPT ![r] = "completed"]
  BY DEF WriteUser, WriteCheckpoint, LLMWritesScript, ExecuteTurn, WriteResponse, WriteError
<1>4. status' \in [Runs -> Statuses]
  BY <1>3, StatusNames DEF ControlOK
<1>5. UNCHANGED faultVars \/ Fails(r, {"step"})
  BY DEF WriteUser, WriteCheckpoint, LLMWritesScript, ExecuteTurn, WriteResponse, WriteError,
         WriteStep, WriteRow
<1>6. {"step"} \in SUBSET WriteKinds
  BY DEF WriteKinds
<1>7. lost' \in [Runs -> SUBSET WriteKinds] /\ \A q \in Runs : lost[q] \subseteq lost'[q]
  BY <1>5, <1>6, Loses
<1> QED
  BY <1>2, <1>4, <1>7 DEF ControlOK

\* Steps that call the session store, and crashes.
LEMMA StoringControl ==
    ASSUME ControlOK, NEW r \in Runs,
           LoadSession(r) \/ PersistData(r) \/ Finalize(r) \/ Crash(r)
    PROVE  ControlOK' /\ \A q \in Runs : lost[q] \subseteq lost'[q]
<1>1. \E label \in {"failed", "user", "respond", "turn", "returned", "crashed"} : Goto(r, label)
  BY DEF LoadSession, PersistData, AfterScript, Finalize, Crash
<1>2. pc' \in [Runs -> Labels]
  BY <1>1, LabelNames, Goes
<1>3. UNCHANGED status
  BY DEF LoadSession, PersistData, Finalize, Crash, Leave, runVars
<1>4. UNCHANGED faultVars \/ \E kind \in {{}, {"data"}} : Fails(r, kind)
  BY DEF LoadSession, PersistData, Finalize, Crash
<1>5. {} \in SUBSET WriteKinds /\ {"data"} \in SUBSET WriteKinds
  BY DEF WriteKinds
<1>6. lost' \in [Runs -> SUBSET WriteKinds] /\ \A q \in Runs : lost[q] \subseteq lost'[q]
  BY <1>4, <1>5, Loses
<1> QED
  BY <1>2, <1>3, <1>6 DEF ControlOK

LEMMA ControlStep ==
    ASSUME ControlOK, [Next]_vars
    PROVE  ControlOK'
<1>1. CASE UNCHANGED vars
  BY <1>1 DEF vars, runVars, faultVars, ControlOK
<1> QED
  BY <1>1, CalmControl, WritingControl, StoringControl DEF Next, Step

LEMMA CarriedStep ==
    ASSUME CarriedOK, [Next]_vars
    PROVE  CarriedOK'
<1>0. MaxIterations \in Nat
  BY RunAssumption
<1> USE <1>0 DEF CarriedOK, Args, Working, Nil, Empty, runVars
<1>1. ASSUME NEW r \in Runs, LoadSession(r) PROVE CarriedOK'
  BY <1>1 DEF LoadSession
<1>2. ASSUME NEW r \in Runs, WriteUser(r) PROVE CarriedOK'
  BY <1>2 DEF WriteUser
<1>3. ASSUME NEW r \in Runs, BuildSandbox(r) PROVE CarriedOK'
  BY <1>3 DEF BuildSandbox
<1>4. ASSUME NEW r \in Runs, Compact(r) PROVE CarriedOK'
  BY <1>4 DEF Compact
<1>5. ASSUME NEW r \in Runs, WriteCheckpoint(r) PROVE CarriedOK'
  BY <1>5 DEF WriteCheckpoint
<1>6. ASSUME NEW r \in Runs, NextIteration(r) PROVE CarriedOK'
  BY <1>6 DEF NextIteration
<1>7. ASSUME NEW r \in Runs, LLMFails(r) PROVE CarriedOK'
  BY <1>7 DEF LLMFails
<1>8. ASSUME NEW r \in Runs, LLMBlank(r) PROVE CarriedOK'
  BY <1>8 DEF LLMBlank
<1>9. ASSUME NEW r \in Runs, LLMResponds(r) PROVE CarriedOK'
  BY <1>9 DEF LLMResponds
<1>10. ASSUME NEW r \in Runs, LLMWritesScript(r) PROVE CarriedOK'
  BY <1>10 DEF LLMWritesScript
<1>11. ASSUME NEW r \in Runs, ExecuteTurn(r) PROVE CarriedOK'
  BY <1>11 DEF ExecuteTurn
<1>12. ASSUME NEW r \in Runs, PersistData(r) PROVE CarriedOK'
  BY <1>12 DEF PersistData
<1>13. ASSUME NEW r \in Runs, WriteResponse(r) PROVE CarriedOK'
  BY <1>13 DEF WriteResponse
<1>14. ASSUME NEW r \in Runs, WriteError(r) PROVE CarriedOK'
  BY <1>14 DEF WriteError
<1>15. ASSUME NEW r \in Runs, Finalize(r) PROVE CarriedOK'
  BY <1>15 DEF Finalize, Leave
<1>16. ASSUME NEW r \in Runs, Crash(r) PROVE CarriedOK'
  BY <1>16 DEF Crash, Leave
<1>17. CASE UNCHANGED vars
  BY <1>17 DEF vars
<1> QED
  BY <1>1, <1>2, <1>3, <1>4, <1>5, <1>6, <1>7, <1>8, <1>9, <1>10, <1>11, <1>12, <1>13, <1>14, <1>15, <1>16, <1>17 DEF Next, Step

-----------------------------------------------------------------------------
(* The persisted snapshot.                                                 *)

LEMMA SessionStep ==
    ASSUME ControlOK, CarriedOK, SessionOK, [Next]_vars
    PROVE  SessionOK'
<1>1. ASSUME NEW r \in Runs, LoadSession(r) PROVE SessionOK'
  BY <1>1 DEF LoadSession, SessionOK
<1>2. ASSUME NEW r \in Runs, WriteUser(r) PROVE SessionOK'
  BY <1>2 DEF WriteUser, SessionOK
<1>3. ASSUME NEW r \in Runs, BuildSandbox(r) PROVE SessionOK'
  BY <1>3 DEF BuildSandbox, SessionOK
<1>4. ASSUME NEW r \in Runs, Compact(r) PROVE SessionOK'
  BY <1>4 DEF Compact, SessionOK
<1>5. ASSUME NEW r \in Runs, WriteCheckpoint(r) PROVE SessionOK'
  BY <1>5 DEF WriteCheckpoint, SessionOK
<1>6. ASSUME NEW r \in Runs, NextIteration(r) PROVE SessionOK'
  BY <1>6 DEF NextIteration, SessionOK
<1>7. ASSUME NEW r \in Runs, LLMFails(r) PROVE SessionOK'
  BY <1>7 DEF LLMFails, SessionOK
<1>8. ASSUME NEW r \in Runs, LLMBlank(r) PROVE SessionOK'
  BY <1>8 DEF LLMBlank, SessionOK
<1>9. ASSUME NEW r \in Runs, LLMResponds(r) PROVE SessionOK'
  BY <1>9 DEF LLMResponds, SessionOK
<1>10. ASSUME NEW r \in Runs, LLMWritesScript(r) PROVE SessionOK'
  BY <1>10 DEF LLMWritesScript, SessionOK
<1>11. ASSUME NEW r \in Runs, ExecuteTurn(r) PROVE SessionOK'
  BY <1>11 DEF ExecuteTurn, SessionOK
<1>12. ASSUME NEW r \in Runs, PersistData(r) PROVE SessionOK'
  BY <1>12 DEF PersistData, CarriedOK, SessionOK
<1>13. ASSUME NEW r \in Runs, WriteResponse(r) PROVE SessionOK'
  BY <1>13 DEF WriteResponse, SessionOK
<1>14. ASSUME NEW r \in Runs, WriteError(r) PROVE SessionOK'
  BY <1>14 DEF WriteError, SessionOK
<1>15. ASSUME NEW r \in Runs, Finalize(r) PROVE SessionOK'
  BY <1>15 DEF Finalize, ControlOK, SessionOK
<1>16. ASSUME NEW r \in Runs, Crash(r) PROVE SessionOK'
  BY <1>16 DEF Crash, SessionOK
<1>17. CASE UNCHANGED vars
  BY <1>17 DEF vars, SessionOK
<1> QED
  BY <1>1, <1>2, <1>3, <1>4, <1>5, <1>6, <1>7, <1>8, <1>9, <1>10, <1>11, <1>12, <1>13, <1>14, <1>15, <1>16, <1>17 DEF Next, Step

\* r goes to a label other than "new", and the other Runs stay where they were.
Departs(r) ==
    /\ pc'[r] # "new"
    /\ \A q \in Runs : q # r => pc'[q] = pc[q]

\* Step of r in which neither the carried state nor the snapshot changes.
Keeps(r) ==
    /\ pc[r] \notin Ended \cup {"persist"} \/ (pc[r] = "new" /\ (Overlap \/ \A q \in Runs : ~Active(q)))
    /\ Departs(r) /\ pc'[r] # "persist"
    /\ UNCHANGED <<args, work>>
    /\ session'.by = session.by /\ session'.data = session.data
    /\ \A q \in Runs : lost[q] \subseteq lost'[q]

LEMMA EveryMove ==
    ASSUME ControlOK, NEW r \in Runs, LoadSession(r) \/ Step(r) \/ Crash(r)
    PROVE  Departs(r)
<1> DEFINE targets == {"finalize", "compact", "turn", "checkpoint", "llm", "error", "respond", "build",
                       "exec", "persist", "failed", "user", "returned", "crashed"}
<1>1. \E label \in targets : Goto(r, label)
  <2>1. CASE \/ BuildSandbox(r) \/ Compact(r) \/ NextIteration(r)
             \/ LLMFails(r) \/ LLMBlank(r) \/ LLMResponds(r)
    BY <2>1 DEF BuildSandbox, Compact, NextIteration, LLMFails, LLMBlank, LLMResponds
  <2>2. CASE \/ WriteUser(r) \/ WriteCheckpoint(r) \/ LLMWritesScript(r)
             \/ ExecuteTurn(r) \/ WriteResponse(r) \/ WriteError(r)
    BY <2>2 DEF WriteUser, WriteCheckpoint, LLMWritesScript, ExecuteTurn, AfterScript, WriteResponse, WriteError
  <2>3. CASE LoadSession(r) \/ PersistData(r) \/ Finalize(r) \/ Crash(r)
    BY <2>3 DEF LoadSession, PersistData, AfterScript, Finalize, Crash
  <2> QED
    BY <2>1, <2>2, <2>3 DEF Step
<1>2. PICK label \in targets : Goto(r, label)
  BY <1>1
<1>3. label \in Labels /\ label # "new"
  BY LabelNames
<1> QED
  BY <1>2, <1>3, Goes DEF Departs

LEMMA SkipsPersist ==
    ASSUME ControlOK, NEW r \in Runs,
           \/ LoadSession(r) \/ WriteUser(r) \/ BuildSandbox(r) \/ Compact(r) \/ WriteCheckpoint(r)
           \/ NextIteration(r) \/ LLMFails(r) \/ LLMBlank(r) \/ LLMResponds(r) \/ LLMWritesScript(r)
           \/ WriteResponse(r) \/ WriteError(r)
    PROVE  pc'[r] # "persist"
<1> DEFINE targets == {"finalize", "compact", "turn", "checkpoint", "llm", "error", "respond", "build",
                       "exec", "failed", "user"}
<1>1. \E label \in targets : Goto(r, label)
  <2>1. CASE \/ BuildSandbox(r) \/ Compact(r) \/ NextIteration(r)
             \/ LLMFails(r) \/ LLMBlank(r) \/ LLMResponds(r)
    BY <2>1 DEF BuildSandbox, Compact, NextIteration, LLMFails, LLMBlank, LLMResponds
  <2>2. CASE \/ WriteUser(r) \/ WriteCheckpoint(r) \/ LLMWritesScript(r)
             \/ LoadSession(r) \/ WriteResponse(r) \/ WriteError(r)
    BY <2>2 DEF WriteUser, WriteCheckpoint, LLMWritesScript, LoadSession, WriteResponse, WriteError
  <2> QED
    BY <2>1, <2>2
<1>2. PICK label \in targets : Goto(r, label)
  BY <1>1
<1>3. label \in Labels /\ label # "persist"
  BY LabelNames
<1> QED
  BY <1>2, <1>3, Goes

LEMMA QuietSteps ==
    ASSUME ControlOK, SessionOK, NEW r \in Runs,
           \/ LoadSession(r) \/ WriteUser(r) \/ BuildSandbox(r) \/ Compact(r) \/ WriteCheckpoint(r)
           \/ NextIteration(r) \/ LLMFails(r) \/ LLMBlank(r) \/ LLMResponds(r) \/ LLMWritesScript(r)
           \/ WriteResponse(r) \/ WriteError(r)
    PROVE  Keeps(r)
<1>1. Departs(r) /\ pc'[r] # "persist"
  BY EveryMove, SkipsPersist DEF Step
<1>2. CASE LoadSession(r)
  <2>1. pc[r] = "new" /\ (Overlap \/ \A q \in Runs : ~Active(q)) /\ UNCHANGED <<args, work, session>>
    BY <1>2 DEF LoadSession
  <2>2. \A q \in Runs : lost[q] \subseteq lost'[q]
    BY <1>2, StoringControl
  <2> QED
    BY <1>1, <2>1, <2>2 DEF Keeps
<1>3. CASE \/ WriteUser(r) \/ WriteCheckpoint(r) \/ LLMWritesScript(r) \/ WriteResponse(r) \/ WriteError(r)
  <2>1. /\ pc[r] \in {"user", "checkpoint", "llm", "respond", "error"}
        /\ UNCHANGED <<args, work, session>>
    BY <1>3 DEF WriteUser, WriteCheckpoint, LLMWritesScript, WriteResponse, WriteError
  <2>2. \A q \in Runs : lost[q] \subseteq lost'[q]
    BY <1>3, WritingControl
  <2>3. pc[r] \notin Ended \cup {"persist"}
    BY <2>1 DEF Ended
  <2> QED
    BY <1>1, <2>1, <2>2, <2>3 DEF Keeps
<1>4. CASE \/ BuildSandbox(r) \/ Compact(r) \/ NextIteration(r)
           \/ LLMFails(r) \/ LLMBlank(r) \/ LLMResponds(r)
  <2>1. /\ pc[r] \in {"build", "compact", "turn", "llm"}
        /\ UNCHANGED <<args, work, session, lost>>
    BY <1>4 DEF BuildSandbox, Compact, NextIteration, LLMFails, LLMBlank, LLMResponds, runVars, faultVars
  <2>2. pc[r] \notin Ended \cup {"persist"}
    BY <2>1 DEF Ended
  <2> QED
    BY <1>1, <2>1, <2>2 DEF Keeps
<1> QED
  BY <1>2, <1>3, <1>4

\* What changes in the steps of r that are not quiet.
LEMMA LoudSteps ==
    ASSUME ControlOK, CarriedOK, NEW r \in Runs,
           ExecuteTurn(r) \/ PersistData(r) \/ Finalize(r) \/ Crash(r)
    PROVE  /\ Active(r)
           /\ Departs(r)
           /\ \A q \in Runs : q # r => args'[q] = args[q] /\ work'[q] = work[q]
           /\ \A q \in Runs : lost[q] \subseteq lost'[q]
<1>1. Departs(r)
  BY EveryMove DEF Step
<1>2. Active(r)
  BY DEF ExecuteTurn, PersistData, Finalize, Crash, Active, Ended
<1>3. /\ UNCHANGED args \/ \E x : args' = [args EXCEPT ![r] = x]
      /\ UNCHANGED work \/ \E x : work' = [work EXCEPT ![r] = x]
  BY DEF ExecuteTurn, PersistData, Finalize, Crash, Leave, runVars
<1>4. \A q \in Runs : q # r => args'[q] = args[q] /\ work'[q] = work[q]
  BY <1>3 DEF CarriedOK
<1>5. \A q \in Runs : lost[q] \subseteq lost'[q]
  BY WritingControl, StoringControl
<1> QED
  BY <1>1, <1>2, <1>4, <1>5

LEMMA CarryStep ==
    ASSUME SnapshotInv, [Next]_vars
    PROVE  CarryInv'
<1>0. ControlOK /\ CarriedOK /\ SessionOK /\ CarryInv /\ WorkInv
  BY DEF SnapshotInv
<1>1. ASSUME NEW r \in Runs, Departs(r), \A q \in Runs : q # r => args'[q] = args[q] /\ work'[q] = work[q],
             Active(r) \/ Overlap \/ \A q \in Runs : ~Active(q)
      PROVE  CarryInv'
  <2>1. \A q \in Runs : pc'[q] = "new" => args'[q] = Empty /\ work'[q] = Nil
    BY <1>0, <1>1 DEF CarryInv, Departs
  <2>2. \A q \in Runs : q # r => Active(q)' = Active(q)
    BY <1>1 DEF Departs, Active
  <2>3. ~Overlap => \A q \in Runs : q # r => ~Active(q)
    BY <1>0, <1>1 DEF CarryInv
  <2>4. ~Overlap => \A q, s \in Runs : Active(q)' /\ Active(s)' => q = s
    BY <2>2, <2>3
  <2> QED
    BY <2>1, <2>4 DEF CarryInv
<1>2. ASSUME NEW r \in Runs, Keeps(r) PROVE CarryInv'
  <2>1. Active(r) \/ Overlap \/ \A q \in Runs : ~Active(q)
    BY <1>2 DEF Keeps, Active
  <2>2. Departs(r) /\ \A q \in Runs : q # r => args'[q] = args[q] /\ work'[q] = work[q]
    BY <1>2 DEF Keeps
  <2> QED
    BY <1>1, <2>1, <2>2
<1>3. ASSUME NEW r \in Runs, ExecuteTurn(r) \/ PersistData(r) \/ Finalize(r) \/ Crash(r)
      PROVE  CarryInv'
  BY <1>0, <1>1, <1>3, LoudSteps
<1>4. CASE UNCHANGED vars
  BY <1>0, <1>4 DEF vars, runVars, CarryInv, Active
<1> QED
  BY <1>0, <1>2, <1>3, <1>4, QuietSteps DEF Next, Step

\* A Run that stays where it is, with what it has, carries what it did.
LEMMA OthersCarry ==
    ASSUME NEW q \in Runs, Carries(q), pc'[q] = pc[q], args'[q] = args[q], work'[q] = work[q]
    PROVE  Carries(q)'
BY DEF Carries

LEMMA WorkStep ==
    ASSUME SnapshotInv, [Next]_vars
    PROVE  WorkInv'
<1>0. ControlOK /\ CarriedOK /\ \A q \in Runs : Carries(q)
  BY DEF SnapshotInv, WorkInv
<1>1. ASSUME NEW r \in Runs, Keeps(r) PROVE WorkInv'
  <2>1. Carries(r)'
    BY <1>0, <1>1 DEF Keeps, Carries
  <2> QED
    BY <1>0, <1>1, <2>1, OthersCarry DEF Keeps, Departs, WorkInv
<1>2. ASSUME NEW r \in Runs, ExecuteTurn(r) \/ PersistData(r) \/ Finalize(r) \/ Crash(r), Carries(r)'
      PROVE  WorkInv'
  BY <1>0, <1>2, LoudSteps, OthersCarry DEF Departs, WorkInv
<1>3. ASSUME NEW r \in Runs, ExecuteTurn(r) PROVE WorkInv'
  <2>1. PICK a \in BOOLEAN, threw \in BOOLEAN, ret \in {Nil, Empty, iter[r]} :
            /\ args' = IF threw THEN args ELSE [args EXCEPT ![r] = ret]
            /\ work' = IF ~threw /\ ret \in Working THEN [work EXCEPT ![r] = ret] ELSE work
            /\ Goto(r, IF ~threw /\ ret \in Working THEN "persist" ELSE AfterScript(a))
    BY <1>3 DEF ExecuteTurn
  <2>2. CASE ~threw /\ ret \in Working
    <3>1. args'[r] = ret /\ work'[r] = ret
      BY <1>0, <2>1, <2>2 DEF CarriedOK
    <3> QED
      BY <1>2, <1>3, <3>1 DEF Carries
  <2>3. CASE threw \/ ret \notin Working
    <3>1. AfterScript(a) \in Labels /\ AfterScript(a) # "persist"
      BY LabelNames DEF AfterScript
    <3>2. pc'[r] # "persist"
      BY <1>0, <2>1, <2>3, <3>1, Goes
    <3>3. work' = work
      BY <2>1, <2>3
    <3>4. ret \in {Nil, Empty} \/ threw
      <4>1. iter[r] \in 0..MaxIterations /\ MaxIterations \in Nat
        BY <1>0, RunAssumption DEF CarriedOK
      <4> QED
        BY <2>1, <2>3, <4>1 DEF Working, Empty
    <3>5. args'[r] \in {args[r], Nil, Empty}
      BY <1>0, <2>1, <3>4 DEF CarriedOK
    <3>6. args[r] \in {Nil, Empty, work[r]}
      BY <1>0 DEF Carries
    <3>7. args'[r] \in {Nil, Empty, work'[r]}
      BY <3>3, <3>5, <3>6
    <3> QED
      BY <1>2, <1>3, <3>2, <3>7 DEF Carries
  <2> QED
    BY <2>1, <2>2, <2>3
<1>4. ASSUME NEW r \in Runs, PersistData(r) PROVE WorkInv'
  <2>1. UNCHANGED <<args, work>> /\ pc[r] = "persist"
    BY <1>4 DEF PersistData, runVars
  <2>2. Carries(r)'
    BY <1>0, <2>1 DEF Carries
  <2> QED
    BY <1>2, <1>4, <2>2
<1>5. ASSUME NEW r \in Runs, Finalize(r) \/ Crash(r) PROVE WorkInv'
  <2>1. args'[r] = Empty
    BY <1>0, <1>5 DEF Finalize, Crash, Leave, CarriedOK
  <2>2. \E label \in {"returned", "crashed"} : Goto(r, label)
    BY <1>5 DEF Finalize, Crash
  <2>3. pc'[r] # "persist"
    BY <1>0, <2>2, LabelNames, Goes
  <2>4. Carries(r)'
    BY <2>1, <2>3 DEF Carries
  <2> QED
    BY <1>2, <1>5, <2>4
<1>6. CASE UNCHANGED vars
  BY <1>0, <1>6, OthersCarry DEF vars, runVars, WorkInv
<1> QED
  BY <1>0, <1>1, <1>3, <1>4, <1>5, <1>6, QuietSteps DEF SnapshotInv, Next, Step

\* What SnapshotIsLatestWork says of one Run.
Current(r) ==
    /\ Active(r) /\ pc[r] # "persist" /\ work[r] \in Working
    /\ "data" \notin lost[r]
    /\ Overlap => session.by = r
    => session.by = r /\ session.data = work[r]

\* A Run whose own part does not change stays current if the snapshot's owner
\* and data stay, or if the snapshot is now another Run's.
LEMMA OthersCurrent ==
    ASSUME NEW q \in Runs, Current(q), pc'[q] = pc[q], work'[q] = work[q], lost[q] \subseteq lost'[q],
           \/ session'.by = session.by /\ session'.data = session.data
           \/ Overlap /\ session'.by # q
           \/ ~Active(q)
    PROVE  Current(q)'
<1>1. Active(q)' = Active(q)
  BY DEF Active
<1>2. CASE session'.by = session.by /\ session'.data = session.data
  BY <1>1, <1>2 DEF Current
<1>3. CASE Overlap /\ session'.by # q
  BY <1>3 DEF Current
<1>4. CASE ~Active(q)
  BY <1>1, <1>4 DEF Current
<1> QED
  BY <1>2, <1>3, <1>4

LEMMA CurrentStep ==
    ASSUME SnapshotInv, [Next]_vars
    PROVE  \A r \in Runs : Current(r)'
<1>0. ControlOK /\ CarriedOK /\ SessionOK /\ CarryInv /\ \A q \in Runs : Current(q) /\ Carries(q)
  BY DEF SnapshotInv, SnapshotIsLatestWork, WorkInv, Current
<1> DEFINE SameSession == session'.by = session.by /\ session'.data = session.data
<1>1. ASSUME NEW r \in Runs, Keeps(r) PROVE \A q \in Runs : Current(q)'
  <2>1. /\ UNCHANGED work /\ SameSession /\ \A q \in Runs : lost[q] \subseteq lost'[q]
        /\ \A q \in Runs : q # r => pc'[q] = pc[q]
    BY <1>1 DEF Keeps, Departs
  <2>2. \A q \in Runs : q # r => Current(q)'
    BY <1>0, <2>1, OthersCurrent
  <2>3. CASE pc[r] \notin Ended \cup {"persist"}
    BY <1>0, <2>1, <2>3 DEF Current, Active
  <2>4. CASE pc[r] = "new"
    <3>1. work'[r] \notin Working
      BY <1>0, <2>1, <2>4 DEF CarryInv, Nil, Working
    <3> QED
      BY <2>2, <3>1 DEF Current
  <2> QED
    BY <1>1, <2>2, <2>3, <2>4 DEF Keeps
<1>2. ASSUME NEW r \in Runs, ExecuteTurn(r) PROVE \A q \in Runs : Current(q)'
  <2>1. SameSession
    BY <1>2 DEF ExecuteTurn
  <2>2. Active(r) /\ \A q \in Runs : /\ lost[q] \subseteq lost'[q]
                                     /\ q # r => pc'[q] = pc[q] /\ work'[q] = work[q]
    BY <1>0, <1>2, LoudSteps DEF Departs
  <2>3. pc[r] # "persist"
    BY <1>2 DEF ExecuteTurn
  <2>4. UNCHANGED work \/ pc'[r] = "persist"
    <3>1. PICK a \in BOOLEAN, threw \in BOOLEAN, ret \in {Nil, Empty, iter[r]} :
              /\ work' = IF ~threw /\ ret \in Working THEN [work EXCEPT ![r] = ret] ELSE work
              /\ Goto(r, IF ~threw /\ ret \in Working THEN "persist" ELSE AfterScript(a))
      BY <1>2 DEF ExecuteTurn
    <3>2. CASE ~threw /\ ret \in Working
      <4>1. Goto(r, "persist") /\ "persist" \in Labels
        BY <3>1, <3>2, LabelNames
      <4> QED
        BY <1>0, <4>1, Goes
    <3> QED
      BY <3>1, <3>2
  <2>5. \A q \in Runs : q # r => Current(q)'
    BY <1>0, <2>1, <2>2, OthersCurrent
  <2>6. Current(r)'
    BY <1>0, <2>1, <2>2, <2>3, <2>4 DEF Current
  <2> QED
    BY <2>5, <2>6
<1>3. ASSUME NEW r \in Runs, PersistData(r) PROVE \A q \in Runs : Current(q)'
  <2>0. args[r] = work[r]
    BY <1>0, <1>3 DEF PersistData, Carries
  <2>1. /\ UNCHANGED work
        /\ \/ session'.by = r /\ session'.data = work[r]
           \/ UNCHANGED session /\ "data" \in lost'[r]
    BY <1>0, <1>3, <2>0 DEF PersistData, Fails, runVars, SessionOK, ControlOK
  <2>2. Active(r) /\ \A q \in Runs : /\ lost[q] \subseteq lost'[q]
                                     /\ q # r => pc'[q] = pc[q] /\ work'[q] = work[q]
    BY <1>0, <1>3, LoudSteps DEF Departs
  <2>3. ~Overlap => \A q \in Runs : q # r => ~Active(q)
    BY <1>0, <2>2 DEF CarryInv
  <2>4. ASSUME NEW q \in Runs, q # r PROVE Current(q)'
    <3>1. \/ SameSession \/ (Overlap /\ session'.by # q) \/ ~Active(q)
      BY <2>1, <2>3, <2>4
    <3> QED
      BY <1>0, <2>2, <2>4, <3>1, OthersCurrent
  <2>5. Current(r)'
    BY <2>1 DEF Current
  <2> QED
    BY <2>4, <2>5
<1>4. ASSUME NEW r \in Runs, Finalize(r) \/ Crash(r) PROVE \A q \in Runs : Current(q)'
  <2>1. SameSession
    BY <1>0, <1>4 DEF Finalize, Crash, SessionOK
  <2>2. \A q \in Runs : /\ lost[q] \subseteq lost'[q]
                        /\ q # r => pc'[q] = pc[q] /\ work'[q] = work[q]
    BY <1>0, <1>4, LoudSteps DEF Departs
  <2>3. \A q \in Runs : q # r => Current(q)'
    BY <1>0, <2>1, <2>2, OthersCurrent
  <2>4. work'[r] = Nil
    BY <1>0, <1>4 DEF Finalize, Crash, Leave, CarriedOK
  <2>5. work'[r] \notin Working
    BY <2>4 DEF Nil, Working
  <2> QED
    BY <2>3, <2>5 DEF Current
<1>5. ASSUME UNCHANGED vars PROVE \A q \in Runs : Current(q)'
  BY <1>0, <1>5 DEF vars, runVars, faultVars, Current, Active
<1> QED
  BY <1>0, <1>1, <1>2, <1>3, <1>4, <1>5, QuietSteps DEF Next, Step

LEMMA InitSnapshotInv == Init => SnapshotInv
<1> SUFFICES ASSUME Init PROVE SnapshotInv
  OBVIOUS
<1>0. MaxIterations \in Nat
  BY RunAssumption
<1>1. ControlOK
  BY DEF Init, ControlOK, Labels, Ended, Statuses
<1>2. CarriedOK
  <2>1. iter = [r \in Runs |-> 0] /\ args = [r \in Runs |-> Empty] /\ work = [r \in Runs |-> Nil]
    BY DEF Init
  <2> QED
    BY <1>0, <2>1 DEF CarriedOK, Args
<1>3. SessionOK
  BY DEF Init, SessionOK, Args, Statuses
<1>4. CarryInv /\ WorkInv /\ SnapshotIsLatestWork
  BY DEF Init, CarryInv, WorkInv, Carries, SnapshotIsLatestWork, Active, Ended
<1> QED
  BY <1>1, <1>2, <1>3, <1>4 DEF SnapshotInv

LEMMA SnapshotInvariant == Spec => []SnapshotInv
<1>1. ASSUME SnapshotInv, [Next]_vars PROVE SnapshotInv'
  <2>1. (ControlOK /\ CarriedOK /\ SessionOK /\ CarryInv /\ WorkInv)'
    BY <1>1, ControlStep, CarriedStep, SessionStep, CarryStep, WorkStep DEF SnapshotInv
  <2>2. SnapshotIsLatestWork'
    <3>1. \A r \in Runs : Current(r)' /\ Carries(r)'
      BY <1>1, <2>1, CurrentStep DEF WorkInv
    <3> QED
      BY <3>1 DEF SnapshotIsLatestWork, Current, Carries, Active
  <2> QED
    BY <2>1, <2>2 DEF SnapshotInv
<1> QED
  BY InitSnapshotInv, <1>1, PTL DEF Spec

\* Whatever the number of Runs and iterations, and whichever store calls fail:
\* between turns the persisted snapshot is the latest working state a script of
\* the Run returned, and the Run carries that state or, after a script that
\* returned nothing or {}, none (run.go, the UpdateData call before TakeAnswer).
THEOREM SnapshotStaysLatestWork == Spec => []SnapshotIsLatestWork
<1>1. SnapshotInv => SnapshotIsLatestWork
  BY DEF SnapshotInv
<1> QED
  BY SnapshotInvariant, <1>1, PTL

-----------------------------------------------------------------------------
(* The rows of the trace.                                                  *)

LEMMA AppendAny ==
    ASSUME NEW seq, NEW x, seq \in Seq(Elements(seq))
    PROVE  /\ Append(seq, x) \in Seq(Elements(Append(seq, x)))
           /\ Len(seq) \in Nat /\ DOMAIN seq = 1..Len(seq)
           /\ DOMAIN Append(seq, x) = 1..(Len(seq) + 1)
           /\ Append(seq, x)[Len(seq) + 1] = x
           /\ \A i \in DOMAIN seq : Append(seq, x)[i] = seq[i]
<1> DEFINE longer == Append(seq, x)
<1> DEFINE S == Elements(seq) \cup {x}
<1>1. seq \in Seq(S) /\ x \in S
  BY SeqMonotonic
<1> HIDE DEF S
<1>2. /\ longer \in Seq(S)
      /\ Len(longer) = Len(seq) + 1
      /\ longer[Len(seq) + 1] = x
      /\ \A i \in 1..Len(seq) : longer[i] = seq[i]
  BY <1>1, AppendProperties
<1>3. Len(seq) \in Nat /\ DOMAIN seq = 1..Len(seq) /\ DOMAIN longer = 1..Len(longer)
  BY <1>1, <1>2, LenProperties
<1> HIDE DEF longer
<1>4. longer \in Seq(Elements(longer))
  BY <1>2, <1>3, IsASeq DEF Elements
<1> QED
  BY <1>2, <1>3, <1>4 DEF longer

\* Step that appends a row of r with the given type.
AddsRow(r, type) == \E row : row.by = r /\ row.type = type /\ trace' = Append(trace, row)

LEMMA RowAdded ==
    ASSUME TraceOK, NEW r \in Runs, NEW type, AddsRow(r, type)
    PROVE  /\ TraceOK'
           /\ \A q \in Runs : q # r => RowsOf(q)' = RowsOf(q)
           /\ RowsOf(r)' = RowsOf(r) \cup {Len(trace) + 1}
           /\ \A p \in DOMAIN trace : p \in Nat /\ p < Len(trace) + 1 /\ trace'[p] = trace[p]
           /\ Len(trace) \in Nat /\ trace'[Len(trace) + 1].type = type
<1>1. PICK row : row.by = r /\ row.type = type /\ trace' = Append(trace, row)
  BY DEF AddsRow
<1>2. /\ trace' \in Seq(Elements(trace'))
      /\ Len(trace) \in Nat /\ DOMAIN trace = 1..Len(trace)
      /\ DOMAIN trace' = 1..(Len(trace) + 1)
      /\ trace'[Len(trace) + 1] = row
      /\ \A i \in DOMAIN trace : trace'[i] = trace[i]
  BY <1>1, AppendAny DEF TraceOK
<1>3. TraceOK'
  BY <1>2 DEF TraceOK, Elements
<1>4. \A p \in DOMAIN trace : p \in Nat /\ p < Len(trace) + 1 /\ trace'[p] = trace[p]
  BY <1>2
<1>5. DOMAIN trace' = DOMAIN trace \cup {Len(trace) + 1}
  BY <1>2
<1>6. \A q \in Runs : q # r => RowsOf(q)' = RowsOf(q)
  BY <1>1, <1>2, <1>4, <1>5 DEF RowsOf
<1>7. RowsOf(r)' = RowsOf(r) \cup {Len(trace) + 1}
  BY <1>1, <1>2, <1>4, <1>5 DEF RowsOf
<1> QED
  BY <1>1, <1>2, <1>3, <1>4, <1>6, <1>7

\* Step after which what was known about q's rows still holds.
KeepsRows(q) ==
    /\ NoResponse(q) => NoResponse(q)'
    /\ \A T \in {{"response"}, {"error"}, Unanswered} : LastIs(q, T) => LastIs(q, T)'

LEMMA RowsUnchanged ==
    ASSUME UNCHANGED trace, NEW q \in Runs
    PROVE  KeepsRows(q)
BY DEF KeepsRows, NoResponse, LastIs, RowsOf

\* What writeStep does to the rows, whether the append fails or not.
Wrote(r, type) ==
    /\ TraceOK'
    /\ AddsRow(r, type) \/ (UNCHANGED trace /\ "step" \in lost'[r])
    /\ \A q \in Runs : q # r => KeepsRows(q)
    /\ type # "response" /\ NoResponse(r) => NoResponse(r)'
    /\ "step" \notin lost'[r] /\ NoResponse(r) =>
          \A T : type \in T => LastIs(r, T)'

LEMMA RowsAfterAppend ==
    ASSUME TraceOK, NEW r \in Runs, NEW type, AddsRow(r, type)
    PROVE  Wrote(r, type)
<1> DEFINE last == Len(trace) + 1
<1>1. /\ TraceOK'
      /\ \A q \in Runs : q # r => RowsOf(q)' = RowsOf(q)
      /\ RowsOf(r)' = RowsOf(r) \cup {last}
      /\ \A p \in DOMAIN trace : p \in Nat /\ p < last /\ trace'[p] = trace[p]
      /\ last \in Nat /\ trace'[last].type = type
  BY RowAdded
<1>2. \A q \in Runs : RowsOf(q) \subseteq DOMAIN trace
  BY DEF RowsOf
<1> HIDE DEF last
<1>3. ASSUME NEW q \in Runs, q # r PROVE KeepsRows(q)
  <2>1. RowsOf(q)' = RowsOf(q) /\ \A p \in RowsOf(q) : trace'[p] = trace[p]
    BY <1>1, <1>2, <1>3
  <2>2. NoResponse(q) => NoResponse(q)'
    BY <2>1 DEF NoResponse
  <2>3. ASSUME NEW T, LastIs(q, T) PROVE LastIs(q, T)'
    BY <2>1, <2>3 DEF LastIs
  <2> QED
    BY <2>2, <2>3 DEF KeepsRows
<1>4. ASSUME type # "response", NoResponse(r) PROVE NoResponse(r)'
  BY <1>1, <1>2, <1>4 DEF NoResponse
<1>5. ASSUME NoResponse(r), NEW T, type \in T PROVE LastIs(r, T)'
  <2>1. last \in RowsOf(r)' /\ trace'[last].type \in T
    BY <1>1, <1>5
  <2>2. \A q \in RowsOf(r)' : q <= last /\ (q # last => trace'[q].type # "response")
    BY <1>1, <1>2, <1>5 DEF NoResponse
  <2> QED
    BY <2>1, <2>2 DEF LastIs
<1> QED
  BY <1>1, <1>3, <1>4, <1>5 DEF Wrote

LEMMA FailedWrite ==
    ASSUME ControlOK, TraceOK, NEW r \in Runs, NEW type, UNCHANGED trace, Fails(r, {"step"})
    PROVE  Wrote(r, type)
<1>1. "step" \in lost'[r]
  BY DEF ControlOK, Fails
<1>2. TraceOK'
  BY DEF TraceOK, Elements
<1>3. NoResponse(r) => NoResponse(r)'
  BY RowsUnchanged DEF KeepsRows
<1> QED
  BY <1>1, <1>2, <1>3, RowsUnchanged DEF Wrote

LEMMA StepWritten ==
    ASSUME ControlOK, TraceOK, NEW r \in Runs, NEW type, WriteStep(r, type)
    PROVE  Wrote(r, type)
<1>1. AddsRow(r, type) \/ (UNCHANGED trace /\ Fails(r, {"step"}))
  BY DEF WriteStep, WriteRow, AddsRow
<1> QED
  BY <1>1, RowsAfterAppend, FailedWrite

LEMMA CheckpointWritten ==
    ASSUME ControlOK, TraceOK, NEW r \in Runs, WriteCheckpoint(r)
    PROVE  Wrote(r, "summary")
<1>1. AddsRow(r, "summary") \/ (UNCHANGED trace /\ Fails(r, {"step"}))
  BY DEF WriteCheckpoint, WriteRow, AddsRow
<1> QED
  BY <1>1, RowsAfterAppend, FailedWrite

\* Step of r that leaves the control state of every other Run alone.
Moves(r) ==
    /\ \A q \in Runs : q # r => pc'[q] = pc[q] /\ status'[q] = status[q] /\ lost'[q] = lost[q]
    /\ lost[r] \subseteq lost'[r]

Underway == {"build", "compact", "turn", "llm", "persist"}

\* Where the steps that write no row lead.
QuietMove(r) ==
    /\ UNCHANGED trace
    /\ Moves(r)
    /\ \/ pc[r] = "new" /\ pc'[r] \in {"failed", "user"} /\ status'[r] = status[r]
       \/ /\ pc[r] \in Underway
          /\ \/ /\ pc'[r] \in {"compact", "checkpoint", "turn", "llm", "respond"}
                /\ status'[r] = status[r]
             \/ pc'[r] = "finalize" /\ status'[r] = "error"
             \/ pc'[r] = "error" /\ status'[r] \in {"error", "max_iterations"}
       \/ pc[r] = "finalize" /\ pc'[r] = "returned" /\ status'[r] = status[r]
       \/ pc'[r] = "crashed"

\* Where the steps that write a row of a type lead.
WriteMove(r, type) ==
    /\ Wrote(r, type)
    /\ Moves(r)
    /\ \/ /\ status'[r] = status[r]
          /\ \/ pc[r] = "user" /\ type = "user" /\ pc'[r] = "build"
             \/ pc[r] = "checkpoint" /\ type = "summary" /\ pc'[r] = "turn"
             \/ pc[r] = "llm" /\ type = "execute_js" /\ pc'[r] = "exec"
             \/ pc[r] = "exec" /\ type = "execute_js_result" /\ pc'[r] \in {"persist", "respond", "turn"}
             \/ pc[r] = "error" /\ type = "error" /\ pc'[r] = "finalize"
       \/ pc[r] = "respond" /\ type = "response" /\ pc'[r] = "finalize" /\ status'[r] = "completed"

LEMMA OthersOutcome ==
    ASSUME NEW r \in Runs, Moves(r), NEW q \in Runs, q # r, Outcome(q), KeepsRows(q)
    PROVE  Outcome(q)'
BY DEF Moves, Outcome, KeepsRows

LEMMA QuietOutcome ==
    ASSUME TraceInv, NEW r \in Runs, QuietMove(r)
    PROVE  TraceOK' /\ \A q \in Runs : Outcome(q)'
<1>1. TraceOK'
  BY DEF QuietMove, TraceInv, TraceOK, Elements
<1>2. \A q \in Runs : KeepsRows(q)
  BY RowsUnchanged DEF QuietMove
<1>3. Outcome(r)'
  BY <1>2 DEF QuietMove, Moves, TraceInv, Outcome, KeepsRows, Underway, Ended, Ending
<1>4. ASSUME NEW q \in Runs, q # r PROVE Outcome(q)'
  BY <1>2, <1>4, OthersOutcome DEF TraceInv, QuietMove
<1> QED
  BY <1>1, <1>3, <1>4

LEMMA WriteOutcome ==
    ASSUME TraceInv, NEW r \in Runs, NEW type, WriteMove(r, type)
    PROVE  TraceOK' /\ \A q \in Runs : Outcome(q)'
<1>1. TraceOK' /\ \A q \in Runs : q # r => KeepsRows(q)
  BY DEF WriteMove, Wrote
<1>2. NoResponse(r) /\ (pc[r] # "error" => status[r] = "") /\ (pc[r] = "error" => status[r] # "completed")
  BY DEF WriteMove, TraceInv, Outcome, Ending
<1>3. Outcome(r)'
  <2>1. type # "response" => NoResponse(r)'
    BY <1>2 DEF WriteMove, Wrote
  <2>2. "step" \notin lost'[r] =>
          /\ type \in Unanswered => LastIs(r, Unanswered)'
          /\ type = "response" => LastIs(r, {"response"})'
          /\ type = "error" => LastIs(r, {"error"})'
    BY <1>2 DEF WriteMove, Wrote
  <2> QED
    BY <1>2, <2>1, <2>2 DEF WriteMove, Outcome, Ended, Ending, Unanswered, StepTypes, TurnTypes
<1>4. ASSUME NEW q \in Runs, q # r PROVE Outcome(q)'
  BY <1>1, <1>4, OthersOutcome DEF TraceInv, WriteMove
<1> QED
  BY <1>1, <1>3, <1>4

LEMMA QuietMoves ==
    ASSUME ControlOK, NEW r \in Runs,
           \/ LoadSession(r) \/ BuildSandbox(r) \/ Compact(r) \/ NextIteration(r) \/ LLMFails(r)
           \/ LLMBlank(r) \/ LLMResponds(r) \/ PersistData(r) \/ Finalize(r) \/ Crash(r)
    PROVE  QuietMove(r)
<1> USE DEF ControlOK, QuietMove, Moves, Underway, Goto, runVars, faultVars
<1>1. CASE LoadSession(r)
  BY <1>1 DEF LoadSession, Fails
<1>2. CASE BuildSandbox(r)
  BY <1>2 DEF BuildSandbox
<1>3. CASE Compact(r)
  BY <1>3 DEF Compact
<1>4. CASE NextIteration(r)
  BY <1>4 DEF NextIteration
<1>5. CASE LLMFails(r)
  BY <1>5 DEF LLMFails
<1>6. CASE LLMBlank(r)
  BY <1>6 DEF LLMBlank
<1>7. CASE LLMResponds(r)
  BY <1>7 DEF LLMResponds
<1>8. CASE PersistData(r)
  BY <1>8 DEF PersistData, Fails, AfterScript
<1>9. CASE Finalize(r)
  BY <1>9 DEF Finalize, Fails, Leave
<1>10. CASE Crash(r)
  BY <1>10 DEF Crash, Leave
<1> QED
  BY <1>1, <1>2, <1>3, <1>4, <1>5, <1>6, <1>7, <1>8, <1>9, <1>10

LEMMA WriteMoves ==
    ASSUME ControlOK, TraceOK, NEW r \in Runs,
           \/ WriteUser(r) \/ WriteCheckpoint(r) \/ LLMWritesScript(r) \/ ExecuteTurn(r)
           \/ WriteResponse(r) \/ WriteError(r)
    PROVE  \E type \in StepTypes : WriteMove(r, type)
<1> USE DEF ControlOK, WriteMove, Moves, Goto, StepTypes, TurnTypes
<1>1. CASE WriteUser(r)
  <2>1. WriteMove(r, "user")
    BY <1>1, StepWritten, WriteLoses DEF WriteUser
  <2> QED
    BY <2>1
<1>2. CASE LLMWritesScript(r)
  <2>1. WriteMove(r, "execute_js")
    BY <1>2, StepWritten, WriteLoses DEF LLMWritesScript
  <2> QED
    BY <2>1
<1>3. CASE ExecuteTurn(r)
  <2>1. WriteMove(r, "execute_js_result")
    BY <1>3, StepWritten, WriteLoses DEF ExecuteTurn, AfterScript
  <2> QED
    BY <2>1
<1>4. CASE WriteResponse(r)
  <2>1. WriteMove(r, "response")
    BY <1>4, StepWritten, WriteLoses DEF WriteResponse
  <2> QED
    BY <2>1
<1>5. CASE WriteError(r)
  <2>1. WriteMove(r, "error")
    BY <1>5, StepWritten, WriteLoses DEF WriteError
  <2> QED
    BY <2>1
<1>6. CASE WriteCheckpoint(r)
  <2>1. WriteMove(r, "summary")
    BY <1>6, CheckpointWritten DEF WriteCheckpoint, WriteRow, Fails, faultVars
  <2> QED
    BY <2>1
<1> QED
  BY <1>1, <1>2, <1>3, <1>4, <1>5, <1>6

LEMMA InitTraceInv == Init => TraceInv
<1> SUFFICES ASSUME Init PROVE TraceInv
  OBVIOUS
<1>1. ControlOK
  BY DEF Init, ControlOK, Labels, Ended, Statuses
<1>2. TraceOK
  <2>1. trace = <<>>
    BY DEF Init
  <2> QED
    BY <2>1, EmptySeq DEF TraceOK
<1>3. \A r \in Runs : pc[r] = "new" /\ status[r] = "" /\ NoResponse(r)
  <2>1. trace = <<>>
    BY DEF Init
  <2>2. DOMAIN trace = {}
    BY <2>1
  <2>3. \A r \in Runs : NoResponse(r)
    BY <2>2 DEF NoResponse, RowsOf
  <2> QED
    BY <2>3 DEF Init
<1> QED
  BY <1>1, <1>2, <1>3 DEF TraceInv, Outcome, Ended, Ending

LEMMA TraceInvariant == Spec => []TraceInv
<1>1. ASSUME TraceInv, [Next]_vars PROVE TraceInv'
  <2>1. ControlOK'
    BY <1>1, ControlStep DEF TraceInv
  <2>2. ASSUME NEW r \in Runs, QuietMove(r) PROVE TraceInv'
    BY <1>1, <2>1, <2>2, QuietOutcome DEF TraceInv
  <2>3. ASSUME NEW r \in Runs, NEW type \in StepTypes, WriteMove(r, type) PROVE TraceInv'
    BY <1>1, <2>1, <2>3, WriteOutcome DEF TraceInv
  <2>4. CASE UNCHANGED vars
    <3>1. UNCHANGED <<trace, pc, status, lost>>
      BY <2>4 DEF vars, runVars, faultVars
    <3>2. TraceOK'
      BY <1>1, <3>1 DEF TraceInv, TraceOK, Elements
    <3>3. \A r \in Runs : Outcome(r)'
      BY <1>1, <3>1, RowsUnchanged DEF TraceInv, Outcome, KeepsRows
    <3> QED
      BY <2>1, <3>2, <3>3 DEF TraceInv
  <2>5. ASSUME NEW r \in Runs, LoadSession(r) \/ Step(r) \/ Crash(r) PROVE TraceInv'
    BY <1>1, <2>2, <2>3, <2>5, QuietMoves, WriteMoves DEF TraceInv, Step
  <2> QED
    BY <1>1, <2>4, <2>5 DEF Next
<1> QED
  BY InitTraceInv, <1>1, PTL DEF Spec

LEMMA LastRow ==
    ASSUME TraceOK, NEW r \in Runs, NEW T, LastIs(r, T)
    PROVE  /\ LastRowOf(r).type \in T
           /\ Cardinality({p \in RowsOf(r) : trace[p].type = "response"}) <= 1
<1>1. PICK p \in RowsOf(r) :
        /\ trace[p].type \in T
        /\ \A q \in RowsOf(r) : q <= p /\ (q # p => trace[q].type # "response")
  BY DEF LastIs
<1>2. RowsOf(r) \subseteq Nat
  BY LenProperties DEF TraceOK, RowsOf
<1>3. p = CHOOSE m \in RowsOf(r) : \A q \in RowsOf(r) : q <= m
  BY <1>1, <1>2
<1>4. LastRowOf(r).type \in T
  BY <1>1, <1>3 DEF LastRowOf
<1> DEFINE responses == {q \in RowsOf(r) : trace[q].type = "response"}
<1>5. responses = {} \/ responses = {p}
  BY <1>1
<1> HIDE DEF responses
<1>6. Cardinality(responses) <= 1
  <2>1. Cardinality({}) = 0 /\ Cardinality({p}) = 1
    BY FS_EmptySet, FS_Singleton
  <2> QED
    BY <1>5, <2>1
<1> QED
  BY <1>4, <1>6 DEF responses

\* However many Runs overlap, die or lose writes: the rows a returned Run left
\* tell how it ended, unless one of them was lost (run.go, the writeStep calls
\* before each return).
THEOREM TraceTells == Spec => []TraceTellsOutcome
<1>1. ASSUME TraceInv PROVE TraceTellsOutcome
  <2> SUFFICES ASSUME NEW r \in Runs, pc[r] = "returned", "step" \notin lost[r]
               PROVE  /\ status[r] = "completed" <=> LastRowOf(r).type = "response"
                      /\ status[r] = "max_iterations" => LastRowOf(r).type = "error"
                      /\ Cardinality({p \in RowsOf(r) : trace[p].type = "response"}) <= 1
    BY DEF TraceTellsOutcome
  <2>1. /\ status[r] = "completed" => LastIs(r, {"response"})
        /\ status[r] # "completed" => LastIs(r, Unanswered)
        /\ status[r] = "max_iterations" => LastIs(r, {"error"})
    BY <1>1 DEF TraceInv, Outcome, Ending
  <2>2. CASE status[r] = "completed"
    BY <1>1, <2>1, <2>2, LastRow DEF TraceInv
  <2>3. CASE status[r] # "completed"
    BY <1>1, <2>1, <2>3, LastRow DEF TraceInv, Unanswered
  <2> QED
    BY <2>2, <2>3
<1> QED
  BY TraceInvariant, <1>1, PTL

-----------------------------------------------------------------------------
(* Scripts and their results.                                              *)

\* Row p of r is its last, and the script in it is running or died.
Open(r, p) ==
    /\ pc[r] \in {"exec", "crashed"}
    /\ \A q \in RowsOf(r) : q <= p

\* The next row of r after p is a result.
Followed(r, p) ==
    \E n \in RowsOf(r) :
        /\ n > p /\ trace[n].type = "execute_js_result"
        /\ \A q \in RowsOf(r) : q > p => n <= q

Lone(r) ==
    "step" \notin lost[r] =>
        \A p \in RowsOf(r) : trace[p].type = "execute_js" => Open(r, p) \/ Followed(r, p)

LoneInv == TraceInv /\ \A r \in Runs : Lone(r)

LEMMA OthersLone ==
    ASSUME NEW r \in Runs, Moves(r), NEW q \in Runs, q # r, Lone(q),
           RowsOf(q)' = RowsOf(q), \A p \in RowsOf(q) : trace'[p] = trace[p]
    PROVE  Lone(q)'
BY DEF Moves, Lone, Open, Followed

LEMMA QuietLone ==
    ASSUME LoneInv, NEW r \in Runs, QuietMove(r)
    PROVE  \A q \in Runs : Lone(q)'
<1>1. \A q \in Runs : RowsOf(q)' = RowsOf(q) /\ \A p \in RowsOf(q) : trace'[p] = trace[p]
  BY DEF QuietMove, RowsOf
<1>2. pc[r] \in {"exec", "crashed"} => pc'[r] = "crashed"
  BY DEF QuietMove, Underway
<1>3. "step" \notin lost'[r] => "step" \notin lost[r]
  BY DEF QuietMove, Moves
<1>4. Lone(r)'
  BY <1>1, <1>2, <1>3 DEF LoneInv, Lone, Open, Followed
<1>5. ASSUME NEW q \in Runs, q # r PROVE Lone(q)'
  BY <1>1, <1>5, OthersLone DEF LoneInv, QuietMove
<1> QED
  BY <1>4, <1>5

LEMMA WriteLone ==
    ASSUME LoneInv, NEW r \in Runs, NEW type, WriteMove(r, type), AddsRow(r, type)
    PROVE  \A q \in Runs : Lone(q)'
<1> DEFINE last == Len(trace) + 1
<1>1. /\ \A q \in Runs : q # r => RowsOf(q)' = RowsOf(q)
      /\ RowsOf(r)' = RowsOf(r) \cup {last}
      /\ \A p \in DOMAIN trace : p \in Nat /\ p < last /\ trace'[p] = trace[p]
      /\ last \in Nat /\ trace'[last].type = type
  BY RowAdded DEF LoneInv, TraceInv
<1>2. \A q \in Runs : \A p \in RowsOf(q) : p \in Nat /\ p < last /\ trace'[p] = trace[p]
  BY <1>1 DEF RowsOf
<1> HIDE DEF last
<1>3. ASSUME NEW q \in Runs, q # r PROVE Lone(q)'
  BY <1>1, <1>2, <1>3, OthersLone DEF LoneInv, WriteMove
<1>4. ASSUME "step" \notin lost'[r],
             NEW p \in RowsOf(r)', trace'[p].type = "execute_js"
      PROVE  Open(r, p)' \/ Followed(r, p)'
  <2>1. "step" \notin lost[r]
    BY <1>4 DEF WriteMove, Moves
  <2>2. CASE p = last
    <3>1. type = "execute_js" /\ pc'[r] = "exec"
      BY <1>1, <1>4, <2>2 DEF WriteMove
    <3>2. \A q \in RowsOf(r)' : q <= p
      BY <1>1, <1>2, <2>2
    <3> QED
      BY <3>1, <3>2 DEF Open
  <2>3. CASE p \in RowsOf(r)
    <3>1. Open(r, p) \/ Followed(r, p)
      BY <1>2, <1>4, <2>1, <2>3 DEF LoneInv, Lone
    <3>2. CASE Followed(r, p)
      <4>1. PICK n \in RowsOf(r) : /\ n > p /\ trace[n].type = "execute_js_result"
                                   /\ \A q \in RowsOf(r) : q > p => n <= q
        BY <3>2 DEF Followed
      <4>2. n \in RowsOf(r)' /\ trace'[n].type = "execute_js_result" /\ n <= last
        BY <1>1, <1>2, <4>1
      <4>3. \A q \in RowsOf(r)' : q > p => n <= q
        BY <1>1, <4>1, <4>2
      <4> QED
        BY <4>1, <4>2, <4>3 DEF Followed
    <3>3. CASE Open(r, p)
      <4>1. type = "execute_js_result"
        BY <3>3 DEF Open, WriteMove
      <4>2. last \in RowsOf(r)' /\ last > p
        BY <1>1, <1>2, <2>3
      <4>3. \A q \in RowsOf(r)' : q > p => last <= q
        <5>1. \A q \in RowsOf(r) : ~(q > p)
          BY <1>2, <2>3, <3>3 DEF Open
        <5> QED
          BY <1>1, <5>1
      <4> QED
        BY <1>1, <4>1, <4>2, <4>3 DEF Followed
    <3> QED
      BY <3>1, <3>2, <3>3
  <2> QED
    BY <1>1, <1>4, <2>2, <2>3
<1>5. Lone(r)'
  BY <1>4 DEF Lone
<1> QED
  BY <1>3, <1>5

\* A row that was lost takes its Run out of the claim.
LEMMA LostLone ==
    ASSUME LoneInv, NEW r \in Runs, NEW type, WriteMove(r, type), UNCHANGED trace, "step" \in lost'[r]
    PROVE  \A q \in Runs : Lone(q)'
<1>1. Lone(r)'
  BY DEF Lone
<1>2. \A q \in Runs : RowsOf(q)' = RowsOf(q) /\ \A p \in RowsOf(q) : trace'[p] = trace[p]
  BY DEF RowsOf
<1>3. ASSUME NEW q \in Runs, q # r PROVE Lone(q)'
  BY <1>2, <1>3, OthersLone DEF LoneInv, WriteMove
<1> QED
  BY <1>1, <1>3

LEMMA LoneInvariant == Spec => []LoneInv
<1>1. Init => LoneInv
  <2> SUFFICES ASSUME Init PROVE \A r \in Runs : Lone(r)
    BY InitTraceInv DEF LoneInv
  <2>1. trace = <<>>
    BY DEF Init
  <2>2. DOMAIN trace = {}
    BY <2>1
  <2> QED
    BY <2>2 DEF Lone, RowsOf
<1>2. ASSUME LoneInv, TraceInv', [Next]_vars PROVE LoneInv'
  <2>1. ASSUME NEW r \in Runs, NEW type \in StepTypes, WriteMove(r, type)
        PROVE  \A q \in Runs : Lone(q)'
    BY <1>2, <2>1, WriteLone, LostLone DEF WriteMove, Wrote
  <2>2. ASSUME NEW r \in Runs, LoadSession(r) \/ Step(r) \/ Crash(r)
        PROVE  \A q \in Runs : Lone(q)'
    BY <1>2, <2>1, <2>2, QuietLone, QuietMoves, WriteMoves DEF LoneInv, TraceInv, Step
  <2>3. CASE UNCHANGED vars
    <3>1. UNCHANGED <<trace, pc, lost>>
      BY <2>3 DEF vars, runVars, faultVars
    <3> QED
      BY <1>2, <3>1 DEF LoneInv, Lone, Open, Followed, RowsOf
  <2> QED
    BY <1>2, <2>2, <2>3 DEF Next, LoneInv
<1> QED
  BY TraceInvariant, <1>1, <1>2, PTL DEF Spec

\* However many Runs overlap or die: a script without its result is the last
\* row of a Run that is running it or died, unless the Run lost a row (run.go,
\* the writeStep calls around ExecuteTurn).
THEOREM ScriptsHaveResults == Spec => []LoneScriptWasInFlight
<1>1. ASSUME LoneInv PROVE LoneScriptWasInFlight
  <2> SUFFICES ASSUME NEW r \in Runs, "step" \notin lost[r],
                      NEW p \in RowsOf(r), trace[p].type = "execute_js",
                      NEW later, later = {q \in RowsOf(r) : q > p}
               PROVE  IF later = {} THEN pc[r] \in {"exec", "crashed"}
                      ELSE trace[CHOOSE q \in later : \A x \in later : q <= x].type = "execute_js_result"
    BY DEF LoneScriptWasInFlight
  <2>1. RowsOf(r) \subseteq Nat
    BY <1>1, LenProperties DEF LoneInv, TraceInv, TraceOK, RowsOf
  <2>2. CASE Open(r, p)
    <3>1. later = {}
      BY <2>1, <2>2 DEF Open
    <3> QED
      BY <2>2, <3>1 DEF Open
  <2>3. CASE Followed(r, p)
    <3>1. PICK n \in RowsOf(r) : /\ n > p /\ trace[n].type = "execute_js_result"
                                 /\ \A q \in RowsOf(r) : q > p => n <= q
      BY <2>3 DEF Followed
    <3>2. n \in later /\ \A x \in later : n <= x
      BY <3>1
    <3>3. n = CHOOSE q \in later : \A x \in later : q <= x
      BY <2>1, <3>2
    <3> QED
      BY <3>1, <3>2, <3>3
  <2> QED
    BY <1>1, <2>2, <2>3 DEF LoneInv, Lone
<1> QED
  BY LoneInvariant, <1>1, PTL

-----------------------------------------------------------------------------
(* What a window of rows replays.  These lemmas are about any sequence of  *)
(* rows; tr stands for a trace and b for the position a window ends at.    *)

Held(b) == IF b < HistoryWindow THEN b ELSE HistoryWindow
WindowTo(b) == [i \in 1..Held(b) |-> b - Held(b) + i]

\* Where the checkpoint marker of row q divides the turns before it, within
\* the reach of a window.
Marks(tr, q) ==
    /\ tr[q].retain <= tr[q].idx
    /\ \A p \in 1..(q - 1) : IsTurn(tr, p) /\ q - HistoryWindow <= p =>
          (p \in tr[q].covers <=> tr[p].idx < tr[q].retain)

\* Every row stands for earlier turns, and every checkpoint says which.
RowSound(tr, q) ==
    /\ tr[q].covers \subseteq {p \in 1..(q - 1) : IsTurn(tr, p)}
    /\ tr[q].type # "summary" => tr[q].covers = {}
    /\ tr[q].type = "summary" /\ IndicesIncrease(tr, q) => Marks(tr, q)

Sound(tr) == tr \in Seq(Row) /\ \A q \in 1..Len(tr) : RowSound(tr, q)

LEMMA Windows ==
    ASSUME NEW b \in Nat
    PROVE  /\ WindowTo(b) \in Seq(Nat) /\ WindowTo(b) \in Seq(Int)
           /\ Len(WindowTo(b)) = Held(b) /\ Held(b) \in Nat
           /\ Increasing(WindowTo(b))
           /\ Elements(WindowTo(b)) = {p \in 1..b : b - HistoryWindow < p}
           /\ b = 0 => WindowTo(b) = <<>>
           /\ b # 0 => WindowTo(b) # <<>> /\ WindowTo(b)[Held(b)] = b
<1>1. HistoryWindow \in Nat /\ HistoryWindow > 0
  BY HistoryAssumption
<1>2. PICK m \in Nat : m = Held(b)
  BY <1>1 DEF Held
<1>3. m <= b /\ m <= HistoryWindow /\ (m = b \/ m = HistoryWindow) /\ (b # 0 => m > 0)
  BY <1>1, <1>2 DEF Held
<1> DEFINE w == [i \in 1..m |-> b - m + i]
<1>4. WindowTo(b) = w
  BY <1>2 DEF WindowTo
<1>5. \A i \in 1..m : b - m + i \in Nat
  BY <1>3
<1>6. w \in Seq(Nat) /\ Len(w) = m /\ w \in Seq(Int)
  BY <1>5
<1>7. DOMAIN w = 1..m /\ \A i \in 1..m : w[i] = b - m + i
  OBVIOUS
<1> HIDE DEF w
<1>8. Increasing(w)
  BY <1>6, <1>7 DEF Increasing
<1>9. Elements(w) = {p \in 1..b : b - HistoryWindow < p}
  <2>1. ASSUME NEW i \in 1..m PROVE w[i] \in 1..b /\ b - HistoryWindow < w[i]
    <3>1. w[i] = b - m + i
      BY <1>7
    <3>2. b - m + i \in 1..b /\ b - HistoryWindow < b - m + i
      BY <1>1, <1>3, SMTT(30)
    <3> QED BY <3>1, <3>2
  <2>2. ASSUME NEW p \in 1..b, b - HistoryWindow < p PROVE p \in Elements(w)
    <3>1. p - (b - m) \in 1..m
      BY <1>1, <1>3, <2>2
    <3>2. w[p - (b - m)] = p
      BY <1>7, <3>1
    <3> QED BY <1>7, <3>1, <3>2 DEF Elements
  <2> QED BY <1>7, <2>1, <2>2 DEF Elements
<1>10. b = 0 => w = <<>>
  BY <1>3, <1>6
<1>11. b # 0 => w # <<>> /\ w[m] = b
  BY <1>3, <1>6, <1>7
<1> QED BY <1>2, <1>4, <1>6, <1>8, <1>9, <1>10, <1>11

\* The checkpoint found is one of the rows loaded.
LEMMA Checkpoints ==
    ASSUME NEW tr, NEW st \in Seq(Nat)
    PROVE  LET at == LastCheckpoint(tr, st)
           IN  \/ at = Unsaved /\ \A p \in Elements(st) : tr[p].type # "summary"
               \/ at \in Elements(st) /\ tr[at].type = "summary"
<1> DEFINE found == {i \in DOMAIN st : tr[st[i]].type = "summary"}
<1>1. CASE found = {}
  BY <1>1 DEF LastCheckpoint, Elements
<1>2. CASE found # {}
  <2>1. found \subseteq 0..Len(st) /\ Len(st) \in Nat
    OBVIOUS
  <2>2. \E x \in found : \A y \in found : y <= x
    BY <1>2, <2>1, LargestExists
  <2>3. (CHOOSE i \in found : \A j \in found : j <= i) \in found
    BY <2>2
  <2> QED BY <1>2, <2>3 DEF LastCheckpoint, Elements
<1> QED BY <1>1, <1>2

\* How many messages come before the turns replayed, and what they stand for.
Heads(tr, b) == IF LastCheckpoint(tr, WindowTo(b)) = Unsaved THEN 0 ELSE 1
HeadCovers(tr, b) ==
    LET at == LastCheckpoint(tr, WindowTo(b)) IN IF at = Unsaved THEN {} ELSE tr[at].covers
ReplayTo(tr, b) == Rehydrate(tr, WindowTo(b))

LEMMA Replays ==
    ASSUME NEW tr, NEW b \in Nat
    PROVE  LET R == ReplayTo(tr, b)
               h == Heads(tr, b)
           IN  /\ R \in Seq(Int) /\ Len(R) \in Nat /\ h \in {0, 1} /\ h <= Len(R)
               /\ h = 1 => R[1] = LastCheckpoint(tr, WindowTo(b))
               /\ \A i, j \in (h + 1)..Len(R) : i < j => R[i] < R[j]
               /\ {R[i] : i \in (h + 1)..Len(R)} = Replayed(tr, WindowTo(b))
<1> DEFINE at == LastCheckpoint(tr, WindowTo(b))
<1>1. PICK st \in Seq(Nat) : st = WindowTo(b) /\ st \in Seq(Int) /\ Increasing(st)
  BY Windows
<1>2. PICK turns : turns = Only(st, Replayed(tr, st))
  OBVIOUS
<1>3. turns \in Seq(Int) /\ Increasing(turns)
  BY <1>1, <1>2, OnlyType, OnlyIncreasing
<1>4. Elements(turns) = Replayed(tr, st)
  <2>1. Elements(turns) = Elements(st) \cap Replayed(tr, st)
    BY <1>1, <1>2, OnlyElements
  <2> QED BY <2>1 DEF Replayed
<1>5. Len(turns) \in Nat /\ DOMAIN turns = 1..Len(turns)
  BY <1>3
<1>6. CASE at = Unsaved
  <2>1. ReplayTo(tr, b) = turns /\ Heads(tr, b) = 0
    <3>1. <<>> \o turns = turns
      BY <1>3
    <3> QED BY <1>1, <1>2, <1>6, <3>1 DEF ReplayTo, Rehydrate, Heads
  <2>2. \A i, j \in 1..Len(turns) : i < j => turns[i] < turns[j]
    BY <1>3 DEF Increasing
  <2>3. {turns[i] : i \in 1..Len(turns)} = Replayed(tr, st)
    BY <1>4, <1>5 DEF Elements
  <2> QED BY <1>1, <1>3, <1>5, <2>1, <2>2, <2>3
<1>7. CASE at # Unsaved
  <2>1. PICK R : R = <<at>> \o turns
    OBVIOUS
  <2>2. ReplayTo(tr, b) = R /\ Heads(tr, b) = 1
    BY <1>1, <1>2, <1>7, <2>1 DEF ReplayTo, Rehydrate, Heads
  <2>3. at \in Nat
    BY <1>1, <1>7, Checkpoints DEF Elements
  <2>4. R \in Seq(Int) /\ Len(R) = Len(turns) + 1 /\ R[1] = at
        /\ \A i \in 1..Len(turns) : R[i + 1] = turns[i]
    BY <1>3, <2>1, <2>3
  <2>5. \A i \in 2..Len(R) : i - 1 \in 1..Len(turns) /\ R[i] = turns[i - 1]
    BY <1>5, <2>4
  <2>6. \A i, j \in 2..Len(R) : i < j => R[i] < R[j]
    <3> SUFFICES ASSUME NEW i \in 2..Len(R), NEW j \in 2..Len(R), i < j PROVE R[i] < R[j]
      OBVIOUS
    <3>1. turns[i - 1] < turns[j - 1]
      <4>1. i - 1 \in 1..Len(turns) /\ j - 1 \in 1..Len(turns) /\ i - 1 < j - 1
        BY <2>5
      <4> QED BY <1>3, <4>1 DEF Increasing
    <3> QED BY <2>5, <3>1
  <2>7. {R[i] : i \in 2..Len(R)} = Elements(turns)
    <3>1. ASSUME NEW i \in 2..Len(R) PROVE R[i] \in Elements(turns)
      BY <1>5, <2>5 DEF Elements
    <3>2. ASSUME NEW i \in 1..Len(turns) PROVE \E j \in 2..Len(R) : R[j] = turns[i]
      <4>1. i + 1 \in 2..Len(R)
        BY <1>5, <2>4
      <4> QED BY <2>4, <4>1
    <3> QED BY <1>5, <3>1, <3>2 DEF Elements
  <2>8. Len(R) \in Nat /\ 1 <= Len(R)
    BY <1>5, <2>4
  <2> QED BY <1>1, <1>4, <2>2, <2>4, <2>6, <2>7, <2>8
<1> QED BY <1>6, <1>7

\* What is replayed is a turn of the window, and so a row of the trace.
LEMMA ReplayedTurns ==
    ASSUME NEW tr, Sound(tr), NEW b \in 0..Len(tr)
    PROVE  /\ Len(tr) \in Nat /\ b \in Nat
           /\ \A p \in 1..Len(tr) : tr[p].idx \in Nat /\ tr[p].retain \in Nat
           /\ Elements(WindowTo(b)) \subseteq 1..b
           /\ \A p \in Replayed(tr, WindowTo(b)) : p \in 1..b /\ IsTurn(tr, p)
           /\ HeadCovers(tr, b) \subseteq {p \in 1..b : IsTurn(tr, p)}
<1>1. Len(tr) \in Nat /\ b \in Nat
  BY DEF Sound
<1>2. \A p \in 1..Len(tr) : tr[p] \in Row
  BY <1>1 DEF Sound
<1>3. Elements(WindowTo(b)) \subseteq 1..b
  BY <1>1, Windows
<1>4. \A p \in Replayed(tr, WindowTo(b)) : p \in 1..b /\ IsTurn(tr, p)
  BY <1>3 DEF Replayed
<1>5. HeadCovers(tr, b) \subseteq {p \in 1..b : IsTurn(tr, p)}
  <2> DEFINE at == LastCheckpoint(tr, WindowTo(b))
  <2>1. CASE at # Unsaved
    <3>1. WindowTo(b) \in Seq(Nat)
      BY <1>1, Windows
    <3>2. at \in 1..b
      BY <1>3, <2>1, <3>1, Checkpoints
    <3>3. RowSound(tr, at)
      BY <1>1, <3>2 DEF Sound
    <3>4. \A p \in 1..(at - 1) : p \in 1..b
      BY <1>1, <3>2
    <3> QED BY <2>1, <3>3, <3>4 DEF HeadCovers, RowSound
  <2> QED BY <2>1 DEF HeadCovers
<1> QED BY <1>1, <1>2, <1>3, <1>4, <1>5 DEF Row

\* While the numbering is intact, the checkpoint stands for exactly the loaded
\* turns that are not replayed, and these come before those that are.
LEMMA HeadDivides ==
    ASSUME NEW tr, Sound(tr), NEW b \in 0..Len(tr), IndicesIncrease(tr, b),
           NEW p \in Elements(WindowTo(b)), IsTurn(tr, p)
    PROVE  /\ (p \in HeadCovers(tr, b)) # (p \in Replayed(tr, WindowTo(b)))
           /\ p \in HeadCovers(tr, b) =>
                 \A x \in Replayed(tr, WindowTo(b)) : tr[p].idx < tr[x].idx
<1> DEFINE at == LastCheckpoint(tr, WindowTo(b))
<1>1. /\ Len(tr) \in Nat /\ b \in Nat
      /\ \A x \in 1..Len(tr) : tr[x].idx \in Nat /\ tr[x].retain \in Nat
      /\ Elements(WindowTo(b)) = {x \in 1..b : b - HistoryWindow < x}
  BY ReplayedTurns, Windows
<1>2. CASE at = Unsaved
  BY <1>2 DEF Replayed, HeadCovers
<1>3. CASE at # Unsaved
  <2>1. at \in 1..b /\ tr[at].type = "summary" /\ at \in 1..Len(tr)
    <3>1. WindowTo(b) \in Seq(Nat)
      BY <1>1, Windows
    <3>2. at \in Elements(WindowTo(b)) /\ tr[at].type = "summary"
      BY <1>3, <3>1, Checkpoints
    <3> QED BY <1>1, <3>2
  <2>2. p \in 1..b /\ p \in 1..Len(tr) /\ b - HistoryWindow < p /\ HistoryWindow \in Nat
    BY <1>1, HistoryAssumption
  <2>3. HeadCovers(tr, b) = tr[at].covers
    BY <1>3 DEF HeadCovers
  <2>4. p \in Replayed(tr, WindowTo(b)) <=> tr[p].idx >= tr[at].retain
    BY <1>3 DEF Replayed
  <2> HIDE DEF at
  <2>5. IndicesIncrease(tr, at)
    <3>1. 1..at \subseteq 1..b
      BY <1>1, <2>1
    <3> QED BY <3>1 DEF IndicesIncrease
  <2>6. RowSound(tr, at)
    BY <2>1 DEF Sound
  <2>7. Marks(tr, at) /\ tr[at].covers \subseteq 1..(at - 1)
    BY <2>1, <2>5, <2>6 DEF RowSound
  <2>8. p # at
    BY <2>1 DEF IsTurn, TurnTypes
  <2>9. p \in tr[at].covers <=> tr[p].idx < tr[at].retain
    <3>1. CASE p < at
      <4>1. p \in 1..(at - 1) /\ at - HistoryWindow <= p
        BY <1>1, <2>1, <2>2, <3>1
      <4> QED BY <2>7, <4>1 DEF Marks
    <3>2. CASE p > at
      <4>1. tr[at].idx < tr[p].idx
        BY <2>1, <2>2, <3>2 DEF IndicesIncrease
      <4>2. tr[at].retain <= tr[at].idx
        BY <2>7 DEF Marks
      <4>3. p \notin tr[at].covers
        BY <2>1, <2>2, <2>7, <3>2
      <4> QED BY <1>1, <2>1, <2>2, <4>1, <4>2, <4>3
    <3> QED BY <2>1, <2>2, <2>8, <3>1, <3>2
  <2>10. \A x \in Replayed(tr, WindowTo(b)) : x \in 1..Len(tr) /\ tr[x].idx >= tr[at].retain
    BY <1>1, <1>3 DEF Replayed, at
  <2> QED BY <1>1, <2>1, <2>2, <2>3, <2>4, <2>9, <2>10
<1> QED BY <1>2, <1>3

\* A compaction folds away at least one message and at most all of them.
LEMMA SplitBounds ==
    ASSUME NEW tr, NEW R \in Seq(Int), WillCompact(tr, R)
    PROVE  /\ SafeSplit(tr, R) \in 1..Len(R) /\ Len(R) \in Nat /\ Len(R) >= 2
           /\ SafeSplit(tr, R) < Len(R) /\ KeepBound > 0
                 => \/ ~IsResult(tr, R[SafeSplit(tr, R) + 1])
                    \/ SafeSplit(tr, R) + 2 <= Len(R) /\ IsResult(tr, R[SafeSplit(tr, R) + 2])
           /\ SafeSplit(tr, R) = Len(R) \/ KeepBound > 0
<1>1. Trigger \in Nat /\ Keep \in Nat /\ Trigger > 0 /\ Len(R) \in Nat
  BY HistoryAssumption
<1>2. KeepBound \in Nat
  BY <1>1 DEF KeepBound
<1>3. Len(R) > Trigger /\ SafeSplit(tr, R) > 0
  BY DEF WillCompact
<1> DEFINE desired == Len(R) - KeepBound
<1>4. desired \in Int /\ desired <= Len(R) /\ (KeepBound = 0 => desired = Len(R))
  BY <1>1, <1>2
<1>5. \/ SafeSplit(tr, R) = desired /\ (desired < Len(R) => ~IsResult(tr, R[desired + 1]))
      \/ SafeSplit(tr, R) = desired - 1 /\ desired < Len(R) /\ IsResult(tr, R[desired + 1])
  BY <1>3, <1>4 DEF SafeSplit
<1> HIDE DEF desired
<1>6. SafeSplit(tr, R) \in 1..Len(R) /\ Len(R) >= 2
  <2>1. SafeSplit(tr, R) \in Int /\ SafeSplit(tr, R) <= Len(R)
    BY <1>1, <1>4, <1>5
  <2> QED BY <1>1, <1>3, <2>1
<1>7. ASSUME SafeSplit(tr, R) < Len(R), KeepBound > 0
      PROVE  \/ ~IsResult(tr, R[SafeSplit(tr, R) + 1])
             \/ SafeSplit(tr, R) + 2 <= Len(R) /\ IsResult(tr, R[SafeSplit(tr, R) + 2])
  <2>1. CASE SafeSplit(tr, R) = desired /\ (desired < Len(R) => ~IsResult(tr, R[desired + 1]))
    BY <1>7, <2>1
  <2>2. CASE SafeSplit(tr, R) = desired - 1 /\ desired < Len(R) /\ IsResult(tr, R[desired + 1])
    <3>1. SafeSplit(tr, R) + 2 = desired + 1 /\ desired + 1 <= Len(R)
      BY <1>1, <1>4, <2>2
    <3> QED BY <2>2, <3>1
  <2> QED BY <1>5, <2>1, <2>2
<1>8. SafeSplit(tr, R) = Len(R) \/ KeepBound > 0
  BY <1>1, <1>2, <1>4, <1>5
<1> QED BY <1>1, <1>6, <1>7, <1>8

LEMMA Folds ==
    ASSUME NEW tr, Sound(tr), NEW b \in 0..Len(tr), NEW n \in 1..Len(ReplayTo(tr, b))
    PROVE  CoveredBy(tr, ReplayTo(tr, b), n) =
              HeadCovers(tr, b) \cup {ReplayTo(tr, b)[i] : i \in (Heads(tr, b) + 1)..n}
<1>1. PICK R : R = ReplayTo(tr, b)
  OBVIOUS
<1>2. PICK h \in {0, 1} : h = Heads(tr, b)
  BY DEF Heads
<1>3. b \in Nat /\ Len(R) \in Nat /\ n \in 1..Len(R)
      /\ (h = 1 => R[1] = LastCheckpoint(tr, WindowTo(b)))
      /\ {R[i] : i \in (h + 1)..Len(R)} = Replayed(tr, WindowTo(b))
  BY <1>1, <1>2, ReplayedTurns, Replays
<1>4. \A i \in (h + 1)..n : i \in 1..n /\ IsTurn(tr, R[i])
  <2>1. \A i \in (h + 1)..n : i \in 1..n /\ i \in (h + 1)..Len(R)
    BY <1>3
  <2> QED BY <1>3, <2>1, ReplayedTurns
<1> DEFINE Share(i) == IF IsTurn(tr, R[i]) THEN {R[i]} ELSE tr[R[i]].covers
<1>5. CoveredBy(tr, R, n) = UNION {Share(i) : i \in 1..n}
  BY DEF CoveredBy
<1>6. \A i \in (h + 1)..n : Share(i) = {R[i]}
  BY <1>4
<1>7. CASE h = 0
  <2>1. HeadCovers(tr, b) = {}
    BY <1>2, <1>7 DEF Heads, HeadCovers
  <2>2. (h + 1)..n = 1..n
    BY <1>7
  <2> HIDE DEF Share
  <2> QED BY <1>1, <1>2, <1>5, <1>6, <2>1, <2>2
<1>8. CASE h = 1
  <2> DEFINE at == LastCheckpoint(tr, WindowTo(b))
  <2>1. at # Unsaved /\ HeadCovers(tr, b) = tr[at].covers /\ R[1] = at
    BY <1>2, <1>3, <1>8 DEF Heads, HeadCovers
  <2>2. ~IsTurn(tr, at)
    <3>1. WindowTo(b) \in Seq(Nat)
      BY <1>3, Windows
    <3>2. tr[at].type = "summary"
      BY <2>1, <3>1, Checkpoints
    <3> QED BY <3>2 DEF IsTurn, TurnTypes
  <2>3. Share(1) = HeadCovers(tr, b)
    BY <2>1, <2>2
  <2>4. 1..n = {1} \cup (h + 1)..n
    BY <1>3, <1>8
  <2> HIDE DEF Share, at
  <2> QED BY <1>1, <1>2, <1>5, <1>6, <2>3, <2>4
<1> QED BY <1>2, <1>7, <1>8

\* What a compaction of the replayed history folds away, the marker of the
\* checkpoint it writes for that, and the row the marker is taken from.
CutAt(tr, b)    == SafeSplit(tr, ReplayTo(tr, b))
FoldedTo(tr, b) == CoveredBy(tr, ReplayTo(tr, b), CutAt(tr, b))
MarkerTo(tr, b) == RetainFromStep(tr, ReplayTo(tr, b), CutAt(tr, b))
Kept(tr, b)     == {ReplayTo(tr, b)[i] : i \in (CutAt(tr, b) + 1)..Len(ReplayTo(tr, b))}

LEMMA MarkerRow ==
    ASSUME NEW tr, Sound(tr), NEW b \in 0..Len(tr), WillCompact(tr, ReplayTo(tr, b))
    PROVE  LET R == ReplayTo(tr, b)
               n == CutAt(tr, b)
           IN  /\ FoldedTo(tr, b) \subseteq {p \in 1..b : IsTurn(tr, p)}
               /\ MarkerTo(tr, b) \in Nat
               /\ \/ n < Len(R) /\ MarkerTo(tr, b) = tr[R[n + 1]].idx /\ R[n + 1] \in Replayed(tr, WindowTo(b))
                  \/ n = Len(R) /\ MarkerTo(tr, b) = tr[R[n]].idx + 1 /\ R[n] \in Replayed(tr, WindowTo(b))
<1>1. PICK R : R = ReplayTo(tr, b)
  OBVIOUS
<1>2. PICK h \in {0, 1} : h = Heads(tr, b)
  BY DEF Heads
<1>3. PICK n \in 1..Len(R) : n = CutAt(tr, b) /\ Len(R) \in Nat /\ Len(R) >= 2
  <2>1. R \in Seq(Int)
    BY <1>1, ReplayedTurns, Replays
  <2> QED BY <1>1, <2>1, SplitBounds DEF CutAt
<1>4. b \in Nat /\ {R[i] : i \in (h + 1)..Len(R)} = Replayed(tr, WindowTo(b))
  BY <1>1, <1>2, ReplayedTurns, Replays
<1>5. /\ \A p \in 1..Len(tr) : tr[p].idx \in Nat
      /\ \A p \in Replayed(tr, WindowTo(b)) : p \in 1..Len(tr)
  BY ReplayedTurns
<1>6. FoldedTo(tr, b) \subseteq {p \in 1..b : IsTurn(tr, p)}
  <2>1. FoldedTo(tr, b) = HeadCovers(tr, b) \cup {R[i] : i \in (h + 1)..n}
    BY <1>1, <1>2, <1>3, Folds DEF FoldedTo
  <2>2. \A i \in (h + 1)..n : i \in (h + 1)..Len(R)
    BY <1>3
  <2> QED BY <1>4, <2>1, <2>2, ReplayedTurns
<1>7. CASE n < Len(R)
  <2>1. n + 1 \in (h + 1)..Len(R)
    BY <1>3, <1>7
  <2>2. MarkerTo(tr, b) = tr[R[n + 1]].idx /\ R[n + 1] \in Replayed(tr, WindowTo(b))
    BY <1>1, <1>3, <1>4, <1>7, <2>1 DEF MarkerTo, RetainFromStep
  <2> QED BY <1>1, <1>3, <1>5, <1>6, <1>7, <2>2
<1>8. CASE n = Len(R)
  <2>1. n \in (h + 1)..Len(R)
    BY <1>3, <1>8
  <2>2. MarkerTo(tr, b) = tr[R[n]].idx + 1 /\ R[n] \in Replayed(tr, WindowTo(b))
    BY <1>1, <1>3, <1>4, <1>8, <2>1 DEF MarkerTo, RetainFromStep
  <2>3. MarkerTo(tr, b) \in Nat
    BY <1>5, <2>2
  <2> QED BY <1>1, <1>3, <1>6, <1>8, <2>2, <2>3
<1> QED BY <1>3, <1>7, <1>8

\* While the numbering is intact, each loaded turn is folded away or kept, not
\* both, and the marker tells which.
LEMMA FoldsDivide ==
    ASSUME NEW tr, Sound(tr), NEW b \in 0..Len(tr), WillCompact(tr, ReplayTo(tr, b)),
           IndicesIncrease(tr, b), NEW p \in Elements(WindowTo(b)), IsTurn(tr, p)
    PROVE  /\ (p \in FoldedTo(tr, b)) # (p \in Kept(tr, b))
           /\ p \in FoldedTo(tr, b) <=> tr[p].idx < MarkerTo(tr, b)
<1>1. PICK R : R = ReplayTo(tr, b)
  OBVIOUS
<1>2. PICK h \in {0, 1} : h = Heads(tr, b)
  BY DEF Heads
<1>3. PICK n \in 1..Len(R) : n = CutAt(tr, b) /\ Len(R) \in Nat
  <2>1. R \in Seq(Int)
    BY <1>1, ReplayedTurns, Replays
  <2> QED BY <1>1, <2>1, SplitBounds DEF CutAt
<1>4. /\ b \in Nat /\ {R[i] : i \in (h + 1)..Len(R)} = Replayed(tr, WindowTo(b))
      /\ \A i, j \in (h + 1)..Len(R) : i < j => R[i] < R[j]
  BY <1>1, <1>2, ReplayedTurns, Replays
<1>5. /\ \A x \in 1..Len(tr) : tr[x].idx \in Nat
      /\ \A x \in Replayed(tr, WindowTo(b)) : x \in 1..b /\ x \in 1..Len(tr)
  BY ReplayedTurns
<1>6. FoldedTo(tr, b) = HeadCovers(tr, b) \cup {R[i] : i \in (h + 1)..n}
  BY <1>1, <1>2, <1>3, Folds DEF FoldedTo
<1>7. Kept(tr, b) = {R[i] : i \in (n + 1)..Len(R)}
  BY <1>1, <1>3 DEF Kept
<1>8. PICK k \in Nat : k = MarkerTo(tr, b)
  BY MarkerRow
<1>9. \/ n < Len(R) /\ k = tr[R[n + 1]].idx
      \/ n = Len(R) /\ k = tr[R[n]].idx + 1
  BY <1>1, <1>3, <1>8, MarkerRow
<1>10. n + 1 \in (h + 1)..(Len(R) + 1) /\ (n = Len(R) => \A i \in (h + 1)..Len(R) : n \in (h + 1)..Len(R))
  BY <1>3
<1>11. \A i \in (n + 1)..Len(R) : i \in (h + 1)..Len(R)
  BY <1>3
<1>12. \A i, j \in (h + 1)..Len(R) :
         /\ R[i] \in 1..b /\ tr[R[i]].idx \in Nat
         /\ i < j => R[i] < R[j] /\ tr[R[i]].idx < tr[R[j]].idx
  <2> SUFFICES ASSUME NEW i \in (h + 1)..Len(R), NEW j \in (h + 1)..Len(R)
               PROVE  /\ R[i] \in 1..b /\ tr[R[i]].idx \in Nat
                      /\ i < j => R[i] < R[j] /\ tr[R[i]].idx < tr[R[j]].idx
    OBVIOUS
  <2>1. R[i] \in Replayed(tr, WindowTo(b)) /\ R[j] \in Replayed(tr, WindowTo(b))
    BY <1>4
  <2>2. R[i] \in 1..b /\ R[j] \in 1..b /\ tr[R[i]].idx \in Nat
    BY <1>5, <2>1
  <2> QED BY <1>4, <2>2 DEF IndicesIncrease
<1>13. CASE p \in HeadCovers(tr, b)
  <2>1. p \in FoldedTo(tr, b) /\ p \notin Replayed(tr, WindowTo(b))
    BY <1>6, <1>13, HeadDivides
  <2>2. p \notin Kept(tr, b)
    BY <1>4, <1>7, <1>11, <2>1
  <2>3. PICK e \in Replayed(tr, WindowTo(b)) : k = tr[e].idx \/ k = tr[e].idx + 1
    BY <1>1, <1>3, <1>8, MarkerRow
  <2>4. tr[p].idx < tr[e].idx
    BY <1>13, HeadDivides
  <2>5. p \in 1..Len(tr)
    BY <1>4, <1>13, ReplayedTurns
  <2> QED BY <1>5, <1>8, <2>1, <2>2, <2>3, <2>4, <2>5
<1>14. CASE p \notin HeadCovers(tr, b)
  <2>1. p \in Replayed(tr, WindowTo(b))
    BY <1>14, HeadDivides
  <2>2. PICK i \in (h + 1)..Len(R) : R[i] = p
    BY <1>4, <2>1
  <2>3. CASE i <= n
    <3>1. i \in (h + 1)..n /\ p \in FoldedTo(tr, b)
      BY <1>3, <1>6, <2>2, <2>3
    <3>2. \A j \in (n + 1)..Len(R) : R[j] # p
      BY <1>11, <1>12, <2>2, <2>3, SMTT(30)
    <3>3. tr[p].idx < k
      <4>1. CASE n < Len(R)
        <5>1. n + 1 \in (h + 1)..Len(R) /\ i < n + 1 /\ k = tr[R[n + 1]].idx
          BY <1>3, <1>9, <1>10, <2>3, <4>1
        <5> QED BY <1>12, <2>2, <5>1
      <4>2. CASE n = Len(R)
        <5>1. n \in (h + 1)..Len(R) /\ k = tr[R[n]].idx + 1 /\ (i = n \/ i < n)
          BY <1>3, <1>9, <1>10, <2>3, <4>2
        <5> QED BY <1>12, <2>2, <5>1, SMTT(30)
      <4> QED BY <1>3, <4>1, <4>2
    <3> QED BY <1>7, <1>8, <3>1, <3>2, <3>3
  <2>4. CASE i > n
    <3>1. i \in (n + 1)..Len(R) /\ p \in Kept(tr, b)
      BY <1>3, <1>7, <2>2, <2>4
    <3>2. \A j \in (h + 1)..n : j \in (h + 1)..Len(R) /\ R[j] # p
      BY <1>3, <1>12, <2>2, <2>4
    <3>3. n < Len(R) /\ k = tr[R[n + 1]].idx /\ n + 1 \in (h + 1)..Len(R)
      BY <1>3, <1>9, <1>10, <2>4
    <3>4. i = n + 1 \/ n + 1 < i
      BY <1>3, <2>4
    <3>5. ~(tr[p].idx < k)
      BY <1>12, <2>2, <3>3, <3>4
    <3> QED BY <1>6, <1>8, <1>14, <3>1, <3>2, <3>5
  <2> QED BY <1>3, <2>3, <2>4
<1> QED BY <1>13, <1>14

\* All of this depends on the rows up to the end of the window only.
Agree(tr, longer, n) == \A p \in 1..n : longer[p] = tr[p]

LEMMA AgreeSound ==
    ASSUME NEW tr, NEW longer, NEW n \in Nat, Agree(tr, longer, n), NEW q \in 1..n
    PROVE  /\ IndicesIncrease(longer, q) <=> IndicesIncrease(tr, q)
           /\ RowSound(tr, q) <=> RowSound(longer, q)
<1>1. \A p \in 1..q : p \in 1..n /\ longer[p] = tr[p]
  BY DEF Agree
<1>2. \A p \in 1..(q - 1) : p \in 1..q
  OBVIOUS
<1>3. q \in 1..q
  OBVIOUS
<1>4. IndicesIncrease(longer, q) <=> IndicesIncrease(tr, q)
  BY <1>1 DEF IndicesIncrease
<1>5. \A p \in 1..q : IsTurn(longer, p) <=> IsTurn(tr, p)
  BY <1>1 DEF IsTurn
<1>6. Marks(longer, q) <=> Marks(tr, q)
  BY <1>1, <1>2, <1>3, <1>5 DEF Marks
<1>7. {p \in 1..(q - 1) : IsTurn(longer, p)} = {p \in 1..(q - 1) : IsTurn(tr, p)}
  BY <1>2, <1>5
<1>8. longer[q] = tr[q]
  BY <1>1, <1>3
<1> QED BY <1>4, <1>6, <1>7, <1>8 DEF RowSound

LEMMA AgreeReplay ==
    ASSUME NEW tr, NEW longer, NEW n \in Nat, Agree(tr, longer, n), NEW b \in 0..n
    PROVE  /\ ReplayTo(longer, b) = ReplayTo(tr, b)
           /\ WillCompact(longer, ReplayTo(tr, b)) <=> WillCompact(tr, ReplayTo(tr, b))
           /\ SafeSplit(longer, ReplayTo(tr, b)) = SafeSplit(tr, ReplayTo(tr, b))
           /\ \A m \in Int : m <= Len(ReplayTo(tr, b)) =>
                 CoveredBy(longer, ReplayTo(tr, b), m) = CoveredBy(tr, ReplayTo(tr, b), m)
<1>0. b \in Nat
  OBVIOUS
<1>1. PICK st \in Seq(Nat) : st = WindowTo(b) /\ Elements(st) \subseteq 1..b
  BY <1>0, Windows
<1>2. \A i \in DOMAIN st : longer[st[i]] = tr[st[i]]
  BY <1>1 DEF Agree, Elements
<1>3. \A p \in Elements(st) : longer[p] = tr[p]
  BY <1>1 DEF Agree
<1>4. LastCheckpoint(longer, st) = LastCheckpoint(tr, st)
  <2> DEFINE Found(t) == {i \in DOMAIN st : t[st[i]].type = "summary"}
             Latest(S) == IF S = {} THEN Unsaved ELSE st[CHOOSE i \in S : \A j \in S : j <= i]
  <2>1. Found(longer) = Found(tr)
    BY <1>2
  <2>2. LastCheckpoint(longer, st) = Latest(Found(longer)) /\ LastCheckpoint(tr, st) = Latest(Found(tr))
    BY DEF LastCheckpoint
  <2> HIDE DEF Found, Latest
  <2> QED BY <2>1, <2>2
<1>5. PICK at : at = LastCheckpoint(tr, st)
  OBVIOUS
<1>6. at = Unsaved \/ at \in Elements(st)
  BY <1>5, Checkpoints
<1>7. Replayed(longer, st) = Replayed(tr, st)
  <2>1. \A p \in Elements(st) :
           /\ IsTurn(longer, p) <=> IsTurn(tr, p)
           /\ longer[p].idx = tr[p].idx
    BY <1>3 DEF IsTurn
  <2>2. at # Unsaved => longer[at].retain = tr[at].retain
    BY <1>3, <1>6
  <2> QED BY <1>4, <1>5, <2>1, <2>2 DEF Replayed
<1>8. ReplayTo(longer, b) = ReplayTo(tr, b)
  BY <1>1, <1>4, <1>7 DEF ReplayTo, Rehydrate
<1>9. PICK R \in Seq(Int) : R = ReplayTo(tr, b)
  BY Replays
<1>10. \A i \in 1..Len(R) : longer[R[i]] = tr[R[i]]
  <2>1. PICK h \in {0, 1} : h = Heads(tr, b)
    BY DEF Heads
  <2>2. /\ h = 1 => R[1] = at
        /\ {R[i] : i \in (h + 1)..Len(R)} = Replayed(tr, st)
    BY <1>1, <1>5, <1>9, <2>1, Replays
  <2>3. h = 1 => at \in Elements(st)
    BY <1>1, <1>5, <1>6, <2>1 DEF Heads
  <2>4. Replayed(tr, st) \subseteq Elements(st)
    BY DEF Replayed
  <2>5. \A i \in 1..Len(R) : i \in (h + 1)..Len(R) \/ (h = 1 /\ i = 1)
    OBVIOUS
  <2> QED BY <1>3, <2>2, <2>3, <2>4, <2>5
<1>11. \A i \in 1..Len(R) : /\ IsResult(longer, R[i]) <=> IsResult(tr, R[i])
                            /\ IsTurn(longer, R[i]) <=> IsTurn(tr, R[i])
  BY <1>10 DEF IsResult, IsTurn
<1>12. SafeSplit(longer, R) = SafeSplit(tr, R)
  <2> DEFINE desired == Len(R) - KeepBound
  <2>1. KeepBound \in Nat /\ Len(R) \in Nat
    BY HistoryAssumption DEF KeepBound
  <2>2. desired \in Int
    BY <2>1
  <2>3. ~(desired <= 0) /\ desired < Len(R) => desired + 1 \in 1..Len(R)
    BY <2>1, <2>2
  <2>4. ~(desired <= 0) /\ desired < Len(R) =>
           (IsResult(longer, R[desired + 1]) <=> IsResult(tr, R[desired + 1]))
    BY <1>11, <2>3
  <2> HIDE DEF desired
  <2> QED BY <2>4 DEF SafeSplit, desired
<1>13. WillCompact(longer, R) <=> WillCompact(tr, R)
  BY <1>12 DEF WillCompact
<1>14. ASSUME NEW m \in Int, m <= Len(R) PROVE CoveredBy(longer, R, m) = CoveredBy(tr, R, m)
  <2> DEFINE Share(t, i) == IF IsTurn(t, R[i]) THEN {R[i]} ELSE t[R[i]].covers
  <2>1. \A i \in 1..m : i \in 1..Len(R)
    BY <1>14
  <2>2. \A i \in 1..m : Share(longer, i) = Share(tr, i)
    BY <1>10, <1>11, <2>1
  <2>3. UNION {Share(longer, i) : i \in 1..m} = UNION {Share(tr, i) : i \in 1..m}
    <3> HIDE DEF Share
    <3> QED BY <2>2
  <2> QED BY <2>3 DEF CoveredBy
<1> QED BY <1>8, <1>9, <1>12, <1>13, <1>14

\* A row that stands for nothing, and a checkpoint, leave the trace sound.
LEMMA SoundAppend ==
    ASSUME NEW tr, Sound(tr), NEW row \in Row, RowSound(Append(tr, row), Len(tr) + 1)
    PROVE  Sound(Append(tr, row)) /\ Agree(tr, Append(tr, row), Len(tr))
<1>1. PICK longer \in Seq(Row) : longer = Append(tr, row)
  BY AppendFacts DEF Sound
<1>2. Len(tr) \in Nat /\ Len(longer) = Len(tr) + 1 /\ Agree(tr, longer, Len(tr))
  BY <1>1, AppendFacts DEF Sound, Agree
<1>3. \A q \in 1..Len(tr) : RowSound(longer, q)
  BY <1>2, AgreeSound DEF Sound
<1>4. \A q \in 1..Len(longer) : q \in 1..Len(tr) \/ q = Len(tr) + 1
  BY <1>2
<1> QED BY <1>1, <1>2, <1>3, <1>4 DEF Sound

LEMMA PlainRow ==
    ASSUME NEW tr, Sound(tr), NEW row \in Row, row.type # "summary", row.covers = {}
    PROVE  Sound(Append(tr, row)) /\ Agree(tr, Append(tr, row), Len(tr))
<1>1. Append(tr, row)[Len(tr) + 1] = row
  BY AppendFacts DEF Sound
<1>2. RowSound(Append(tr, row), Len(tr) + 1)
  BY <1>1 DEF RowSound
<1> QED BY <1>2, SoundAppend

LEMMA CheckpointRow ==
    ASSUME NEW tr, Sound(tr), NEW b \in 0..Len(tr), WillCompact(tr, ReplayTo(tr, b)),
           NEW row \in Row, row.type = "summary",
           row.covers = FoldedTo(tr, b), row.retain = MarkerTo(tr, b)
    PROVE  Sound(Append(tr, row)) /\ Agree(tr, Append(tr, row), Len(tr))
<1>1. PICK longer \in Seq(Row) : longer = Append(tr, row)
  BY AppendFacts DEF Sound
<1>2. PICK q \in Nat : q = Len(tr) + 1 /\ Len(tr) \in Nat /\ b \in Nat
  BY DEF Sound
<1>3. longer[q] = row /\ \A p \in 1..Len(tr) : longer[p] = tr[p]
  BY <1>1, <1>2, AppendFacts DEF Sound
<1>4. \A p \in 1..b : p \in 1..(q - 1) /\ p \in 1..Len(tr) /\ p \in 1..q
  BY <1>2
<1>5. FoldedTo(tr, b) \subseteq {p \in 1..(q - 1) : IsTurn(longer, p)}
  BY <1>3, <1>4, MarkerRow DEF IsTurn
<1>6. /\ \A p \in 1..Len(tr) : tr[p].idx \in Nat
      /\ \A p \in Replayed(tr, WindowTo(b)) : p \in 1..b
  BY ReplayedTurns
<1>7. ASSUME IndicesIncrease(longer, q) PROVE Marks(longer, q)
  <2>1. IndicesIncrease(tr, b)
    BY <1>3, <1>4, <1>7 DEF IndicesIncrease
  <2>2. PICK e \in 1..b : /\ MarkerTo(tr, b) = tr[e].idx \/ MarkerTo(tr, b) = tr[e].idx + 1
                          /\ tr[e].idx \in Nat
    BY <1>4, <1>6, MarkerRow
  <2>3. row.retain \in Nat /\ row.retain <= tr[e].idx + 1
    BY <2>2, MarkerRow
  <2>4. \A p \in 1..q : p > b => row.retain <= longer[p].idx
    <3> SUFFICES ASSUME NEW p \in 1..q, p > b PROVE row.retain <= longer[p].idx
      OBVIOUS
    <3>1. longer[e].idx < longer[p].idx /\ longer[e].idx = tr[e].idx
      BY <1>3, <1>4, <1>7 DEF IndicesIncrease
    <3>2. longer[p].idx \in Nat
      <4>1. p \in 1..Len(longer)
        BY <1>1, <1>2, AppendFacts DEF Sound
      <4>2. longer[p] \in Row
        BY <1>1, <4>1
      <4> QED BY <4>2 DEF Row
    <3> QED BY <2>2, <2>3, <3>1, <3>2
  <2>5. longer[q].retain <= longer[q].idx
    <3>1. q \in 1..q /\ q > b
      BY <1>2
    <3> QED BY <1>3, <2>4, <3>1
  <2>6. ASSUME NEW p \in 1..(q - 1), IsTurn(longer, p), q - HistoryWindow <= p
        PROVE  p \in longer[q].covers <=> longer[p].idx < longer[q].retain
    <3>1. p \in 1..Len(tr) /\ p \in 1..q /\ longer[p] = tr[p] /\ IsTurn(tr, p)
      BY <1>2, <1>3, <2>6 DEF IsTurn
    <3>2. CASE p > b
      <4>1. p \notin FoldedTo(tr, b)
        BY <1>2, <3>2, MarkerRow
      <4>2. row.retain <= longer[p].idx /\ longer[p].idx \in Nat
        BY <1>6, <2>4, <3>1, <3>2
      <4> QED BY <1>3, <2>3, <4>1, <4>2
    <3>3. CASE p <= b
      <4>1. p \in Elements(WindowTo(b))
        <5>1. p \in 1..b /\ b - HistoryWindow < p
          BY <1>2, <2>6, <3>3, HistoryAssumption
        <5> QED BY <1>2, <5>1, Windows
      <4>2. p \in FoldedTo(tr, b) <=> tr[p].idx < MarkerTo(tr, b)
        BY <2>1, <3>1, <4>1, FoldsDivide
      <4> QED BY <1>3, <3>1, <4>2
    <3> QED BY <1>2, <3>2, <3>3
  <2> QED BY <2>5, <2>6 DEF Marks
<1>8. RowSound(longer, q)
  BY <1>3, <1>5, <1>7 DEF RowSound
<1> QED BY <1>1, <1>2, <1>8, SoundAppend

-----------------------------------------------------------------------------
(* The history of a Run.                                                   *)

Compacting == {"compact", "checkpoint"}
Before == {"new", "user", "build"}

\* r has loaded the window that ends at b; its history is what that replays,
\* before or after it was compacted.
Follows(r, b) ==
    /\ steps[r] = WindowTo(b)
    /\ pc[r] \in Before => hist[r] = <<>>
    /\ \/ hist[r] = <<>> /\ pc[r] \notin Compacting
       \/ /\ hist[r] = ReplayTo(trace, b)
          /\ pc[r] \in Compacting => WillCompact(trace, ReplayTo(trace, b))
       \/ /\ pc[r] \notin Compacting
          /\ WillCompact(trace, ReplayTo(trace, b))
          /\ hist[r] = <<Unsaved>> \o Retained(ReplayTo(trace, b), CutAt(trace, b))
          /\ folded[r] = FoldedTo(trace, b)

Shapes ==
    /\ DOMAIN steps = Runs /\ DOMAIN hist = Runs /\ DOMAIN folded = Runs
    /\ stepIdx \in [Runs -> Nat]

ReplayInv ==
    /\ ControlOK /\ Shapes /\ Sound(trace)
    /\ \A r \in Runs : \E b \in 0..Len(trace) : Follows(r, b)

\* Step that at most adds rows, and leaves a sound trace.
Grows == Sound(trace') /\ Len(trace) <= Len(trace') /\ Agree(trace, trace', Len(trace))

LEMMA GrowsOrNot == ASSUME Sound(trace), UNCHANGED trace PROVE Grows
<1>1. Len(trace) \in Nat
  BY DEF Sound
<1>2. Sound(trace')
  BY DEF Sound, RowSound, Marks, IndicesIncrease, IsTurn
<1> QED BY <1>1, <1>2 DEF Grows, Agree

LEMMA AppendGrows ==
    ASSUME Sound(trace), NEW row \in Row, trace' = Append(trace, row),
           Sound(Append(trace, row)) /\ Agree(trace, Append(trace, row), Len(trace))
    PROVE  Grows
<1>1. Len(trace) \in Nat /\ Len(Append(trace, row)) = Len(trace) + 1
  BY AppendFacts DEF Sound
<1> QED BY <1>1 DEF Grows

LEMMA StepGrows ==
    ASSUME Sound(trace), Shapes, NEW r \in Runs, NEW type \in StepTypes \ {"summary"}, WriteStep(r, type)
    PROVE  Grows /\ stepIdx' \in [Runs -> Nat]
<1> DEFINE row == [by |-> r, type |-> type, idx |-> stepIdx[r], retain |-> 0, covers |-> {}]
<1>1. row \in Row /\ row.type # "summary" /\ row.covers = {}
  BY DEF Shapes, Row
<1>2. trace' = Append(trace, row) \/ UNCHANGED trace
  BY DEF WriteStep, WriteRow
<1> HIDE DEF row
<1>3. Grows
  BY <1>1, <1>2, PlainRow, AppendGrows, GrowsOrNot
<1>4. stepIdx' \in [Runs -> Nat]
  BY DEF WriteStep, WriteRow, Shapes
<1> QED BY <1>3, <1>4

\* Step after which r has the history it had, if any.
SameHistory(r) ==
    /\ steps'[r] = steps[r] /\ hist'[r] = hist[r] /\ folded'[r] = folded[r]
    /\ pc'[r] \in Before => pc[r] \in Before
    /\ pc'[r] \in Compacting => pc[r] \in Compacting

LEMMA StillFollows ==
    ASSUME Sound(trace), Grows, NEW r \in Runs, NEW b \in 0..Len(trace), Follows(r, b),
           SameHistory(r)
    PROVE  \E c \in 0..Len(trace') : Follows(r, c)'
<1>1. Len(trace) \in Nat /\ Len(trace') \in Nat /\ Len(trace) <= Len(trace')
  BY DEF Sound, Grows
<1>2. b \in 0..Len(trace')
  BY <1>1
<1>3. /\ ReplayTo(trace', b) = ReplayTo(trace, b)
      /\ WillCompact(trace', ReplayTo(trace, b)) <=> WillCompact(trace, ReplayTo(trace, b))
      /\ CutAt(trace', b) = CutAt(trace, b)
  BY <1>1, AgreeReplay DEF Grows, CutAt
<1>4. WillCompact(trace, ReplayTo(trace, b)) => FoldedTo(trace', b) = FoldedTo(trace, b)
  <2>1. SUFFICES ASSUME WillCompact(trace, ReplayTo(trace, b)) PROVE FoldedTo(trace', b) = FoldedTo(trace, b)
    OBVIOUS
  <2>2. ReplayTo(trace, b) \in Seq(Int)
    BY ReplayedTurns, Replays
  <2>3. CutAt(trace, b) \in 1..Len(ReplayTo(trace, b))
    BY <2>1, <2>2, SplitBounds DEF CutAt
  <2>4. CutAt(trace, b) \in Int /\ CutAt(trace, b) <= Len(ReplayTo(trace, b))
    BY <2>2, <2>3
  <2>5. CoveredBy(trace', ReplayTo(trace, b), CutAt(trace, b)) = CoveredBy(trace, ReplayTo(trace, b), CutAt(trace, b))
    BY <1>1, <2>4, AgreeReplay DEF Grows
  <2> QED BY <1>3, <2>5 DEF FoldedTo
<1>5. pc'[r] \in Before => hist'[r] = <<>>
  BY DEF Follows, SameHistory
<1>6. CASE hist[r] = <<>> /\ pc[r] \notin Compacting
  BY <1>2, <1>5, <1>6 DEF Follows, SameHistory
<1>7. CASE /\ hist[r] = ReplayTo(trace, b)
           /\ pc[r] \in Compacting => WillCompact(trace, ReplayTo(trace, b))
  BY <1>2, <1>3, <1>5, <1>7 DEF Follows, SameHistory
<1>8. CASE /\ pc[r] \notin Compacting
           /\ WillCompact(trace, ReplayTo(trace, b))
           /\ hist[r] = <<Unsaved>> \o Retained(ReplayTo(trace, b), CutAt(trace, b))
           /\ folded[r] = FoldedTo(trace, b)
  BY <1>2, <1>3, <1>4, <1>5, <1>8 DEF Follows, SameHistory
<1> QED BY <1>6, <1>7, <1>8 DEF Follows

\* Step of r that leaves what the other Runs have alone.
Apart(r) ==
    /\ Grows /\ Shapes'
    /\ \A q \in Runs : q # r => /\ steps'[q] = steps[q] /\ hist'[q] = hist[q]
                                /\ folded'[q] = folded[q] /\ pc'[q] = pc[q]

LEMMA OthersFollow ==
    ASSUME ReplayInv, NEW r \in Runs, Apart(r), \E b \in 0..Len(trace') : Follows(r, b)'
    PROVE  Sound(trace)' /\ Shapes' /\ \A q \in Runs : \E b \in 0..Len(trace') : Follows(q, b)'
<1>1. ASSUME NEW q \in Runs, q # r PROVE \E b \in 0..Len(trace') : Follows(q, b)'
  <2>1. PICK b \in 0..Len(trace) : Follows(q, b)
    BY DEF ReplayInv
  <2>2. SameHistory(q)
    BY <1>1 DEF Apart, SameHistory
  <2>3. Sound(trace) /\ Grows
    BY DEF Apart, ReplayInv
  <2> QED BY <2>1, <2>2, <2>3, StillFollows
<1>2. Sound(trace)' /\ Shapes'
  BY DEF Apart, Grows, Sound, RowSound, Marks, IndicesIncrease, IsTurn
<1> QED BY <1>1, <1>2

\* Steps that only move on.
LEMMA CalmReplay ==
    ASSUME ReplayInv, NEW r \in Runs,
           \/ Compact(r) \/ NextIteration(r) \/ LLMFails(r) \/ LLMBlank(r) \/ LLMResponds(r) \/ PersistData(r)
           \/ Finalize(r) \/ Crash(r)
    PROVE  Apart(r) /\ \E b \in 0..Len(trace') : Follows(r, b)'
<1>1. /\ UNCHANGED <<trace, steps, stepIdx>>
      /\ \/ UNCHANGED <<hist, folded>> 
         \/ hist' = [hist EXCEPT ![r] = <<>>] /\ folded' = [folded EXCEPT ![r] = {}]
  BY DEF Compact, NextIteration, LLMFails, LLMBlank, LLMResponds, PersistData, Finalize, Crash, Leave, runVars
<1>2. ControlOK /\ Shapes /\ Sound(trace)
  BY DEF ReplayInv
<1>3. Departs(r)
  BY <1>2, EveryMove DEF Step
<1>4. Grows
  BY <1>1, <1>2, GrowsOrNot
<1>5. Apart(r)
  BY <1>1, <1>2, <1>3, <1>4 DEF Apart, Shapes, Departs
<1>6. PICK b \in 0..Len(trace) : Follows(r, b)
  BY DEF ReplayInv
<1>7. CASE Finalize(r) \/ Crash(r)
  <2>1. hist'[r] = <<>> 
    BY <1>2, <1>7 DEF Finalize, Crash, Leave, Shapes
  <2>2. pc'[r] \notin Compacting
    BY <1>2, <1>7, LabelNames, Goes DEF Finalize, Crash, Compacting
  <2>3. steps'[r] = WindowTo(b) /\ b \in 0..Len(trace')
    BY <1>1, <1>6 DEF Follows
  <2> QED BY <1>5, <2>1, <2>2, <2>3 DEF Follows
<1>8. CASE \/ Compact(r) \/ NextIteration(r) \/ LLMFails(r) \/ LLMBlank(r) \/ LLMResponds(r) \/ PersistData(r)
  <2>1. UNCHANGED <<hist, folded>>
    BY <1>8 DEF Compact, NextIteration, LLMFails, LLMBlank, LLMResponds, PersistData, runVars
  <2>2. \/ pc'[r] \in {"turn", "llm", "finalize", "error", "respond"}
        \/ pc[r] = "compact" /\ pc'[r] = "checkpoint"
    BY <1>2, <1>8, LabelNames, Goes DEF Compact, NextIteration, LLMFails, LLMBlank, LLMResponds, PersistData, AfterScript
  <2>3. SameHistory(r)
    BY <1>1, <2>1, <2>2 DEF SameHistory, Before, Compacting
  <2> QED BY <1>2, <1>4, <1>5, <1>6, <2>3, StillFollows
<1> QED BY <1>7, <1>8

\* Steps that write a row other than a checkpoint.
LEMMA WritingReplay ==
    ASSUME ReplayInv, NEW r \in Runs,
           \/ WriteUser(r) \/ LLMWritesScript(r) \/ ExecuteTurn(r) \/ WriteResponse(r) \/ WriteError(r)
    PROVE  Apart(r) /\ \E b \in 0..Len(trace') : Follows(r, b)'
<1>1. UNCHANGED <<steps, hist, folded>>
  BY DEF WriteUser, LLMWritesScript, ExecuteTurn, WriteResponse, WriteError
<1>2. ControlOK /\ Shapes /\ Sound(trace)
  BY DEF ReplayInv
<1>3. Departs(r)
  BY <1>2, EveryMove DEF Step
<1>4. PICK type \in StepTypes \ {"summary"} : WriteStep(r, type)
  <2>1. {"user", "execute_js", "execute_js_result", "response", "error"} \subseteq StepTypes \ {"summary"}
    BY DEF StepTypes, TurnTypes
  <2> QED BY <2>1 DEF WriteUser, LLMWritesScript, ExecuteTurn, WriteResponse, WriteError
<1>5. Grows /\ stepIdx' \in [Runs -> Nat]
  BY <1>2, <1>4, StepGrows
<1>6. Apart(r)
  BY <1>1, <1>2, <1>3, <1>5 DEF Apart, Shapes, Departs
<1>7. PICK b \in 0..Len(trace) : Follows(r, b)
  BY DEF ReplayInv
<1>8. \/ pc'[r] \in {"exec", "persist", "turn", "respond", "finalize"}
      \/ pc[r] = "user" /\ pc'[r] = "build"
  BY <1>2, LabelNames, Goes DEF WriteUser, LLMWritesScript, ExecuteTurn, AfterScript, WriteResponse, WriteError
<1>9. SameHistory(r)
  BY <1>1, <1>8 DEF SameHistory, Before, Compacting
<1> QED BY <1>2, <1>5, <1>6, <1>7, <1>9, StillFollows

LEMMA LoadReplay ==
    ASSUME ReplayInv, NEW r \in Runs, LoadSession(r)
    PROVE  Apart(r) /\ \E b \in 0..Len(trace') : Follows(r, b)'
<1>1. /\ UNCHANGED <<trace, hist, folded>> /\ pc[r] = "new"
      /\ \/ UNCHANGED <<steps, stepIdx>>
         \/ steps' = [steps EXCEPT ![r] = LastN(trace)] /\ stepIdx' = [stepIdx EXCEPT ![r] = Len(LastN(trace))]
  BY DEF LoadSession
<1>2. ControlOK /\ Shapes /\ Sound(trace)
  BY DEF ReplayInv
<1>3. Departs(r)
  BY <1>2, EveryMove
<1>4. Grows /\ Len(trace) \in Nat
  BY <1>1, <1>2, GrowsOrNot DEF Sound
<1>5. LastN(trace) = WindowTo(Len(trace)) /\ Len(LastN(trace)) \in Nat
  <2>1. LastN(trace) = WindowTo(Len(trace))
    BY DEF LastN, WindowTo, Held
  <2> QED BY <1>4, <2>1, Windows
<1>6. Apart(r)
  BY <1>1, <1>2, <1>3, <1>4, <1>5 DEF Apart, Shapes, Departs
<1>7. PICK b \in 0..Len(trace) : Follows(r, b)
  BY DEF ReplayInv
<1>8. hist'[r] = <<>>
  BY <1>1, <1>7 DEF Follows, Before
<1>9. pc'[r] \notin Compacting
  BY <1>2, LabelNames, Goes DEF LoadSession, Compacting
<1>10. steps'[r] = WindowTo(b) \/ steps'[r] = WindowTo(Len(trace))
  BY <1>1, <1>2, <1>5, <1>7 DEF Follows, Shapes
<1>11. b \in 0..Len(trace') /\ Len(trace) \in 0..Len(trace')
  BY <1>1, <1>4
<1> QED BY <1>6, <1>8, <1>9, <1>10, <1>11 DEF Follows

LEMMA BuildReplay ==
    ASSUME ReplayInv, NEW r \in Runs, BuildSandbox(r)
    PROVE  Apart(r) /\ \E b \in 0..Len(trace') : Follows(r, b)'
<1>1. UNCHANGED <<trace, steps, stepIdx, folded>> /\ pc[r] = "build"
  BY DEF BuildSandbox
<1>2. ControlOK /\ Shapes /\ Sound(trace)
  BY DEF ReplayInv
<1>3. Departs(r)
  BY <1>2, EveryMove DEF Step
<1>4. Grows
  BY <1>1, <1>2, GrowsOrNot
<1>5. UNCHANGED hist \/ \E h : hist' = [hist EXCEPT ![r] = h]
  BY DEF BuildSandbox
<1>6. Apart(r)
  BY <1>1, <1>2, <1>3, <1>4, <1>5 DEF Apart, Shapes, Departs
<1>7. PICK b \in 0..Len(trace) : Follows(r, b)
  BY DEF ReplayInv
<1>8. steps[r] = WindowTo(b) /\ Rehydrate(trace, steps[r]) = ReplayTo(trace, b)
  BY <1>7 DEF Follows, ReplayTo
<1>9. \/ UNCHANGED hist /\ Goto(r, "finalize")
      \/ hist' = [hist EXCEPT ![r] = ReplayTo(trace, b)] /\ Goto(r, "turn")
      \/ /\ hist' = [hist EXCEPT ![r] = ReplayTo(trace, b)] /\ Goto(r, "compact")
         /\ WillCompact(trace, ReplayTo(trace, b))
  BY <1>8 DEF BuildSandbox
<1>10. hist[r] = <<>>
  BY <1>1, <1>7 DEF Follows, Before
<1>11. \/ hist'[r] = <<>> /\ pc'[r] = "finalize"
       \/ hist'[r] = ReplayTo(trace, b) /\ pc'[r] = "turn"
       \/ hist'[r] = ReplayTo(trace, b) /\ pc'[r] = "compact" /\ WillCompact(trace, ReplayTo(trace, b))
  BY <1>2, <1>9, <1>10, LabelNames, Goes DEF Shapes
<1>12. \/ hist'[r] = <<>> /\ pc'[r] \notin Compacting
       \/ /\ hist'[r] = ReplayTo(trace', b)
          /\ pc'[r] \in Compacting => WillCompact(trace', ReplayTo(trace', b))
  BY <1>1, <1>11 DEF Compacting
<1>13. pc'[r] \notin Before
  BY <1>11 DEF Before
<1>14. b \in 0..Len(trace') /\ steps'[r] = WindowTo(b)
  BY <1>1, <1>8
<1>15. Follows(r, b)'
  BY <1>12, <1>13, <1>14 DEF Follows
<1> QED BY <1>6, <1>14, <1>15

LEMMA CheckpointReplay ==
    ASSUME ReplayInv, NEW r \in Runs, WriteCheckpoint(r)
    PROVE  Apart(r) /\ \E b \in 0..Len(trace') : Follows(r, b)'
<1>1. UNCHANGED steps /\ pc[r] = "checkpoint" /\ Goto(r, "turn")
  BY DEF WriteCheckpoint
<1>2. ControlOK /\ Shapes /\ Sound(trace)
  BY DEF ReplayInv
<1>3. Departs(r)
  BY <1>2, EveryMove DEF Step
<1>4. PICK b \in 0..Len(trace) : Follows(r, b)
  BY DEF ReplayInv
<1>5. hist[r] = ReplayTo(trace, b) /\ WillCompact(trace, ReplayTo(trace, b))
  BY <1>1, <1>4 DEF Follows, Compacting
<1> DEFINE row == [by |-> r, type |-> "summary", idx |-> stepIdx[r],
                   retain |-> MarkerTo(trace, b), covers |-> FoldedTo(trace, b)]
<1>6. /\ WriteRow(r, row)
      /\ hist' = [hist EXCEPT ![r] = <<Unsaved>> \o Retained(ReplayTo(trace, b), CutAt(trace, b))]
      /\ folded' = [folded EXCEPT ![r] = FoldedTo(trace, b)]
  <2>1. /\ SafeSplit(trace, hist[r]) = CutAt(trace, b)
        /\ CoveredBy(trace, hist[r], SafeSplit(trace, hist[r])) = FoldedTo(trace, b)
        /\ RetainFromStep(trace, hist[r], SafeSplit(trace, hist[r])) = MarkerTo(trace, b)
    BY <1>5 DEF CutAt, FoldedTo, MarkerTo
  <2>2. hist' = [hist EXCEPT ![r] = <<Unsaved>> \o Retained(hist[r], SafeSplit(trace, hist[r]))]
    BY DEF WriteCheckpoint
  <2> QED BY <1>5, <2>1, <2>2 DEF WriteCheckpoint
<1>7. row \in Row /\ row.type = "summary" /\ row.covers = FoldedTo(trace, b) /\ row.retain = MarkerTo(trace, b)
  <2>1. MarkerTo(trace, b) \in Nat /\ FoldedTo(trace, b) \in SUBSET Nat
    <3>1. b \in Nat
      BY <1>2, ReplayedTurns
    <3>2. MarkerTo(trace, b) \in Nat /\ FoldedTo(trace, b) \subseteq 1..b
      BY <1>2, <1>5, MarkerRow
    <3> QED BY <3>1, <3>2
  <2>2. stepIdx[r] \in Nat /\ "summary" \in StepTypes
    BY <1>2 DEF Shapes, StepTypes
  <2> QED BY <2>1, <2>2 DEF Row
<1> HIDE DEF row
<1>8. Sound(Append(trace, row)) /\ Agree(trace, Append(trace, row), Len(trace))
  BY <1>2, <1>5, <1>7, CheckpointRow
<1>9. Grows
  BY <1>2, <1>6, <1>7, <1>8, AppendGrows, GrowsOrNot DEF WriteRow
<1>10. stepIdx' \in [Runs -> Nat]
  BY <1>2, <1>6 DEF WriteRow, Shapes
<1>11. Apart(r)
  BY <1>1, <1>2, <1>3, <1>6, <1>9, <1>10 DEF Apart, Shapes, Departs
<1>12. /\ ReplayTo(trace', b) = ReplayTo(trace, b)
       /\ WillCompact(trace', ReplayTo(trace', b))
       /\ CutAt(trace', b) = CutAt(trace, b)
       /\ FoldedTo(trace', b) = FoldedTo(trace, b)
       /\ b \in 0..Len(trace')
  <2>1. Len(trace) \in Nat /\ Len(trace') \in Nat
    BY <1>2, <1>9 DEF Sound, Grows
  <2>2. ReplayTo(trace, b) \in Seq(Int)
    BY <1>2, ReplayedTurns, Replays
  <2>3. CutAt(trace, b) \in Int /\ CutAt(trace, b) <= Len(ReplayTo(trace, b))
    BY <1>5, <2>2, SplitBounds DEF CutAt
  <2> QED BY <1>5, <1>9, <2>1, <2>3, AgreeReplay DEF Grows, CutAt, FoldedTo
<1>13. pc'[r] = "turn"
  BY <1>1, <1>2, LabelNames, Goes
<1>14. /\ hist'[r] = <<Unsaved>> \o Retained(ReplayTo(trace, b), CutAt(trace, b))
       /\ folded'[r] = FoldedTo(trace, b) /\ steps'[r] = WindowTo(b)
  BY <1>1, <1>2, <1>4, <1>6 DEF Shapes, Follows
<1>15. Follows(r, b)'
  BY <1>12, <1>13, <1>14 DEF Follows, Compacting, Before
<1> QED BY <1>11, <1>12, <1>15

LEMMA InitReplayInv == Init => ReplayInv
<1> SUFFICES ASSUME Init PROVE ReplayInv
  OBVIOUS
<1>1. ControlOK
  BY DEF Init, ControlOK, Labels, Ended, Statuses
<1>2. Shapes
  BY DEF Init, Shapes
<1>3. trace = <<>> /\ Len(trace) = 0
  BY DEF Init
<1>4. Sound(trace)
  BY <1>3 DEF Sound
<1>5. ASSUME NEW r \in Runs PROVE Follows(r, 0)
  BY Windows DEF Init, Follows, Compacting, Before
<1>6. 0 \in 0..Len(trace)
  BY <1>3
<1> QED BY <1>1, <1>2, <1>4, <1>5, <1>6 DEF ReplayInv

LEMMA ReplayInvariant == Spec => []ReplayInv
<1>1. ASSUME ReplayInv, [Next]_vars PROVE ReplayInv'
  <2>1. ControlOK'
    BY <1>1, ControlStep DEF ReplayInv
  <2>2. ASSUME NEW r \in Runs, LoadSession(r) \/ Step(r) \/ Crash(r)
        PROVE  Sound(trace)' /\ Shapes' /\ \A q \in Runs : \E b \in 0..Len(trace') : Follows(q, b)'
    BY <1>1, <2>2, OthersFollow, CalmReplay, WritingReplay, LoadReplay, BuildReplay, CheckpointReplay DEF Step
  <2>3. CASE UNCHANGED vars
    <3>1. UNCHANGED <<trace, pc, steps, stepIdx, hist, folded>>
      BY <2>3 DEF vars, runVars
    <3>2. Sound(trace)' /\ Shapes'
      BY <1>1, <3>1 DEF ReplayInv, Shapes, Sound, RowSound, Marks, IndicesIncrease, IsTurn
    <3>3. ASSUME NEW q \in Runs PROVE \E b \in 0..Len(trace') : Follows(q, b)'
      <4>1. PICK b \in 0..Len(trace) : Follows(q, b)
        BY <1>1 DEF ReplayInv
      <4>2. Follows(q, b)' /\ b \in 0..Len(trace')
        BY <3>1, <4>1 DEF Follows
      <4> QED BY <4>2
    <3> QED BY <2>1, <3>2, <3>3 DEF ReplayInv
  <2> QED BY <1>1, <2>1, <2>2, <2>3 DEF Next, ReplayInv
<1> QED BY InitReplayInv, <1>1, PTL DEF Spec

LEMMA FollowedWindow ==
    ASSUME NEW r \in Runs, NEW b \in Nat, Follows(r, b)
    PROVE  LastLoaded(r) = b /\ Loaded(r) = Elements(WindowTo(b))
<1>1. b = 0 => steps[r] = <<>>
  BY Windows DEF Follows
<1>2. b # 0 => steps[r] # <<>> /\ steps[r][Len(steps[r])] = b
  BY Windows DEF Follows
<1> QED BY <1>1, <1>2 DEF LastLoaded, Loaded, Follows

\* L is one followed by T.
Chained(L, one, T) ==
    /\ L = one \o T /\ L \in Seq(Int) /\ Len(L) = Len(one) + Len(T) /\ DOMAIN L = 1..Len(L)
    /\ \A i \in 1..Len(one) : L[i] = one[i]
    /\ \A i \in 1..Len(T) : L[Len(one) + i] = T[i]

LEMMA LengthOfJoin == ASSUME NEW one \in Seq(Int), NEW T \in Seq(Int)
   PROVE  Chained(one \o T, one, T)
<1>1. one \o T \in Seq(Int) /\ Len(one \o T) = Len(one) + Len(T)
  BY ConcatProperties
<1>2. \A i \in 1..Len(one) : (one \o T)[i] = one[i]
  BY ConcatProperties
<1>3. \A i \in 1..Len(T) : (one \o T)[Len(one) + i] = T[i]
  BY ConcatProperties
<1>4. DOMAIN (one \o T) = 1..Len(one \o T)
  BY <1>1
<1> QED BY <1>1, <1>2, <1>3, <1>4 DEF Chained

\* L is u in front of T.
Headed(L, u, T) ==
    /\ L \in Seq(Int) /\ Len(L) = Len(T) + 1 /\ DOMAIN L = 1..Len(L)
    /\ L[1] = u /\ \A i \in 1..Len(T) : L[i + 1] = T[i]

LEMMA Prefixed ==
    ASSUME NEW u \in Int, NEW T \in Seq(Int)
    PROVE  Headed(<<u>> \o T, u, T)
<1>0. PICK L : L = <<u>> \o T
  OBVIOUS
<1>1. <<u>> \in Seq(Int) /\ Len(<<u>>) = 1 /\ <<u>>[1] = u
  OBVIOUS
<1>2. PICK one : one = <<u>>
  OBVIOUS
<1>3. one \in Seq(Int) /\ Len(one) = 1 /\ one[1] = u
  BY <1>1, <1>2, Zenon
<1>4. Chained(L, one, T)
  BY <1>0, <1>2, <1>3, LengthOfJoin
<1>5. L \in Seq(Int) /\ Len(L) = 1 + Len(T) /\ DOMAIN L = 1..Len(L)
  BY <1>3, <1>4, Zenon DEF Chained
<1>6. (\A i \in 1..1 : L[i] = one[i]) /\ \A i \in 1..Len(T) : L[1 + i] = T[i]
  BY <1>3, <1>4, Zenon DEF Chained
<1>7. L[1] = u /\ Len(T) \in Nat
  BY <1>3, <1>6
<1>8. Len(L) = Len(T) + 1
  BY <1>5, <1>7
<1>9. ASSUME NEW i \in 1..Len(T) PROVE L[i + 1] = T[i]
  <2>1. i + 1 = 1 + i
    BY <1>7
  <2> QED BY <1>6, <2>1
<1> QED BY <1>0, <1>5, <1>7, <1>8, <1>9 DEF Headed

\* The messages of a history that was compacted.
LEMMA CompactedHistory ==
    ASSUME NEW R \in Seq(Int), NEW n \in 1..Len(R), NEW H, H = <<Unsaved>> \o Retained(R, n)
    PROVE  /\ DOMAIN H = 1..(Len(R) - n + 1) /\ H # <<>> /\ H[1] = Unsaved
           /\ \A i \in 2..(Len(R) - n + 1) : n + i - 1 \in (n + 1)..Len(R) /\ H[i] = R[n + i - 1]
<1>0. Len(R) \in Nat
  OBVIOUS
<1>1. PICK tail : tail = Retained(R, n)
  OBVIOUS
<1>2. /\ tail \in Seq(Int) /\ Len(tail) = Len(R) - n
      /\ \A i \in 1..Len(tail) : tail[i] = R[n + i]
  <2>1. n + 1 \in 1..(Len(R) + 1) /\ Len(R) \in 0..Len(R)
    BY <1>0
  <2>2. tail = SubSeq(R, n + 1, Len(R))
    BY <1>1 DEF Retained
  <2> QED BY <1>0, <2>1, <2>2, SubSeqProperties
<1>3. /\ H \in Seq(Int) /\ Len(H) = Len(tail) + 1 /\ H[1] = Unsaved /\ DOMAIN H = 1..Len(H)
      /\ \A i \in 1..Len(tail) : H[i + 1] = tail[i]
  <2>1. H = <<Unsaved>> \o tail
    BY <1>1
  <2>2. PICK u \in Int : u = Unsaved
    BY DEF Unsaved
  <2>3. H = <<u>> \o tail
    BY <2>1, <2>2
  <2>4. tail \in Seq(Int)
    BY <1>2, Zenon
  <2>5. Headed(H, u, tail)
    BY <2>2, <2>3, <2>4, Prefixed
  <2> QED BY <2>2, <2>5, Zenon DEF Headed
<1>4. Len(H) = Len(R) - n + 1
  BY <1>2, <1>3
<1>5. ASSUME NEW i \in 2..(Len(R) - n + 1)
      PROVE  n + i - 1 \in (n + 1)..Len(R) /\ H[i] = R[n + i - 1]
  <2>1. PICK j \in 1..Len(tail) : i = j + 1
    <3>1. i - 1 \in 1..Len(tail) /\ i = (i - 1) + 1
      BY <1>0, <1>2, SMTT(30)
    <3> QED BY <3>1
  <2>2. H[i] = R[n + j]
    BY <1>2, <1>3, <2>1
  <2>3. n + i - 1 = n + j /\ n + j \in (n + 1)..Len(R)
    BY <1>0, <1>2, <2>1
  <2> QED BY <2>2, <2>3
<1> QED BY <1>0, <1>3, <1>4, <1>5

\* What r sends and what the summary it sends stands for.
LEMMA SentHistory ==
    ASSUME Sound(trace), NEW r \in Runs, NEW b \in 0..Len(trace), Follows(r, b), HasHistory(r),
           NEW p \in 1..b, IsTurn(trace, p)
    PROVE  \/ /\ p \in Summarized(r) <=> p \in HeadCovers(trace, b)
              /\ p \in Elements(hist[r]) <=> p \in Replayed(trace, WindowTo(b))
           \/ /\ WillCompact(trace, ReplayTo(trace, b))
              /\ p \in Summarized(r) <=> p \in FoldedTo(trace, b)
              /\ p \in Elements(hist[r]) <=> p \in Kept(trace, b)
<1>1. PICK R \in Seq(Int) : R = ReplayTo(trace, b) /\ Len(R) \in Nat
  BY ReplayedTurns, Replays
<1>2. PICK h \in {0, 1} : h = Heads(trace, b)
  BY DEF Heads
<1>3. /\ b \in Nat /\ (h = 1 => R[1] = LastCheckpoint(trace, WindowTo(b)) /\ Len(R) >= 1)
      /\ {R[i] : i \in (h + 1)..Len(R)} = Replayed(trace, WindowTo(b))
  BY <1>1, <1>2, ReplayedTurns, Replays
<1>4. hist[r] # <<>> /\ Len(trace) \in Nat
  BY DEF HasHistory, Sound
<1>5. CASE hist[r] = R
  <2>1. 1 \in 1..Len(R) /\ DOMAIN R = 1..Len(R)
    <3>1. R # <<>>
      BY <1>4, <1>5
    <3> QED BY <1>1, <3>1
  <2>2. /\ R[1] # Unsaved /\ trace[R[1]].covers = HeadCovers(trace, b)
        /\ h = 1 => ~IsTurn(trace, R[1])
    <3>1. CASE h = 1
      <4> DEFINE at == LastCheckpoint(trace, WindowTo(b))
      <4>1. at # Unsaved /\ R[1] = at
        BY <1>2, <1>3, <3>1 DEF Heads
      <4>2. trace[at].type = "summary"
        <5>1. WindowTo(b) \in Seq(Nat)
          BY <1>3, Windows
        <5> QED BY <4>1, <5>1, Checkpoints
      <4>3. HeadCovers(trace, b) = trace[at].covers
        BY <4>1 DEF HeadCovers
      <4> QED BY <4>1, <4>2, <4>3 DEF IsTurn, TurnTypes
    <3>2. CASE h = 0
      <4>1. R[1] \in Replayed(trace, WindowTo(b))
        BY <1>3, <2>1, <3>2
      <4>2. R[1] \in 1..b /\ R[1] \in 1..Len(trace) /\ IsTurn(trace, R[1])
        BY <1>3, <1>4, <4>1, ReplayedTurns
      <4>3. RowSound(trace, R[1]) /\ trace[R[1]].type # "summary"
        BY <4>2 DEF Sound, IsTurn, TurnTypes
      <4>4. HeadCovers(trace, b) = {}
        BY <1>2, <3>2 DEF Heads, HeadCovers
      <4> QED BY <3>2, <4>2, <4>3, <4>4 DEF RowSound, Unsaved
    <3> QED BY <3>1, <3>2
  <2>3. Summarized(r) = HeadCovers(trace, b)
    BY <1>4, <1>5, <2>2 DEF Summarized
  <2>4. p \in Elements(R) <=> p \in Replayed(trace, WindowTo(b))
    <3>1. \A i \in (h + 1)..Len(R) : i \in 1..Len(R)
      OBVIOUS
    <3>2. \A i \in 1..Len(R) : R[i] = p => i \in (h + 1)..Len(R)
      BY <2>2
    <3> QED BY <1>3, <2>1, <3>1, <3>2 DEF Elements
  <2> QED BY <1>5, <2>3, <2>4
<1>6. CASE hist[r] # R
  <2>1. /\ WillCompact(trace, R)
        /\ hist[r] = <<Unsaved>> \o Retained(R, CutAt(trace, b))
        /\ folded[r] = FoldedTo(trace, b)
    BY <1>1, <1>4, <1>6 DEF Follows
  <2>2. PICK n \in 1..Len(R) : n = CutAt(trace, b)
    BY <1>1, <2>1, SplitBounds DEF CutAt
  <2>5. PICK H : H = hist[r] /\ H = <<Unsaved>> \o Retained(R, n)
    BY <2>1, <2>2
  <2>7. /\ DOMAIN H = 1..(Len(R) - n + 1) /\ H # <<>> /\ H[1] = Unsaved
        /\ \A i \in 2..(Len(R) - n + 1) : n + i - 1 \in (n + 1)..Len(R) /\ H[i] = R[n + i - 1]
    BY <1>1, <2>5, CompactedHistory
  <2>8. p \in Elements(H) <=> p \in Kept(trace, b)
    <3>1. ASSUME NEW i \in DOMAIN H, H[i] = p PROVE p \in Kept(trace, b)
      <4>1. i # 1
        BY <2>7, <3>1 DEF Unsaved
      <4>2. i \in 2..(Len(R) - n + 1)
        BY <1>1, <2>7, <4>1
      <4>3. n + i - 1 \in (n + 1)..Len(R) /\ p = R[n + i - 1]
        BY <2>7, <3>1, <4>2
      <4> QED BY <1>1, <2>2, <4>3 DEF Kept
    <3>2. ASSUME NEW j \in (n + 1)..Len(R), R[j] = p PROVE p \in Elements(H)
      <4>1. j - n + 1 \in 2..(Len(R) - n + 1) /\ n + (j - n + 1) - 1 = j
        BY <1>1
      <4>2. H[j - n + 1] = p
        BY <2>7, <3>2, <4>1
      <4>3. j - n + 1 \in DOMAIN H
        BY <2>7, <4>1
      <4> QED BY <4>2, <4>3 DEF Elements
    <3> QED BY <1>1, <2>2, <3>1, <3>2 DEF Kept, Elements
  <2>9. Summarized(r) = FoldedTo(trace, b)
    BY <1>4, <2>1, <2>5, <2>7 DEF Summarized
  <2> QED BY <1>1, <2>1, <2>5, <2>8, <2>9
<1> QED BY <1>5, <1>6

\* Whatever the number of Runs, the window and the compactor's settings, with
\* Runs that overlap, die or lose writes: as long as the step indices seen so
\* far increase, every loaded turn reaches the model exactly once (history.go,
\* rehydrateHistory; compact.go, compactHistory).
THEOREM TurnsReplayedOnce == Spec => []ReplayedOnce
<1>1. ASSUME ReplayInv PROVE ReplayedOnce
  <2> SUFFICES ASSUME NEW r \in Runs, HasHistory(r), IndicesIncrease(trace, LastLoaded(r)),
                      NEW p \in Loaded(r), IsTurn(trace, p)
               PROVE  (p \in Summarized(r)) # (\E i \in DOMAIN hist[r] : hist[r][i] = p)
    BY DEF ReplayedOnce
  <2>1. Sound(trace)
    BY <1>1 DEF ReplayInv
  <2>2. PICK b \in 0..Len(trace) : Follows(r, b)
    BY <1>1 DEF ReplayInv
  <2>3. b \in Nat /\ LastLoaded(r) = b /\ Loaded(r) = Elements(WindowTo(b))
    BY <2>1, <2>2, ReplayedTurns, FollowedWindow
  <2>4. p \in 1..b /\ p \in Elements(WindowTo(b))
    BY <2>1, <2>3, ReplayedTurns
  <2>5. p \in Summarized(r) <=> ~(p \in Elements(hist[r]))
    BY <2>1, <2>2, <2>3, <2>4, SentHistory, HeadDivides, FoldsDivide
  <2>6. p \in Elements(hist[r]) <=> \E i \in DOMAIN hist[r] : hist[r][i] = p
    BY DEF Elements
  <2> QED BY <2>5, <2>6
<1> QED BY ReplayInvariant, <1>1, PTL

-----------------------------------------------------------------------------
(* Execution results and the scripts they came from.                       *)

Result == "execute_js_result"
Script == "execute_js"

\* Every result lies right behind its script.
Paired(tr) ==
    \A p \in 1..Len(tr) : tr[p].type = Result =>
        /\ p - 1 \in 1..Len(tr) /\ tr[p - 1].type = Script
        /\ tr[p].idx = tr[p - 1].idx + 1

\* The marker of row q names no result before it.
NamesNoResult(tr, q) == \A p \in 1..(q - 1) : tr[p].type = Result => tr[p].idx # tr[q].retain

Whole(tr) ==
    /\ Paired(tr)
    /\ \A q \in 1..Len(tr) :
          tr[q].type = "summary" /\ IndicesIncrease(tr, q) => NamesNoResult(tr, q)

\* Replay keeps a result and its script together.
LEMMA ReplayKeepsPairs ==
    ASSUME NEW tr, Sound(tr), Whole(tr), NEW b \in 0..Len(tr), IndicesIncrease(tr, b),
           NEW i \in (Heads(tr, b) + 1)..Len(ReplayTo(tr, b)), tr[ReplayTo(tr, b)[i]].type = Result
    PROVE  LET R == ReplayTo(tr, b)
           IN  \/ R[i] = WindowTo(b)[1]
               \/ /\ i - 1 \in (Heads(tr, b) + 1)..Len(R) /\ R[i - 1] = R[i] - 1
                  /\ tr[R[i - 1]].type = Script
<1>1. PICK R : R = ReplayTo(tr, b)
  OBVIOUS
<1>2. PICK h \in {0, 1} : h = Heads(tr, b)
  BY DEF Heads
<1>3. /\ b \in Nat /\ {R[j] : j \in (h + 1)..Len(R)} = Replayed(tr, WindowTo(b))
      /\ \A j, l \in (h + 1)..Len(R) : j < l => R[j] < R[l]
      /\ Len(R) \in Nat /\ Len(tr) \in Nat
  BY <1>1, <1>2, ReplayedTurns, Replays
<1>4. PICK p \in Replayed(tr, WindowTo(b)) : p = R[i]
  BY <1>1, <1>2, <1>3
<1>5. /\ p \in 1..b /\ p \in 1..Len(tr) /\ tr[p].type = Result /\ b - HistoryWindow < p
      /\ Elements(WindowTo(b)) = {x \in 1..b : b - HistoryWindow < x}
      /\ \A x \in 1..Len(tr) : tr[x].idx \in Nat /\ tr[x].retain \in Nat
  <2>1. Elements(WindowTo(b)) = {x \in 1..b : b - HistoryWindow < x}
    BY <1>3, Windows
  <2>2. p \in Elements(WindowTo(b))
    BY DEF Replayed
  <2> QED BY <1>1, <1>3, <1>4, <2>1, <2>2, ReplayedTurns
<1>6. p - 1 \in 1..Len(tr) /\ tr[p - 1].type = Script /\ tr[p].idx = tr[p - 1].idx + 1
  BY <1>5 DEF Whole, Paired
<1>7. CASE p - 1 \notin Elements(WindowTo(b))
  <2>1. HistoryWindow \in Nat /\ HistoryWindow > 0 /\ b # 0
    BY <1>5, HistoryAssumption
  <2>2. 1 \in 1..Held(b) /\ p = b - Held(b) + 1
    BY <1>3, <1>5, <1>6, <1>7, <2>1 DEF Held
  <2>3. WindowTo(b)[1] = b - Held(b) + 1
    BY <2>2 DEF WindowTo
  <2> QED BY <1>1, <1>4, <2>2, <2>3
<1>8. CASE p - 1 \in Elements(WindowTo(b))
  <2> DEFINE at == LastCheckpoint(tr, WindowTo(b))
  <2>1. IsTurn(tr, p - 1)
    BY <1>6 DEF IsTurn, TurnTypes, Script
  <2>2. ASSUME at # Unsaved PROVE tr[p - 1].idx >= tr[at].retain
    <3>1. at \in 1..b /\ at \in 1..Len(tr) /\ tr[at].type = "summary"
      <4>1. WindowTo(b) \in Seq(Nat)
        BY <1>3, Windows
      <4>2. at \in Elements(WindowTo(b)) /\ tr[at].type = "summary"
        BY <2>2, <4>1, Checkpoints
      <4> QED BY <1>3, <1>5, <4>2
    <3>2. tr[p].idx >= tr[at].retain
      BY <1>4, <2>2 DEF Replayed
    <3> HIDE DEF at
    <3>3. IndicesIncrease(tr, at)
      BY <3>1 DEF IndicesIncrease
    <3>4. tr[at].retain <= tr[at].idx /\ NamesNoResult(tr, at)
      BY <3>1, <3>3 DEF Sound, RowSound, Marks, Whole
    <3>5. p - 1 # at /\ p # at
      BY <1>5, <1>6, <3>1 DEF Script, Result
    <3>6. CASE p > at
      <4>1. p - 1 \in 1..b /\ at < p - 1
        BY <1>3, <1>5, <1>6, <3>1, <3>5, <3>6
      <4>2. tr[at].idx < tr[p - 1].idx
        BY <3>1, <4>1 DEF IndicesIncrease
      <4> QED BY <1>5, <1>6, <3>1, <3>4, <4>2, SMTT(30)
    <3>7. CASE p < at
      <4>1. p \in 1..(at - 1)
        BY <1>5, <3>1, <3>7
      <4>2. tr[p].idx # tr[at].retain
        BY <1>5, <3>4, <4>1 DEF NamesNoResult
      <4> QED BY <1>5, <1>6, <3>1, <3>2, <4>2, SMTT(30)
    <3> QED BY <1>5, <3>1, <3>5, <3>6, <3>7
  <2>3. p - 1 \in Replayed(tr, WindowTo(b))
    BY <1>8, <2>1, <2>2 DEF Replayed
  <2>4. PICK j \in (h + 1)..Len(R) : R[j] = p - 1
    BY <1>3, <2>3
  <2>5. i \in (h + 1)..Len(R)
    BY <1>1, <1>2
  <2>6. j = i - 1
    <3>1. j < i
      BY <1>3, <1>4, <1>5, <2>4, <2>5
    <3>2. ~(j < i - 1)
      <4> SUFFICES ASSUME j < i - 1 PROVE FALSE
        OBVIOUS
      <4>1. i - 1 \in (h + 1)..Len(R) /\ i - 1 < i
        BY <2>4, <2>5
      <4>2. R[j] < R[i - 1] /\ R[i - 1] < R[i]
        BY <1>3, <2>4, <2>5, <4>1
      <4>3. R[i - 1] \in 1..b
        BY <1>3, <4>1, ReplayedTurns
      <4> QED BY <1>4, <1>5, <2>4, <4>2, <4>3
    <3> QED BY <2>4, <2>5, <3>1, <3>2
  <2> QED BY <1>1, <1>2, <1>4, <1>6, <2>4, <2>6
<1> QED BY <1>7, <1>8

\* The split is never in front of a result.
LEMMA KeptStartsWhole ==
    ASSUME NEW tr, Sound(tr), Whole(tr), NEW b \in 0..Len(tr), IndicesIncrease(tr, b),
           WillCompact(tr, ReplayTo(tr, b)), CutAt(tr, b) < Len(ReplayTo(tr, b))
    PROVE  tr[ReplayTo(tr, b)[CutAt(tr, b) + 1]].type # Result
<1>1. PICK R \in Seq(Int) : R = ReplayTo(tr, b)
  BY ReplayedTurns, Replays
<1>2. PICK h \in {0, 1} : h = Heads(tr, b)
  BY DEF Heads
<1>3. PICK n \in 1..Len(R) : n = CutAt(tr, b) /\ Len(R) \in Nat /\ n < Len(R)
  BY <1>1, SplitBounds DEF CutAt
<1>4. /\ b \in Nat /\ {R[j] : j \in (h + 1)..Len(R)} = Replayed(tr, WindowTo(b))
      /\ \A j, l \in (h + 1)..Len(R) : j < l => R[j] < R[l]
  BY <1>1, <1>2, ReplayedTurns, Replays
<1>5. \/ ~IsResult(tr, R[n + 1])
      \/ n + 2 <= Len(R) /\ IsResult(tr, R[n + 2])
  BY <1>1, <1>3, SplitBounds, SMTT(30) DEF CutAt
<1>6. n + 1 \in (h + 1)..Len(R)
  BY <1>3
<1>7. R[n + 1] \in 1..b
  BY <1>4, <1>6, ReplayedTurns
<1>8. CASE ~IsResult(tr, R[n + 1])
  BY <1>1, <1>3, <1>7, <1>8 DEF IsResult, Unsaved, Result
<1>9. CASE n + 2 <= Len(R) /\ IsResult(tr, R[n + 2])
  <2>1. n + 2 \in (h + 1)..Len(R) /\ (n + 2) - 1 = n + 1 /\ n + 1 < n + 2
    BY <1>3, <1>9, SMTT(30)
  <2>2. tr[R[n + 2]].type = Result
    BY <1>9 DEF IsResult, Result
  <2>3. R[n + 2] # WindowTo(b)[1]
    <3>1. R[n + 1] < R[n + 2]
      BY <1>4, <1>6, <2>1
    <3>2. R[n + 1] \in Elements(WindowTo(b))
      BY <1>4, <1>6 DEF Replayed
    <3>3. PICK x \in DOMAIN WindowTo(b) : R[n + 1] = WindowTo(b)[x]
      BY <3>2 DEF Elements
    <3>4. DOMAIN WindowTo(b) = 1..Len(WindowTo(b)) /\ Len(WindowTo(b)) \in Nat
      BY <1>4, Windows
    <3>5. x = 1 \/ (1 \in 1..Len(WindowTo(b)) /\ 1 < x /\ x \in 1..Len(WindowTo(b)))
      BY <3>3, <3>4
    <3>6. x = 1 \/ WindowTo(b)[1] < WindowTo(b)[x]
      BY <1>4, <3>5, Windows DEF Increasing
    <3>7. WindowTo(b)[1] \in Int
      <4>1. 1 \in 1..Len(WindowTo(b))
        BY <3>3, <3>4, <3>5
      <4>2. WindowTo(b) \in Seq(Nat)
        BY <1>4, Windows
      <4> QED BY <4>1, <4>2
    <3> QED BY <1>7, <3>1, <3>3, <3>6, <3>7
  <2>4. tr[R[n + 1]].type = Script
    <3>1. PICK i \in (h + 1)..Len(R) : i = n + 2
      BY <2>1
    <3>2. /\ i \in (Heads(tr, b) + 1)..Len(ReplayTo(tr, b))
          /\ tr[ReplayTo(tr, b)[i]].type = Result /\ ReplayTo(tr, b)[i] # WindowTo(b)[1]
      BY <1>1, <1>2, <2>2, <2>3, <3>1
    <3>3. tr[ReplayTo(tr, b)[i - 1]].type = Script
      BY <3>2, ReplayKeepsPairs
    <3> QED BY <1>1, <2>1, <3>1, <3>3
  <2> QED BY <1>1, <1>3, <2>4 DEF Script, Result
<1> QED BY <1>5, <1>8, <1>9

\* Increasing indices are at least as large as the rows before them are many.
LEMMA IndicesReach ==
    ASSUME NEW tr, Sound(tr), NEW b \in 1..Len(tr), IndicesIncrease(tr, b)
    PROVE  tr[b].idx >= b - 1
<1> DEFINE P == {0} \cup {p \in 1..b : tr[p].idx >= p - 1}
<1>1. b \in Nat /\ Len(tr) \in Nat /\ \A p \in 1..b : tr[p].idx \in Nat
  <2>1. Len(tr) \in Nat /\ \A p \in 1..Len(tr) : tr[p].idx \in Nat
    BY ReplayedTurns DEF Sound
  <2> QED BY <2>1
<1>2. ASSUME NEW p \in 1..b, p - 1 \in P PROVE p \in P
  <2>1. CASE p = 1
    BY <1>1, <2>1
  <2>2. CASE p # 1
    <3>1. p - 1 \in 1..b /\ tr[p - 1].idx >= (p - 1) - 1
      BY <1>2, <2>2
    <3>2. tr[p - 1].idx < tr[p].idx
      BY <3>1 DEF IndicesIncrease
    <3> QED BY <1>1, <3>1, <3>2
  <2> QED BY <2>1, <2>2
<1> HIDE DEF P
<1>3. 0 \in P
  BY DEF P
<1>4. 0..b \subseteq P
  BY <1>1, <1>2, <1>3, IntervalInduction
<1> QED BY <1>1, <1>4 DEF P

\* Rows whose indices increase do so in every prefix.
LEMMA IncreaseShrinks ==
    ASSUME NEW tr, NEW n \in Nat, NEW b \in 0..n, IndicesIncrease(tr, n)
    PROVE  IndicesIncrease(tr, b)
<1>1. \A p \in 1..b : p \in 1..n
  OBVIOUS
<1> QED BY <1>1 DEF IndicesIncrease

\* A new checkpoint's marker names no result, given the user's row that its
\* writer has stored behind the window.
LEMMA MarkerNamesNoResult ==
    ASSUME NEW tr, Sound(tr), Whole(tr), NEW b \in 0..Len(tr), WillCompact(tr, ReplayTo(tr, b)),
           IndicesIncrease(tr, Len(tr)), NEW u \in 1..Len(tr), u > b,
           tr[u].type = "user", tr[u].idx = Held(b),
           NEW p \in 1..Len(tr), tr[p].type = Result
    PROVE  tr[p].idx # MarkerTo(tr, b)
<1>1. PICK R \in Seq(Int) : R = ReplayTo(tr, b)
  BY ReplayedTurns, Replays
<1>2. PICK h \in {0, 1} : h = Heads(tr, b)
  BY DEF Heads
<1>3. PICK n \in 1..Len(R) : n = CutAt(tr, b) /\ Len(R) \in Nat /\ Len(R) >= 2
  BY <1>1, SplitBounds DEF CutAt
<1>4. /\ b \in Nat /\ {R[j] : j \in (h + 1)..Len(R)} = Replayed(tr, WindowTo(b)) /\ Len(tr) \in Nat
      /\ \A j, l \in (h + 1)..Len(R) : j < l => R[j] < R[l]
  BY <1>1, <1>2, ReplayedTurns, Replays
<1>5. IndicesIncrease(tr, b)
  <2>1. b \in 0..Len(tr) /\ IndicesIncrease(tr, Len(tr)) /\ Len(tr) \in Nat
    BY <1>4
  <2> QED BY <2>1, IncreaseShrinks
<1>6. \A x \in 1..Len(tr) : tr[x].idx \in Nat /\ tr[x].retain \in Nat
  BY ReplayedTurns
<1>7. \A x, y \in 1..Len(tr) : tr[x].idx = tr[y].idx => x = y
  <2>1. \A x, y \in 1..Len(tr) : x < y \/ y < x \/ x = y
    OBVIOUS
  <2>2. \A x, y \in 1..Len(tr) : x < y => tr[x].idx < tr[y].idx
    BY DEF IndicesIncrease
  <2> QED BY <1>6, <2>1, <2>2, SMTT(30)
<1>8. CASE n < Len(R)
  <2>1. MarkerTo(tr, b) = tr[R[n + 1]].idx /\ R[n + 1] \in 1..Len(tr)
    <3>1. R[n + 1] \in Replayed(tr, WindowTo(b)) /\ MarkerTo(tr, b) = tr[R[n + 1]].idx
      <4>1. \/ n < Len(R) /\ MarkerTo(tr, b) = tr[R[n + 1]].idx /\ R[n + 1] \in Replayed(tr, WindowTo(b))
            \/ n = Len(R)
        BY <1>1, <1>3, MarkerRow
      <4>2. n # Len(R)
        BY <1>3, <1>8
      <4> QED BY <4>1, <4>2
    <3>2. R[n + 1] \in 1..b
      BY <3>1, ReplayedTurns
    <3> QED BY <1>4, <3>1, <3>2
  <2>2. tr[R[n + 1]].type # Result
    BY <1>1, <1>3, <1>5, <1>8, KeptStartsWhole
  <2> QED BY <1>7, <2>1, <2>2
<1>9. CASE n = Len(R)
  <2>1. PICK e \in Replayed(tr, WindowTo(b)) : e = R[n] /\ MarkerTo(tr, b) = tr[e].idx + 1
    <3>1. \/ n < Len(R)
          \/ R[n] \in Replayed(tr, WindowTo(b)) /\ MarkerTo(tr, b) = tr[R[n]].idx + 1
      BY <1>1, <1>3, MarkerRow
    <3> QED BY <1>3, <1>9, <3>1
  <2>2. e \in 1..b /\ e \in 1..Len(tr)
    BY <1>4, ReplayedTurns
  <2>0. SUFFICES ASSUME tr[p].idx = tr[e].idx + 1 PROVE FALSE
    BY <2>1
  <2>3. p - 1 \in 1..Len(tr) /\ tr[p].idx = tr[p - 1].idx + 1
    BY DEF Whole, Paired
  <2>4. p - 1 = e
    <3>1. tr[p - 1].idx = tr[e].idx
      <4>1. PICK x \in Nat, y \in Nat : x = tr[p - 1].idx /\ y = tr[e].idx
        BY <1>6, <2>2, <2>3
      <4>2. tr[p].idx = x + 1 /\ tr[p].idx = y + 1
        BY <2>3, <2>0, <4>1
      <4>3. x = y
        BY <4>2
      <4> QED BY <4>1, <4>3
    <3> QED BY <1>7, <2>2, <2>3, <3>1
  <2>5. CASE p <= b
    <3>1. p \in Elements(WindowTo(b)) /\ IsTurn(tr, p)
      <4>1. e \in Elements(WindowTo(b))
        BY DEF Replayed
      <4>2. b - HistoryWindow < p /\ p \in 1..b
        BY <1>4, <2>2, <2>4, <2>5, <4>1, Windows, HistoryAssumption
      <4> QED BY <1>4, <4>2, Windows DEF IsTurn, TurnTypes, Result
    <3>2. p \in Replayed(tr, WindowTo(b))
      <4> DEFINE at == LastCheckpoint(tr, WindowTo(b))
      <4>1. at # Unsaved => tr[e].idx >= tr[at].retain
        BY DEF Replayed
      <4>2. at # Unsaved => tr[at].retain \in Nat
        <5>1. WindowTo(b) \in Seq(Nat)
          BY <1>4, Windows
        <5>2. at # Unsaved => at \in 1..Len(tr)
          BY <1>4, <5>1, Checkpoints, ReplayedTurns
        <5> QED BY <1>6, <5>2
      <4>3. at # Unsaved => tr[p].idx >= tr[at].retain
        <5>1. PICK m \in Nat : m = tr[e].idx /\ tr[p].idx = m + 1
          BY <1>6, <2>0, <2>2
        <5> HIDE DEF at
        <5>2. ASSUME at # Unsaved PROVE tr[p].idx >= tr[at].retain
          <6>1. PICK k \in Nat : k = tr[at].retain /\ m >= k
            BY <4>1, <4>2, <5>1, <5>2
          <6>2. m + 1 >= k
            BY <6>1
          <6> QED BY <5>1, <6>1, <6>2
        <5> QED BY <5>2
      <4> HIDE DEF at
      <4> QED BY <3>1, <4>3 DEF Replayed, at
    <3>3. PICK j \in (h + 1)..Len(R) : R[j] = p
      BY <1>4, <3>2
    <3>4. n \in (h + 1)..Len(R) /\ (j = n \/ j < n)
      BY <1>3, <1>9, <3>3
    <3> QED BY <1>4, <2>1, <2>2, <2>4, <3>3, <3>4
  <2>6. CASE p > b
    <3>1. e = b /\ b \in 1..Len(tr) /\ p = b + 1
      BY <1>4, <2>2, <2>4, <2>6
    <3>2. tr[b].idx >= b - 1
      BY <1>5, <3>1, IndicesReach
    <3>3. Held(b) <= b /\ Held(b) \in Nat
      BY <1>4, HistoryAssumption DEF Held
    <3>4. u = p \/ p < u
      BY <1>4, <3>1
    <3>5. u # p
      BY DEF Result
    <3>6. tr[p].idx < tr[u].idx
      BY <3>4, <3>5 DEF IndicesIncrease
    <3>7. tr[b].idx \in Nat /\ tr[p].idx = tr[b].idx + 1
      BY <1>6, <2>0, <3>1
    <3> QED BY <1>4, <3>2, <3>3, <3>6, <3>7
  <2> QED BY <1>4, <2>5, <2>6
<1> QED BY <1>3, <1>8, <1>9

\* What a new row must satisfy for the trace to stay whole.
LEMMA WholeAppend ==
    ASSUME NEW tr, Sound(tr), Whole(tr), NEW row \in Row,
           row.type = Result => /\ Len(tr) \in 1..Len(tr) /\ tr[Len(tr)].type = Script
                                /\ row.idx = tr[Len(tr)].idx + 1,
           row.type = "summary" /\ IndicesIncrease(tr, Len(tr)) =>
              \A p \in 1..Len(tr) : tr[p].type = Result => tr[p].idx # row.retain
    PROVE  Whole(Append(tr, row))
<1>1. PICK longer \in Seq(Row) : longer = Append(tr, row)
  BY AppendFacts DEF Sound
<1>2. PICK n \in Nat : n = Len(tr) /\ Len(longer) = n + 1 /\ longer[n + 1] = row /\ Agree(tr, longer, n)
  BY <1>1, AppendFacts DEF Sound, Agree
<1>3. \A p \in 1..Len(longer) : p \in 1..n \/ p = n + 1
  BY <1>2
<1>4. \A p \in 1..n : longer[p] = tr[p] /\ p \in 1..Len(longer)
  BY <1>2 DEF Agree
<1>5. ASSUME NEW p \in 1..Len(longer), longer[p].type = Result
      PROVE  /\ p - 1 \in 1..Len(longer) /\ longer[p - 1].type = Script
             /\ longer[p].idx = longer[p - 1].idx + 1
  <2>1. CASE p \in 1..n
    <3>1. /\ p - 1 \in 1..n /\ tr[p - 1].type = Script
          /\ tr[p].idx = tr[p - 1].idx + 1
      BY <1>2, <1>4, <1>5, <2>1 DEF Whole, Paired
    <3> QED BY <1>4, <2>1, <3>1
  <2>2. CASE p = n + 1
    <3>1. p - 1 = n /\ n \in 1..n /\ tr[n].type = Script /\ row.idx = tr[n].idx + 1
      BY <1>2, <1>5, <2>2
    <3> QED BY <1>2, <1>4, <2>2, <3>1
  <2> QED BY <1>3, <2>1, <2>2
<1>6. ASSUME NEW q \in 1..Len(longer), longer[q].type = "summary", IndicesIncrease(longer, q)
      PROVE  NamesNoResult(longer, q)
  <2>1. \A p \in 1..(q - 1) : p \in 1..n /\ longer[p] = tr[p]
    BY <1>2, <1>4
  <2>2. CASE q \in 1..n
    <3>1. IndicesIncrease(tr, q)
      BY <1>2, <1>6, <2>2, AgreeSound
    <3>2. NamesNoResult(tr, q)
      BY <1>2, <1>4, <1>6, <2>2, <3>1 DEF Whole
    <3> QED BY <1>4, <2>1, <2>2, <3>2 DEF NamesNoResult
  <2>3. CASE q = n + 1
    <3>1. \A p \in 1..n : p \in 1..q /\ longer[p] = tr[p]
      BY <1>4, <2>3
    <3>2. IndicesIncrease(tr, n)
      BY <1>6, <3>1 DEF IndicesIncrease
    <3>3. row.type = "summary"
      BY <1>2, <1>6, <2>3
    <3>4. \A p \in 1..n : tr[p].type = Result => tr[p].idx # row.retain
      BY <1>2, <3>2, <3>3
    <3> QED BY <1>2, <2>1, <2>3, <3>4 DEF NamesNoResult
  <2> QED BY <1>3, <2>2, <2>3
<1> QED BY <1>1, <1>5, <1>6 DEF Whole, Paired

\* The script r is about to execute is its last row.
ScriptRow(r) ==
    \E p \in 1..Len(trace) :
        /\ trace[p].by = r /\ trace[p].type = Script /\ stepIdx[r] = trace[p].idx + 1
        /\ \A q \in 1..Len(trace) : q > p => trace[q].by # r

\* r has stored its user's row behind the window it loaded.
UserRow(r) ==
    \E p \in 1..Len(trace) :
        trace[p].by = r /\ trace[p].type = "user" /\ p > LastLoaded(r) /\ trace[p].idx = Len(steps[r])

Prepared == {"build", "compact", "checkpoint"}

RunOK(r) ==
    /\ pc[r] \in {"new", "user"} => stepIdx[r] = Len(steps[r])
    /\ "step" \notin lost[r] => /\ pc[r] = "exec" => ScriptRow(r)
                                /\ pc[r] \in Prepared => UserRow(r)

ScriptInv ==
    /\ ReplayInv
    /\ \A r \in Runs : RunOK(r)
    /\ CleanTrace => Whole(trace)

\* Step that only adds rows of r.
Adds(r) ==
    /\ Len(trace) \in Nat /\ Len(trace') \in Nat /\ Len(trace) <= Len(trace')
    /\ Agree(trace, trace', Len(trace))
    /\ \A p \in 1..Len(trace') : p \in 1..Len(trace) \/ trace'[p].by = r
    /\ \A q \in Runs : lost[q] \subseteq lost'[q]

LEMMA CleanBefore ==
    ASSUME Sound(trace), Sound(trace'), NEW r \in Runs, Adds(r), CleanTrace'
    PROVE  CleanTrace
<1>1. DOMAIN trace = 1..Len(trace) /\ DOMAIN trace' = 1..Len(trace')
  BY DEF Sound
<1>2. \A p \in DOMAIN trace : p \in DOMAIN trace' /\ trace'[p] = trace[p]
  BY <1>1 DEF Adds, Agree
<1> QED BY <1>2 DEF CleanTrace, Adds

LEMMA OthersOK ==
    ASSUME NEW r \in Runs, Adds(r), NEW q \in Runs, q # r, RunOK(q),
           pc'[q] = pc[q], steps'[q] = steps[q], stepIdx'[q] = stepIdx[q]
    PROVE  RunOK(q)'
<1>1. lost[q] \subseteq lost'[q]
  BY DEF Adds
<1>2. \A p \in 1..Len(trace) : p \in 1..Len(trace') /\ trace'[p] = trace[p]
  BY DEF Adds, Agree
<1>3. \A p \in 1..Len(trace') : p \in 1..Len(trace) \/ trace'[p].by # q
  BY DEF Adds
<1>4. ScriptRow(q) => ScriptRow(q)'
  BY <1>2, <1>3 DEF ScriptRow
<1>5. LastLoaded(q)' = LastLoaded(q)
  BY DEF LastLoaded
<1>6. UserRow(q) => UserRow(q)'
  BY <1>2, <1>5 DEF UserRow
<1>7. pc'[q] \in {"new", "user"} => stepIdx'[q] = Len(steps'[q])
  BY DEF RunOK
<1>8. ASSUME "step" \notin lost'[q]
      PROVE  (pc'[q] = "exec" => ScriptRow(q)') /\ (pc'[q] \in Prepared => UserRow(q)')
  <2>1. "step" \notin lost[q]
    BY <1>1, <1>8
  <2>2. (pc[q] = "exec" => ScriptRow(q)) /\ (pc[q] \in Prepared => UserRow(q))
    BY <2>1 DEF RunOK
  <2> QED BY <1>4, <1>6, <2>2
<1> QED BY <1>7, <1>8 DEF RunOK, Prepared

\* Steps that write no row.
LEMMA QuietScripts ==
    ASSUME ScriptInv, NEW r \in Runs,
           \/ LoadSession(r) \/ BuildSandbox(r) \/ Compact(r) \/ NextIteration(r) \/ LLMFails(r)
           \/ LLMBlank(r) \/ LLMResponds(r) \/ PersistData(r) \/ Finalize(r) \/ Crash(r)
    PROVE  (\A q \in Runs : RunOK(q)') /\ (CleanTrace' => Whole(trace'))
<1>1. ControlOK /\ Shapes /\ Sound(trace) /\ RunOK(r)
  BY DEF ScriptInv, ReplayInv
<1>2. UNCHANGED trace /\ Departs(r)
  <2>1. UNCHANGED trace
    BY DEF LoadSession, BuildSandbox, Compact, NextIteration, LLMFails, LLMBlank, LLMResponds,
           PersistData, Finalize, Crash
  <2> QED BY <1>1, <2>1, EveryMove DEF Step
<1>3. \A q \in Runs : lost[q] \subseteq lost'[q]
  <2>1. CASE LoadSession(r) \/ PersistData(r) \/ Finalize(r) \/ Crash(r)
    BY <1>1, <2>1, StoringControl
  <2>2. CASE \/ BuildSandbox(r) \/ Compact(r) \/ NextIteration(r) \/ LLMFails(r)
             \/ LLMBlank(r) \/ LLMResponds(r)
    BY <2>2 DEF BuildSandbox, Compact, NextIteration, LLMFails, LLMBlank, LLMResponds, faultVars
  <2> QED BY <2>1, <2>2
<1>4. Adds(r)
  <2>1. Len(trace) \in Nat
    BY <1>1 DEF Sound
  <2> QED BY <1>2, <1>3, <2>1 DEF Adds, Agree
<1>5. CleanTrace' => Whole(trace')
  <2>1. CleanTrace' => CleanTrace
    BY <1>2, <1>3 DEF CleanTrace
  <2>2. Whole(trace) => Whole(trace')
    BY <1>2
  <2> QED BY <2>1, <2>2 DEF ScriptInv
<1>6. CASE LoadSession(r)
  <2>1. \/ UNCHANGED <<steps, stepIdx>> /\ stepIdx[r] = Len(steps[r])
        \/ steps' = [steps EXCEPT ![r] = LastN(trace)] /\ stepIdx' = [stepIdx EXCEPT ![r] = Len(LastN(trace))]
    BY <1>1, <1>6 DEF LoadSession, RunOK
  <2>2. /\ stepIdx'[r] = Len(steps'[r])
        /\ \A q \in Runs : q # r => steps'[q] = steps[q] /\ stepIdx'[q] = stepIdx[q]
    BY <1>1, <2>1 DEF Shapes
  <2>3. pc'[r] \in {"failed", "user"}
    BY <1>1, <1>6, LabelNames, Goes DEF LoadSession
  <2>4. RunOK(r)'
    BY <2>2, <2>3 DEF RunOK, Prepared
  <2>5. \A q \in Runs : q # r => RunOK(q)'
    BY <1>2, <1>4, <2>2, OthersOK DEF ScriptInv, Departs
  <2> QED BY <1>5, <2>4, <2>5
<1>7. CASE \/ BuildSandbox(r) \/ Compact(r) \/ NextIteration(r) \/ LLMFails(r)
           \/ LLMBlank(r) \/ LLMResponds(r) \/ PersistData(r) \/ Finalize(r) \/ Crash(r)
  <2>1. UNCHANGED <<steps, stepIdx>>
    BY <1>7 DEF BuildSandbox, Compact, NextIteration, LLMFails, LLMBlank, LLMResponds, PersistData,
                Finalize, Crash, Leave, runVars
  <2>2. \/ pc'[r] \in {"finalize", "turn", "llm", "error", "respond", "returned", "crashed"}
        \/ pc[r] \in Prepared /\ pc'[r] \in {"compact", "checkpoint"}
    BY <1>1, <1>7, LabelNames, Goes
       DEF BuildSandbox, Compact, NextIteration, LLMFails, LLMBlank, LLMResponds, PersistData, AfterScript,
           Finalize, Crash, Prepared
  <2>3. RunOK(r)'
    <3>1. UserRow(r) => UserRow(r)'
      BY <1>2, <2>1 DEF UserRow, LastLoaded
    <3> QED BY <1>1, <1>3, <2>2, <3>1 DEF RunOK, Prepared
  <2>4. \A q \in Runs : q # r => RunOK(q)'
    BY <1>2, <1>4, <2>1, OthersOK DEF ScriptInv, Departs
  <2> QED BY <1>5, <2>3, <2>4
<1> QED BY <1>6, <1>7

\* Steps that write one.
LEMMA WritingScripts ==
    ASSUME ScriptInv, ReplayInv', NEW r \in Runs,
           \/ WriteUser(r) \/ WriteCheckpoint(r) \/ LLMWritesScript(r)
           \/ ExecuteTurn(r) \/ WriteResponse(r) \/ WriteError(r)
    PROVE  (\A q \in Runs : RunOK(q)') /\ (CleanTrace' => Whole(trace'))
<1>1. ControlOK /\ Shapes /\ Sound(trace) /\ RunOK(r) /\ Sound(trace')
  BY DEF ScriptInv, ReplayInv
<1>2. UNCHANGED steps /\ Departs(r) /\ \A q \in Runs : lost[q] \subseteq lost'[q]
  <2>1. UNCHANGED steps
    BY DEF WriteUser, WriteCheckpoint, LLMWritesScript, ExecuteTurn, WriteResponse, WriteError
  <2> QED BY <1>1, <2>1, EveryMove, WritingControl DEF Step
<1>3. PICK row : /\ WriteRow(r, row) /\ row.by = r /\ row.idx = stepIdx[r]
                 /\ \/ pc[r] = "user" /\ row.type = "user" /\ Goto(r, "build")
                    \/ pc[r] = "llm" /\ row.type = Script /\ Goto(r, "exec")
                    \/ pc[r] = "exec" /\ row.type = Result /\ \E l \in {"persist", "respond", "turn"} : Goto(r, l)
                    \/ pc[r] \in {"respond", "error"} /\ row.type \in {"response", "error"} /\ Goto(r, "finalize")
                    \/ pc[r] = "checkpoint" /\ row.type = "summary" /\ Goto(r, "turn")
                       /\ row.retain = RetainFromStep(trace, hist[r], SafeSplit(trace, hist[r]))
  BY DEF WriteUser, WriteCheckpoint, LLMWritesScript, ExecuteTurn, AfterScript, WriteResponse, WriteError,
         WriteStep, Script, Result
<1>4. stepIdx'[r] = stepIdx[r] + 1 /\ \A q \in Runs : q # r => stepIdx'[q] = stepIdx[q]
  BY <1>1, <1>3 DEF WriteRow, Shapes
<1>5. CASE UNCHANGED trace /\ Fails(r, {"step"})
  <2>1. "step" \in lost'[r]
    BY <1>1, <1>5 DEF Fails, ControlOK
  <2>2. ~CleanTrace'
    BY <2>1 DEF CleanTrace
  <2>3. Adds(r)
    <3>1. Len(trace) \in Nat
      BY <1>1 DEF Sound
    <3> QED BY <1>2, <1>5, <3>1 DEF Adds, Agree
  <2>4. pc'[r] \notin {"new", "user"}
    BY <1>1, <1>3, LabelNames, Goes
  <2>5. RunOK(r)'
    BY <2>1, <2>4 DEF RunOK
  <2>6. \A q \in Runs : q # r => RunOK(q)'
    BY <1>2, <1>4, <2>3, OthersOK DEF ScriptInv, Departs
  <2> QED BY <2>2, <2>5, <2>6
<1>6. CASE trace' = Append(trace, row)
  <2>1. PICK n \in Nat : n = Len(trace)
    BY <1>1 DEF Sound
  <2>2. PICK S : trace \in Seq(S) /\ row \in S
    <3>1. trace \in Seq(Row \cup {row})
      BY <1>1 DEF Sound
    <3> QED BY <3>1
  <2>3. Len(trace') = n + 1 /\ trace'[n + 1] = row /\ Agree(trace, trace', n)
    BY <1>6, <2>1, <2>2, AppendFacts DEF Agree
  <2>4. n + 1 \in 1..Len(trace') /\ \A p \in 1..Len(trace') : p \in 1..n \/ p = n + 1
    BY <2>3
  <2>5. row \in Row
    <3>1. trace'[n + 1] \in Row
      BY <1>1, <2>4 DEF Sound
    <3> QED BY <2>3, <3>1
  <2>6. Adds(r)
    BY <1>2, <1>3, <2>1, <2>3, <2>4 DEF Adds
  <2>7. RunOK(r)'
    <3>1. CASE pc[r] = "user" /\ row.type = "user" /\ Goto(r, "build")
      <4>1. pc'[r] = "build"
        BY <1>1, <3>1, LabelNames, Goes
      <4>2. PICK b \in 0..n : Follows(r, b)
        BY <2>1 DEF ScriptInv, ReplayInv
      <4>3. LastLoaded(r) = b
        BY <4>2, FollowedWindow
      <4>4. LastLoaded(r)' = b /\ row.idx = Len(steps'[r])
        BY <1>1, <1>2, <1>3, <3>1, <4>3 DEF LastLoaded, RunOK
      <4>5. n + 1 > b
        BY <4>2
      <4>6. UserRow(r)'
        BY <1>3, <2>3, <2>4, <3>1, <4>4, <4>5 DEF UserRow
      <4> QED BY <4>1, <4>6 DEF RunOK
    <3>2. CASE pc[r] = "llm" /\ row.type = Script /\ Goto(r, "exec")
      <4>1. pc'[r] = "exec"
        BY <1>1, <3>2, LabelNames, Goes
      <4>2. \A q \in 1..Len(trace') : ~(q > n + 1)
        BY <2>4
      <4>3. ScriptRow(r)'
        BY <1>3, <1>4, <2>3, <2>4, <3>2, <4>2 DEF ScriptRow
      <4> QED BY <4>1, <4>3 DEF RunOK, Prepared
    <3>3. CASE \E l \in {"persist", "respond", "turn", "finalize"} : Goto(r, l)
      <4>1. pc'[r] \in {"persist", "respond", "turn", "finalize"}
        BY <1>1, <3>3, LabelNames, Goes
      <4> QED BY <4>1 DEF RunOK, Prepared
    <3> QED BY <1>3, <3>1, <3>2, <3>3
  <2>8. \A q \in Runs : q # r => RunOK(q)'
    BY <1>2, <1>4, <2>6, OthersOK DEF ScriptInv, Departs
  <2>9. ASSUME CleanTrace' PROVE Whole(trace')
    <3>1. CleanTrace /\ Whole(trace) /\ "step" \notin lost[r]
      <4>1. CleanTrace
        BY <1>1, <2>6, <2>9, CleanBefore
      <4> QED BY <4>1 DEF ScriptInv, CleanTrace
    <3>2. ASSUME row.type = Result
          PROVE  n \in 1..n /\ trace[n].type = Script /\ row.idx = trace[n].idx + 1
      <4>1. pc[r] = "exec"
        BY <1>3, <3>2 DEF Result, Script
      <4>2. PICK p \in 1..n :
              /\ trace[p].by = r /\ trace[p].type = Script /\ stepIdx[r] = trace[p].idx + 1
              /\ \A q \in 1..n : q > p => trace[q].by # r
        <5>1. RunOK(r) /\ Len(trace) = n
          BY <1>1, <2>1 DEF ScriptInv
        <5>2. pc[r] = "exec" => ScriptRow(r)
          BY <3>1, <5>1 DEF RunOK
        <5>3. ScriptRow(r)
          BY <4>1, <5>2
        <5> QED BY <5>1, <5>3 DEF ScriptRow
      <4>3. p = n
        <5> SUFFICES ASSUME p # n PROVE FALSE
          OBVIOUS
        <5>1. p \in DOMAIN trace' /\ p + 1 \in DOMAIN trace' /\ n + 1 \in DOMAIN trace'
              /\ p < p + 1 /\ p + 1 < n + 1 /\ p + 1 \in 1..n
          <6>1. DOMAIN trace' = 1..(n + 1)
            BY <1>1, <2>3 DEF Sound
          <6> QED BY <6>1
        <5>2. trace'[p].by = r /\ trace'[n + 1].by = r /\ trace'[p + 1].by # r
          BY <1>3, <2>3, <4>2, <5>1 DEF Agree
        <5> QED BY <2>9, <5>1, <5>2 DEF CleanTrace
      <4> QED BY <1>3, <4>2, <4>3
    <3>3. ASSUME row.type = "summary", IndicesIncrease(trace, n),
                 NEW p \in 1..n, trace[p].type = Result
          PROVE  trace[p].idx # row.retain
      <4>1. pc[r] = "checkpoint" /\ row.retain = RetainFromStep(trace, hist[r], SafeSplit(trace, hist[r]))
        BY <1>3, <3>3 DEF Result, Script
      <4>2. PICK b \in 0..n : Follows(r, b)
        BY <2>1 DEF ScriptInv, ReplayInv
      <4>3. hist[r] = ReplayTo(trace, b) /\ WillCompact(trace, ReplayTo(trace, b))
        BY <4>1, <4>2 DEF Follows, Compacting
      <4>4. row.retain = MarkerTo(trace, b)
        BY <4>1, <4>3 DEF MarkerTo, CutAt
      <4>5. UserRow(r) /\ LastLoaded(r) = b /\ Len(steps[r]) = Held(b)
        <5>1. UserRow(r)
          <6>1. RunOK(r)
            BY DEF ScriptInv
          <6> QED BY <3>1, <4>1, <6>1 DEF RunOK, Prepared
        <5>2. b \in Nat
          BY <2>1, <4>2
        <5>3. LastLoaded(r) = b
          BY <4>2, <5>2, FollowedWindow
        <5>4. steps[r] = WindowTo(b) /\ Len(WindowTo(b)) = Held(b)
          BY <4>2, <5>2, Windows DEF Follows
        <5> QED BY <5>1, <5>3, <5>4
      <4>6. PICK u \in 1..n : u > b /\ trace[u].type = "user" /\ trace[u].idx = Held(b)
        BY <2>1, <4>5 DEF UserRow
      <4> QED BY <1>1, <2>1, <3>1, <3>3, <4>2, <4>3, <4>4, <4>6, MarkerNamesNoResult
    <3> QED BY <1>1, <1>6, <2>1, <2>5, <3>1, <3>2, <3>3, WholeAppend
  <2> QED BY <2>7, <2>8, <2>9
<1> QED BY <1>3, <1>5, <1>6 DEF WriteRow

LEMMA ScriptInvariant == Spec => []ScriptInv
<1>1. Init => ScriptInv
  <2> SUFFICES ASSUME Init PROVE ScriptInv
    OBVIOUS
  <2>1. ReplayInv
    BY InitReplayInv
  <2>2. trace = <<>> /\ Len(trace) = 0
    BY DEF Init
  <2>3. Whole(trace)
    BY <2>2 DEF Whole, Paired
  <2>4. \A r \in Runs : RunOK(r)
    BY DEF Init, RunOK, Prepared
  <2> QED BY <2>1, <2>3, <2>4 DEF ScriptInv
<1>2. ScriptInv /\ ReplayInv' /\ [Next]_vars => ScriptInv'
  <2> SUFFICES ASSUME ScriptInv, ReplayInv', [Next]_vars PROVE ScriptInv'
    OBVIOUS
  <2>1. ASSUME NEW r \in Runs, LoadSession(r) \/ Step(r) \/ Crash(r) PROVE ScriptInv'
    <3>1. (\A q \in Runs : RunOK(q)') /\ (CleanTrace' => Whole(trace'))
      BY <2>1, QuietScripts, WritingScripts DEF Step
    <3>2. Whole(trace') => Whole(trace)'
      BY DEF Whole, Paired, NamesNoResult, IndicesIncrease
    <3> QED BY <3>1, <3>2 DEF ScriptInv
  <2>2. CASE UNCHANGED vars
    <3>1. UNCHANGED <<trace, pc, steps, stepIdx, lost>>
      BY <2>2 DEF vars, runVars, faultVars
    <3>2. \A r \in Runs : RunOK(r)'
      BY <3>1 DEF ScriptInv, RunOK, ScriptRow, UserRow, LastLoaded
    <3>3. CleanTrace' => Whole(trace)'
      BY <3>1 DEF ScriptInv, CleanTrace, Whole, Paired, NamesNoResult, IndicesIncrease
    <3> QED BY <3>2, <3>3 DEF ScriptInv
  <2> QED BY <2>1, <2>2 DEF Next
<1> QED BY ReplayInvariant, <1>1, <1>2, PTL DEF Spec

\* For any number of Runs, any window and any compactor: in a session whose Runs
\* did not interleave and whose writes were all stored, every execution result
\* that is sent follows its script, unless the window cut the script off
\* (compact.go, safeSplitPoint).
THEOREM ResultsStayWithScripts == Spec => []ResultsKeepScripts
<1>1. ASSUME ScriptInv PROVE ResultsKeepScripts
  <2> SUFFICES ASSUME CleanTrace, NEW r \in Runs, HasHistory(r), IndicesIncrease(trace, LastLoaded(r)),
                      NEW i \in DOMAIN hist[r], IsResult(trace, hist[r][i])
               PROVE  \/ hist[r][i] = steps[r][1]
                      \/ i > 1 /\ hist[r][i-1] = hist[r][i] - 1
                         /\ trace[hist[r][i-1]].type = "execute_js"
    BY DEF ResultsKeepScripts
  <2>1. Sound(trace) /\ Whole(trace)
    BY <1>1 DEF ScriptInv, ReplayInv
  <2>2. PICK b \in 0..Len(trace) : Follows(r, b)
    BY <1>1 DEF ScriptInv, ReplayInv
  <2>3. b \in Nat /\ IndicesIncrease(trace, b) /\ steps[r] = WindowTo(b)
    BY <2>1, <2>2, ReplayedTurns, FollowedWindow DEF Follows
  <2>4. PICK R \in Seq(Int) : R = ReplayTo(trace, b) /\ Len(R) \in Nat
    BY <2>1, ReplayedTurns, Replays
  <2>5. PICK h \in {0, 1} : h = Heads(trace, b)
    BY DEF Heads
  <2>6. ASSUME NEW j \in (h + 1)..Len(R), trace[R[j]].type = Result
        PROVE  \/ R[j] = steps[r][1]
               \/ j - 1 \in (h + 1)..Len(R) /\ R[j - 1] = R[j] - 1 /\ trace[R[j - 1]].type = Script
    BY <2>1, <2>3, <2>4, <2>5, <2>6, ReplayKeepsPairs, SMTT(30)
  <2>7. CASE hist[r] = R
    <3>1. i \in 1..Len(R) /\ trace[R[i]].type = Result
      BY <2>4, <2>7 DEF IsResult, Result
    <3>2. i \in (h + 1)..Len(R)
      <4>1. CASE h = 1 /\ i = 1
        <5>1. R[1] = LastCheckpoint(trace, WindowTo(b)) /\ R[1] # Unsaved
          BY <2>3, <2>4, <2>5, <4>1, Replays DEF Heads
        <5>2. WindowTo(b) \in Seq(Nat)
          BY <2>3, Windows
        <5>3. trace[R[1]].type = "summary"
          BY <5>1, <5>2, Checkpoints
        <5> QED BY <3>1, <4>1, <5>3 DEF Result
      <4> QED BY <3>1, <4>1
    <3>3. \/ R[i] = steps[r][1]
          \/ i - 1 \in (h + 1)..Len(R) /\ R[i - 1] = R[i] - 1 /\ trace[R[i - 1]].type = Script
      BY <2>6, <3>1, <3>2
    <3>4. i - 1 \in (h + 1)..Len(R) => i > 1
      BY <2>4, <3>1
    <3> QED BY <2>7, <3>3, <3>4 DEF Script
  <2>8. CASE hist[r] # R
    <3>1. /\ WillCompact(trace, R) /\ hist[r] = <<Unsaved>> \o Retained(R, CutAt(trace, b))
      BY <2>2, <2>4, <2>8 DEF Follows, HasHistory
    <3>2. PICK n \in 1..Len(R) : n = CutAt(trace, b)
      BY <2>4, <3>1, SplitBounds DEF CutAt
    <3>3. PICK H : H = hist[r] /\ H = <<Unsaved>> \o Retained(R, n)
      BY <3>1, <3>2
    <3>4. /\ DOMAIN H = 1..(Len(R) - n + 1) /\ H[1] = Unsaved
          /\ \A x \in 2..(Len(R) - n + 1) : n + x - 1 \in (n + 1)..Len(R) /\ H[x] = R[n + x - 1]
      BY <2>4, <3>3, CompactedHistory, ZenonT(30)
    <3>5. i \in 2..(Len(R) - n + 1)
      BY <3>3, <3>4 DEF IsResult
    <3>6. PICK j \in (n + 1)..Len(R) : j = n + i - 1 /\ H[i] = R[j]
      BY <3>4, <3>5
    <3>7. j \in (h + 1)..Len(R) /\ trace[R[j]].type = Result
      <4>1. trace[R[j]].type = Result
        BY <3>3, <3>6 DEF IsResult, Result
      <4>2. n \in Nat /\ n >= 1 /\ j \in Int /\ j >= n + 1 /\ j <= Len(R)
        BY <2>4, <3>2, <3>6
      <4>3. h \in Int /\ h <= 1
        BY <2>5
      <4>4. j \in (h + 1)..Len(R)
        BY <2>4, <4>2, <4>3
      <4> QED BY <4>1, <4>4
    <3>8. i # 2
      <4> SUFFICES ASSUME i = 2 PROVE FALSE
        OBVIOUS
      <4>1. j = n + 1 /\ n < Len(R)
        BY <3>6
      <4>2. trace[R[n + 1]].type # Result
        BY <2>1, <2>3, <2>4, <3>1, <3>2, <4>1, KeptStartsWhole
      <4> QED BY <3>7, <4>1, <4>2
    <3>9. H[i - 1] = R[j - 1]
      <4>1. i - 1 \in 2..(Len(R) - n + 1) /\ n + (i - 1) - 1 = j - 1
        <5>1. n \in Int /\ i \in Int
          BY <2>4, <3>2, <3>5
        <5> QED BY <2>4, <3>5, <3>6, <3>8, <5>1
      <4>2. H[i - 1] = R[n + (i - 1) - 1]
        BY <3>4, <4>1
      <4> QED BY <4>1, <4>2
    <3>10. i > 1 /\ hist[r][i] = R[j] /\ hist[r][i - 1] = R[j - 1]
      <4>1. i \in Int /\ i > 1
        BY <2>4, <3>2, <3>5
      <4> QED BY <3>3, <3>6, <3>9, <4>1
    <3>11. CASE R[j] = steps[r][1]
      BY <3>10, <3>11
    <3>12. CASE R[j - 1] = R[j] - 1 /\ trace[R[j - 1]].type = Script
      BY <3>10, <3>12 DEF Script
    <3> QED BY <2>6, <3>7, <3>11, <3>12
  <2> QED BY <2>7, <2>8
<1> QED BY ScriptInvariant, <1>1, PTL
====
