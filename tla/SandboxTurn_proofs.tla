------------------------- MODULE SandboxTurn_proofs -------------------------
(* Theorems about the turns of a runtime, for any number of scripts, any     *)
(* tools, modules and policies, and timers as late as they may be.           *)
EXTENDS SandboxTurn, FiniteSetTheorems, TLAPS

(* Only a running script waits for a tool or loads modules. *)
StageInv ==
    /\ pc \notin {"inject", "run", "failed", "stop"} => ~armed
    /\ pc # "run" => calling = NoTool /\ loading = <<>>
    /\ armed => turn \in Turns

(* One report per turn, written when the turn leaves "run". *)
ReportInv ==
    /\ Len(results) = IF pc \in {"inject", "run"} THEN turn - 1 ELSE turn
    /\ pc # "idle" => turn > 0
    /\ answered \in {Nothing, turn}
    /\ \A i \in DOMAIN logs : logs[i] = turn

TypeInv == TypeOK /\ StageInv /\ ReportInv

LEMMA InitTypeInv == Init => TypeInv
<1> SUFFICES ASSUME Init PROVE TypeInv
    OBVIOUS
<1>1. TypeOK
    <2>1. logs \in Seq(Turns) /\ loading \in Seq(Known) /\ results \in Seq(Outcome)
        BY DEF Init
    <2>2. calling \in Tools \cup {NoTool} /\ policy \subseteq Modules \cup Tools
        BY DEF Init
    <2>3. turn \in 0..MaxTurns /\ {args, answered} \subseteq {Nothing} \cup Turns /\ carried \in {Null, Nothing} \cup Turns
        BY TurnAssumption DEF Init
    <2>4. {pending, armed} \subseteq BOOLEAN /\ fired \subseteq expired /\ expired \subseteq Turns
        BY DEF Init
    <2>5. cache \subseteq Known /\ ~armed /\ calling = NoTool /\ loading = <<>> /\ pc = "idle"
        BY DEF Init
    <2> QED BY <2>1, <2>2, <2>3, <2>4, <2>5 DEF TypeOK
<1>2. StageInv
    BY DEF Init, StageInv
<1>3. ReportInv
    BY DEF Init, ReportInv, Nothing
<1> QED BY <1>1, <1>2, <1>3 DEF TypeInv

(* A report has the type of an outcome. *)
LEMMA ReportType ==
    ASSUME TypeInv, pc = "run", NEW e \in {"none", "throw", "timeout", "panic"},
           NEW r \in {Null, Nothing} \cup Turns, NEW l \in Seq(Turns), Report(e, r, l)
    PROVE  /\ results' \in Seq(Outcome)
           /\ Len(results') = turn
           /\ \A t \in DOMAIN results : results'[t] = results[t]
           /\ results'[turn] = [err |-> e, ret |-> r, logs |-> l, args |-> args,
                                given |-> Given, answered |-> answered]
           /\ turn \in Turns /\ DOMAIN results' = DOMAIN results \cup {turn}
<1> DEFINE rec == [err |-> e, ret |-> r, logs |-> l, args |-> args,
                   given |-> Given, answered |-> answered]
<1>1. rec \in Outcome
    BY DEF TypeInv, TypeOK, Outcome, Given, Null, Nothing
<1>2. results \in Seq(Outcome) /\ results' = Append(results, rec)
    BY DEF TypeInv, TypeOK, Report
<1>3. turn \in Turns /\ Len(results) = turn - 1
    BY TurnAssumption DEF TypeInv, TypeOK, ReportInv, Turns
<1> HIDE DEF rec
<1>4. /\ results' \in Seq(Outcome) /\ Len(results') = turn
      /\ results'[turn] = rec /\ \A t \in DOMAIN results : results'[t] = results[t]
      /\ DOMAIN results' = DOMAIN results \cup {turn}
    BY <1>1, <1>2, <1>3 DEF Turns
<1> QED BY <1>3, <1>4 DEF rec

(* The steps of the timer and of the loop around the turns. *)
LEMMA LoopTypeStep ==
    ASSUME TypeInv,
           \/ TimerFires \/ \E t \in Turns : Interrupt(t)
           \/ NewRun \/ BeginTurn \/ InjectArgs
           \/ ClearAfterError \/ StopTimer \/ Recover
    PROVE  TypeInv'
<1> USE TurnAssumption, ToolAssumption
    DEF TypeInv, TypeOK, StageInv, ReportInv, Turns, Nothing, timerVars, moduleVars
<1>1. CASE TimerFires
    BY <1>1 DEF TimerFires
<1>2. ASSUME NEW t \in Turns, Interrupt(t) PROVE TypeInv'
    BY <1>2 DEF Interrupt
<1>3. CASE NewRun
    BY <1>3 DEF NewRun
<1>4. CASE BeginTurn
    BY <1>4 DEF BeginTurn
<1>5. CASE InjectArgs
    BY <1>5 DEF InjectArgs, Given, Null
<1>6. CASE ClearAfterError
    BY <1>6 DEF ClearAfterError
<1>7. CASE StopTimer
    BY <1>7 DEF StopTimer
<1>8. CASE Recover
    BY <1>8 DEF Recover
<1> QED BY <1>1, <1>2, <1>3, <1>4, <1>5, <1>6, <1>7, <1>8

(* The steps of a script that do not end it. *)
LEMMA ScriptTypeStep ==
    ASSUME TypeInv,
           \/ Log \/ Answer \/ ModuleLoads \/ ModuleThrows \/ ToolReturns
           \/ \E m \in Modules : Require(m)
           \/ \E t \in Tools : CallTool(t)
    PROVE  TypeInv'
<1> USE TurnAssumption, ToolAssumption
    DEF TypeInv, TypeOK, StageInv, ReportInv, Turns, Nothing, timerVars, moduleVars, Running
<1>1. CASE Log
    BY <1>1 DEF Log
<1>2. CASE Answer
    BY <1>2 DEF Answer
<1>3. CASE ModuleLoads
    BY <1>3 DEF ModuleLoads, Last, Front
<1>4. CASE ModuleThrows
    BY <1>4 DEF ModuleThrows, Front
<1>5. CASE ToolReturns
    BY <1>5 DEF ToolReturns
<1>6. ASSUME NEW m \in Modules, Require(m) PROVE TypeInv'
    BY <1>6 DEF Require
<1>7. ASSUME NEW t \in Tools, CallTool(t) PROVE TypeInv'
    BY <1>7 DEF CallTool
<1> QED BY <1>1, <1>2, <1>3, <1>4, <1>5, <1>6, <1>7

LEMMA EndTypeStep ==
    ASSUME TypeInv, Returns \/ Fails \/ PackPanics
    PROVE  TypeInv'
<1> USE DEF timerVars, moduleVars
<1>1. CASE Returns
    <2>1. pc = "run" /\ logs \in Seq(Turns)
        BY <1>1 DEF Returns, Running, TypeInv, TypeOK
    <2>2. PICK ret \in {turn, Nothing, Null} : Report("none", ret, logs) /\ carried' = ret
        BY <1>1 DEF Returns
    <2>3. turn \in Turns
        BY <2>1, TurnAssumption DEF TypeInv, TypeOK, ReportInv, Turns
    <2>4. results' \in Seq(Outcome) /\ Len(results') = turn
        BY <2>1, <2>2, <2>3, ReportType
    <2> QED BY <1>1, <2>2, <2>3, <2>4 DEF Returns, Running, TypeInv, TypeOK, StageInv, ReportInv
<1>2. CASE Fails
    <2>1. pc = "run" /\ logs \in Seq(Turns)
        BY <1>2 DEF Fails, TypeInv, TypeOK
    <2>2. results' \in Seq(Outcome) /\ Len(results') = turn
        BY <1>2, <2>1, ReportType DEF Fails
    <2>3. /\ pc' = "failed" /\ pending' = FALSE /\ loading' = <<>> /\ calling = NoTool
          /\ UNCHANGED <<turn, armed, fired, expired, carried, args, logs, answered, cache, calling, policy>>
        BY <1>2 DEF Fails
    <2>4. TypeOK'
        <3>1. <<>> \in Seq(Known)
            OBVIOUS
        <3>2. loading' \in Seq(Known)
            BY <2>3, <3>1
        <3>3. pending' \in BOOLEAN
            BY <2>3
        <3>4. armed' \in BOOLEAN
            BY <2>3 DEF TypeInv, TypeOK
        <3> QED BY <2>1, <2>2, <2>3, <3>2, <3>3, <3>4 DEF TypeInv, TypeOK
    <2>5. StageInv' /\ ReportInv'
        BY <2>1, <2>2, <2>3 DEF TypeInv, StageInv, ReportInv
    <2> QED BY <2>4, <2>5 DEF TypeInv
<1>3. CASE PackPanics
    <2>1. pc = "run" /\ <<>> \in Seq(Turns)
        BY <1>3 DEF PackPanics, TypeInv, StageInv
    <2>2. results' \in Seq(Outcome) /\ Len(results') = turn
        BY <1>3, <2>1, ReportType DEF PackPanics
    <2>3. loading' \in Seq(Known)
        BY <1>3 DEF PackPanics
    <2> QED BY <1>3, <2>1, <2>2, <2>3 DEF PackPanics, TypeInv, TypeOK, StageInv, ReportInv
<1> QED BY <1>1, <1>2, <1>3

LEMMA TypeStep == TypeInv /\ [Next]_vars => TypeInv'
<1> SUFFICES ASSUME TypeInv, [Next]_vars PROVE TypeInv'
    OBVIOUS
<1>1. CASE UNCHANGED vars
    BY <1>1 DEF vars, timerVars, moduleVars, TypeInv, TypeOK, StageInv, ReportInv
<1>2. CASE Next
    BY <1>2, LoopTypeStep, ScriptTypeStep, EndTypeStep DEF Next, Script
<1> QED BY <1>1, <1>2

THEOREM TurnInvariant == Spec => []TypeInv
BY InitTypeInv, TypeStep, PTL DEF Spec

-----------------------------------------------------------------------------
(* What a step adds to the reports: nothing, or the one of the turn at hand. *)
LEMMA ReportAdded ==
    ASSUME TypeInv, Returns \/ Fails \/ PackPanics
    PROVE  /\ DOMAIN results' = DOMAIN results \cup {turn} /\ turn \notin DOMAIN results
           /\ \A t \in DOMAIN results : results'[t] = results[t]
           /\ results'[turn].answered = answered
           /\ results'[turn].args = args /\ results'[turn].given = Given
           /\ results'[turn].logs \in {logs, <<>>}
           /\ results'[turn].err = IF Returns THEN "none" ELSE
                                   IF PackPanics THEN "panic" ELSE
                                   IF pending THEN "timeout" ELSE "throw"
<1>1. pc = "run" /\ logs \in Seq(Turns) /\ <<>> \in Seq(Turns) /\ results \in Seq(Outcome)
    BY DEF Returns, Fails, PackPanics, Running, TypeInv, TypeOK, StageInv
<1>2. turn \in Turns /\ turn \notin DOMAIN results
    BY <1>1, TurnAssumption DEF TypeInv, TypeOK, ReportInv, Turns
<1>3. CASE Returns
    <2>1. PICK ret \in {turn, Nothing, Null} : Report("none", ret, logs)
        BY <1>3 DEF Returns
    <2>2. /\ DOMAIN results' = DOMAIN results \cup {turn}
          /\ \A t \in DOMAIN results : results'[t] = results[t]
          /\ results'[turn] = [err |-> "none", ret |-> ret,
                               logs |-> logs, args |-> args, given |-> Given, answered |-> answered]
        BY <1>1, <1>2, <2>1, ReportType
    <2> QED BY <1>2, <1>3, <2>1, <2>2
<1>4. CASE PackPanics
    <2>1. Report("panic", Null, <<>>) /\ ~Returns
        BY <1>4 DEF PackPanics, Returns, Running
    <2>2. /\ DOMAIN results' = DOMAIN results \cup {turn}
          /\ \A t \in DOMAIN results : results'[t] = results[t]
          /\ results'[turn] = [err |-> "panic", ret |-> Null,
                               logs |-> <<>>, args |-> args, given |-> Given, answered |-> answered]
        BY <1>1, <1>2, <2>1, ReportType
    <2> QED BY <1>2, <1>4, <2>1, <2>2
<1>5. CASE Fails /\ ~Returns /\ ~PackPanics
    <2>1. Report(IF pending THEN "timeout" ELSE "throw", Null, logs)
        BY <1>5 DEF Fails
    <2>2. /\ DOMAIN results' = DOMAIN results \cup {turn}
          /\ \A t \in DOMAIN results : results'[t] = results[t]
          /\ results'[turn] = [err |-> IF pending THEN "timeout" ELSE "throw", ret |-> Null,
                               logs |-> logs, args |-> args, given |-> Given, answered |-> answered]
        BY <1>1, <1>2, <2>1, ReportType
    <2> QED BY <1>2, <1>5, <2>1, <2>2
<1> QED BY <1>3, <1>4, <1>5

(* All other steps leave the reports alone. *)
LEMMA ReportsKept ==
    ASSUME [Next]_vars, ~(Returns \/ Fails \/ PackPanics)
    PROVE  results' = results
BY DEF Next, Script, vars, TimerFires, Interrupt, NewRun, BeginTurn, InjectArgs, Log, Answer,
       ModuleLoads, ModuleThrows, Require, CallTool, ToolReturns, ClearAfterError, StopTimer, Recover

LEMMA ReportIsOwnStep == TypeInv /\ ReportIsOwn /\ [Next]_vars => ReportIsOwn'
<1> SUFFICES ASSUME TypeInv, ReportIsOwn, [Next]_vars, NEW t \in DOMAIN results'
             PROVE  results'[t].answered \in {Nothing, t} /\ ToSet(results'[t].logs) \subseteq {t}
    BY DEF ReportIsOwn
<1>1. CASE ~(Returns \/ Fails \/ PackPanics)
    BY <1>1, ReportsKept DEF ReportIsOwn
<1>2. CASE Returns \/ Fails \/ PackPanics
    <2>1. CASE t \in DOMAIN results
        BY <1>2, <2>1, ReportAdded DEF ReportIsOwn
    <2>2. CASE t = turn
        <3>1. answered \in {Nothing, turn} /\ \A i \in DOMAIN logs : logs[i] = turn
            BY DEF TypeInv, ReportInv
        <3>2. ToSet(logs) \subseteq {turn} /\ ToSet(<<>>) \subseteq {turn}
            BY <3>1 DEF ToSet
        <3> QED BY <1>2, <2>2, <3>1, <3>2, ReportAdded
    <2> QED BY <1>2, <2>1, <2>2, ReportAdded
<1> QED BY <1>1, <1>2

(* No answer or log line of an earlier turn is reported for a later one. *)
THEOREM ReportsAreOwn == Spec => []ReportIsOwn
<1>1. Init => ReportIsOwn
    BY DEF Init, ReportIsOwn
<1> QED BY <1>1, TurnInvariant, ReportIsOwnStep, PTL DEF Spec

-----------------------------------------------------------------------------
(* Every expired timer is on its way, pending, or charged: to a script that
   failed, to one that was run without its args, or to the one being run. *)
TimedOut == {t \in DOMAIN results : results[t].err = "timeout"}

Deprived == {t \in DOMAIN results : results[t].args # results[t].given}

Uncharged == IF pending THEN 1 ELSE 0

Losing == IF pc = "run" /\ args # Given THEN 1 ELSE 0

Charged == Cardinality(TimedOut) + Cardinality(Deprived)

ChargeInv ==
    /\ armed => turn \notin expired
    /\ \A t \in expired : t <= turn
    /\ Charged + Cardinality(fired) + Uncharged + Losing <= Cardinality(expired)

LEMMA Sizes ==
    ASSUME TypeInv
    PROVE  /\ IsFiniteSet(fired) /\ Cardinality(fired) \in Nat
           /\ IsFiniteSet(expired) /\ Cardinality(expired) \in Nat
           /\ IsFiniteSet(TimedOut) /\ Cardinality(TimedOut) \in Nat
           /\ IsFiniteSet(Deprived) /\ Cardinality(Deprived) \in Nat
           /\ turn \in Nat
<1>1. IsFiniteSet(Turns)
    BY TurnAssumption, FS_Interval DEF Turns
<1>2. fired \subseteq Turns /\ expired \subseteq Turns
    BY DEF TypeInv, TypeOK
<1>3. IsFiniteSet(DOMAIN results)
    <2>1. DOMAIN results = 1..Len(results) /\ Len(results) \in Nat
        BY DEF TypeInv, TypeOK
    <2> QED BY <2>1, FS_Interval
<1>4. TimedOut \subseteq DOMAIN results /\ Deprived \subseteq DOMAIN results
    BY DEF TimedOut, Deprived
<1>5. IsFiniteSet(fired) /\ IsFiniteSet(expired) /\ IsFiniteSet(TimedOut) /\ IsFiniteSet(Deprived)
    BY <1>1, <1>2, <1>3, <1>4, FS_Subset
<1>6. turn \in Nat
    BY TurnAssumption DEF TypeInv, TypeOK
<1> QED BY <1>5, <1>6, FS_CardinalityType

(* What a report adds to the charges: its timeout, and its lost args. *)
LEMMA ChargeAdded ==
    ASSUME TypeInv, Returns \/ Fails \/ PackPanics
    PROVE  /\ Cardinality(TimedOut') = Cardinality(TimedOut) + (IF results'[turn].err = "timeout" THEN 1 ELSE 0)
           /\ Cardinality(Deprived') = Cardinality(Deprived) + (IF args # Given THEN 1 ELSE 0)
<1> USE Sizes
<1>1. /\ DOMAIN results' = DOMAIN results \cup {turn} /\ turn \notin DOMAIN results
      /\ \A t \in DOMAIN results : results'[t] = results[t]
      /\ results'[turn].args = args /\ results'[turn].given = Given
    BY ReportAdded
<1>2. turn \notin TimedOut /\ turn \notin Deprived
    BY <1>1 DEF TimedOut, Deprived
<1>3. TimedOut' = IF results'[turn].err = "timeout" THEN TimedOut \cup {turn} ELSE TimedOut
    BY <1>1 DEF TimedOut
<1>4. Deprived' = IF args # Given THEN Deprived \cup {turn} ELSE Deprived
    BY <1>1 DEF Deprived
<1>5. /\ Cardinality(TimedOut \cup {turn}) = Cardinality(TimedOut) + 1
      /\ Cardinality(Deprived \cup {turn}) = Cardinality(Deprived) + 1
    BY <1>2, FS_AddElement
<1> QED BY <1>3, <1>4, <1>5

LEMMA ChargeStep == TypeInv /\ ChargeInv /\ [Next]_vars => ChargeInv'
<1> SUFFICES ASSUME TypeInv, ChargeInv, [Next]_vars PROVE ChargeInv'
    OBVIOUS
<1> USE Sizes
<1>1. results' = results => Charged' = Charged
    BY DEF TimedOut, Deprived, Charged
<1>0. {Uncharged, Losing} \subseteq {0, 1} /\ Charged \in Nat
    BY DEF Uncharged, Losing, Charged
<1>2. CASE TimerFires
    <2>1. Cardinality(fired') = Cardinality(fired) + 1 /\ Cardinality(expired') = Cardinality(expired) + 1
        <3>1. turn \notin expired /\ turn \notin fired
            BY <1>2 DEF TimerFires, ChargeInv, TypeInv, TypeOK
        <3> QED BY <1>2, <3>1, FS_AddElement DEF TimerFires
    <2>2. Charged' = Charged /\ Uncharged' = Uncharged /\ Losing' = Losing
        BY <1>1, <1>2 DEF TimerFires, Uncharged, Losing, Given
    <2>3. Charged' + Cardinality(fired') + Uncharged' + Losing' <= Cardinality(expired')
        BY <1>0, <2>1, <2>2 DEF ChargeInv
    <2> QED BY <1>2, <2>3 DEF TimerFires, ChargeInv
<1>3. ASSUME NEW t \in Turns, Interrupt(t) PROVE ChargeInv'
    <2>1. Cardinality(fired') = Cardinality(fired) - 1
        BY <1>3, FS_RemoveElement DEF Interrupt
    <2>2. Charged' = Charged /\ Uncharged' <= Uncharged + 1 /\ Losing' = Losing /\ Uncharged' \in {0, 1}
        BY <1>1, <1>3 DEF Interrupt, Uncharged, Losing, Given
    <2>3. UNCHANGED <<turn, armed, expired>>
        BY <1>3 DEF Interrupt
    <2>4. Charged' + Cardinality(fired') + Uncharged' + Losing' <= Cardinality(expired')
        BY <1>0, <2>1, <2>2, <2>3 DEF ChargeInv
    <2> QED BY <2>3, <2>4 DEF ChargeInv
<1>4. CASE BeginTurn
    <2>1. Charged' = Charged /\ Uncharged' = Uncharged /\ Losing' = 0
        BY <1>1, <1>4 DEF BeginTurn, Uncharged, Losing
    <2>2. \A t \in expired : t \in Nat /\ t <= turn
        BY TurnAssumption DEF ChargeInv, TypeInv, TypeOK, Turns
    <2>3. turn' = turn + 1 /\ UNCHANGED <<expired, fired>>
        BY <1>4 DEF BeginTurn
    <2>4. \A t \in expired' : t <= turn' /\ t # turn'
        BY <2>2, <2>3
    <2>5. Charged' + Cardinality(fired') + Uncharged' + Losing' <= Cardinality(expired')
        BY <1>0, <2>1, <2>3 DEF ChargeInv
    <2> QED BY <2>4, <2>5 DEF ChargeInv
<1>5. CASE InjectArgs
    <2>1. Uncharged' + Losing' <= Uncharged + Losing /\ {Uncharged', Losing'} \subseteq {0, 1}
        BY <1>5 DEF InjectArgs, Uncharged, Losing, Given, TypeInv, TypeOK
    <2>2. Charged' = Charged /\ UNCHANGED <<turn, armed, fired, expired>>
        BY <1>1, <1>5 DEF InjectArgs
    <2>3. Charged' + Cardinality(fired') + Uncharged' + Losing' <= Cardinality(expired')
        BY <1>0, <2>1, <2>2 DEF ChargeInv
    <2> QED BY <2>2, <2>3 DEF ChargeInv
<1>6. CASE Returns \/ Fails \/ PackPanics
    <2>1. pc = "run" /\ pc' # "run"
        BY <1>6 DEF Returns, Fails, PackPanics, Running, TypeInv, StageInv
    <2>2. Cardinality(Deprived') = Cardinality(Deprived) + Losing /\ Losing' = 0
        BY <1>6, <2>1, ChargeAdded DEF Losing
    <2>3. Cardinality(TimedOut') + Uncharged' <= Cardinality(TimedOut) + Uncharged /\ Cardinality(TimedOut') \in Nat
        <3>1. CASE Fails /\ pending
            <4>1. Cardinality(TimedOut') <= Cardinality(TimedOut) + 1 /\ Cardinality(TimedOut') \in Nat
                BY <1>6, ChargeAdded
            <4>2. Uncharged = 1 /\ Uncharged' = 0
                BY <3>1 DEF Fails, Uncharged
            <4> QED BY <4>1, <4>2
        <3>2. CASE ~(Fails /\ pending)
            <4>1. results'[turn].err # "timeout"
                BY <1>6, <3>2, ReportAdded
            <4>2. Cardinality(TimedOut') = Cardinality(TimedOut)
                BY <1>6, <4>1, ChargeAdded
            <4>3. Uncharged' = Uncharged
                BY <1>6, <3>2 DEF Returns, Fails, PackPanics, Uncharged, timerVars
            <4> QED BY <1>0, <4>2, <4>3
        <3> QED BY <3>1, <3>2
    <2>4. UNCHANGED <<turn, fired, expired>> /\ (armed' => armed)
        BY <1>6 DEF Returns, Fails, PackPanics, timerVars
    <2>5. Uncharged' \in {0, 1}
        BY DEF Uncharged
    <2>6. Charged' + Cardinality(fired') + Uncharged' + Losing' <= Cardinality(expired')
        BY <1>0, <2>2, <2>3, <2>4, <2>5 DEF ChargeInv, Charged
    <2> QED BY <2>4, <2>6 DEF ChargeInv
<1>7. CASE ClearAfterError \/ Recover \/ StopTimer
    <2>1. Charged' = Charged /\ Uncharged' <= Uncharged /\ Losing' = 0 /\ Uncharged' \in {0, 1}
        BY <1>1, <1>7 DEF ClearAfterError, Recover, StopTimer, Uncharged, Losing
    <2>2. UNCHANGED <<turn, fired, expired>> /\ (armed' => armed)
        BY <1>7 DEF ClearAfterError, Recover, StopTimer
    <2>3. Charged' + Cardinality(fired') + Uncharged' + Losing' <= Cardinality(expired')
        BY <1>0, <2>1, <2>2 DEF ChargeInv
    <2> QED BY <2>2, <2>3 DEF ChargeInv
<1>8. ASSUME UNCHANGED <<pc, turn, fired, expired, armed, pending, args, carried, results>>
      PROVE  ChargeInv'
    BY <1>1, <1>8 DEF ChargeInv, Uncharged, Losing, Given
<1>9. CASE UNCHANGED vars
    BY <1>8, <1>9 DEF vars, timerVars
<1>13. CASE NewRun
    BY <1>1, <1>13 DEF NewRun, ChargeInv, Uncharged, Losing, timerVars
<1>10. CASE Log \/ Answer \/ ModuleLoads \/ ModuleThrows \/ ToolReturns
    BY <1>8, <1>10 DEF Log, Answer, ModuleLoads, ModuleThrows, ToolReturns, timerVars
<1>11. ASSUME NEW m \in Modules, Require(m) PROVE ChargeInv'
    BY <1>8, <1>11 DEF Require, timerVars
<1>12. ASSUME NEW t \in Tools, CallTool(t) PROVE ChargeInv'
    BY <1>8, <1>12 DEF CallTool, timerVars
<1> QED
    BY <1>2, <1>3, <1>4, <1>5, <1>6, <1>7, <1>9, <1>10, <1>11, <1>12, <1>13 DEF Next, Script

(* However late the interrupts come, no more scripts fail by a timeout or are
   run without their args than timers have expired. *)
THEOREM TimeoutsAreCharged == Spec => []TimeoutsCharged
<1>1. Init => ChargeInv
    <2> SUFFICES ASSUME Init PROVE ChargeInv
        OBVIOUS
    <2>1. /\ TimedOut = {} /\ Deprived = {} /\ fired = {} /\ expired = {}
          /\ Uncharged = 0 /\ Losing = 0 /\ ~armed
        BY DEF Init, TimedOut, Deprived, Uncharged, Losing
    <2> QED BY <2>1, FS_EmptySet DEF ChargeInv, Charged
<1>2. TypeInv /\ ChargeInv => TimeoutsCharged
    <2> SUFFICES ASSUME TypeInv, ChargeInv PROVE TimeoutsCharged
        OBVIOUS
    <2>1. {Uncharged, Losing} \subseteq {0, 1}
        BY DEF Uncharged, Losing
    <2>2. Cardinality(TimedOut) + Cardinality(Deprived) <= Cardinality(expired)
        BY <2>1, Sizes DEF ChargeInv, Charged
    <2> QED BY <2>2 DEF TimeoutsCharged, TimedOut, Deprived
<1> QED BY <1>1, <1>2, TurnInvariant, ChargeStep, PTL DEF Spec
=============================================================================
