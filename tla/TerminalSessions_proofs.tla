---------------------- MODULE TerminalSessions_proofs ----------------------
(* Theorems about the client's approvals and its session database, for any  *)
(* number of processes, sessions and questions.                             *)
EXTENDS TerminalSessions, Lists_proofs, SequenceTheorems, TLAPS

TypeInv ==
    /\ memo \in [Procs -> [Questions -> {Unknown, "yes", "no"}]]
    /\ steps \in [Sessions -> Int]
    /\ pc \in [Procs -> {"off", "idle", "turn", "lookup", "ask", "record"}]
    /\ session = [p \in Procs |-> session[p]]
    /\ question \in [Procs -> Questions \cup {NoQuestion}]
    /\ \A p \in Procs : pc[p] \in {"lookup", "ask", "record"} => question[p] \in Questions

(* What a process is about to record was approved in its session, and neither
   rm nor revoke can have reached it. *)
RecordInv ==
    \A p \in Procs : pc[p] = "record" =>
        /\ <<session[p], question[p]>> \in yesIn
        /\ <<session[p], question[p]>> \in standing

(* Every yes that is remembered, in a process or in the store, was given. *)
MemoInv ==
    /\ \A p \in Procs, q \in Questions : memo[p][q] = "yes" => <<p, q>> \in yesBy
    /\ grants \subseteq yesIn
    /\ grants \subseteq standing

IInv == TypeInv /\ RecordInv /\ MemoInv /\ ApprovalWasGiven /\ NoOrphanSteps

LEMMA InitIInv == Init => IInv
BY TerminalAssumption DEF Init, IInv, TypeInv, RecordInv, MemoInv, ApprovalWasGiven, NoOrphanSteps, Forgotten, Unknown

(* The end of a process takes what it knew with it. *)
LEMMA GoneStep ==
    ASSUME IInv, NEW p \in Procs, Gone(p), UNCHANGED <<steps, grants, yesIn, standing>>,
           DOMAIN rows \subseteq DOMAIN rows'
    PROVE  IInv'
<1> USE DEF IInv, Gone
<1>1. TypeInv'
    BY DEF TypeInv, Forgotten, Unknown
<1>2. RecordInv'
    BY DEF TypeInv, RecordInv
<1>3. MemoInv'
    BY DEF TypeInv, MemoInv, Forgotten, Unknown
<1>4. ApprovalWasGiven'
    <2> SUFFICES ASSUME NEW g \in given' PROVE <<g[1], g[3]>> \in yesBy' \/ <<g[2], g[3]>> \in yesIn'
        BY DEF ApprovalWasGiven
    <2>1. g \in given /\ g[1] # p
        OBVIOUS
    <2>2. <<g[1], g[3]>> \in yesBy \/ <<g[2], g[3]>> \in yesIn
        BY <2>1 DEF ApprovalWasGiven
    <2> QED BY <2>1, <2>2
<1>5. NoOrphanSteps'
    BY DEF NoOrphanSteps
<1> QED BY <1>1, <1>2, <1>3, <1>4, <1>5

(* A step row comes with its session's row. *)
LEMMA AppendRows ==
    ASSUME IInv, NEW p \in Procs, AppendStep(p)
    PROVE  steps' \in [Sessions -> Int] /\ NoOrphanSteps'
BY DEF IInv, TypeInv, NoOrphanSteps, AppendStep, CountRow, Touch

(* Steps that leave the approvals alone and keep the process out of the
   prompter. *)
LEMMA PlainStep ==
    ASSUME IInv, NEW p \in Procs, NEW l \in {"idle", "turn"},
           pc' = [pc EXCEPT ![p] = l], UNCHANGED <<memo, question, grants, history>>,
           \A x \in Procs : x # p => session'[x] = session[x],
           session' = [x \in Procs |-> session'[x]],
           steps' \in [Sessions -> Int], NoOrphanSteps'
    PROVE  IInv'
<1>1. TypeInv'
    BY DEF IInv, TypeInv
<1>2. RecordInv'
    BY DEF IInv, TypeInv, RecordInv, history
<1>3. MemoInv' /\ ApprovalWasGiven'
    BY DEF IInv, MemoInv, ApprovalWasGiven, history
<1> QED BY <1>1, <1>2, <1>3 DEF IInv

LEMMA ClientStep ==
    ASSUME IInv, NEW p \in Procs,
           Start(p) \/ NewSession(p) \/ BeginTurn(p) \/ TakeStep(p) \/ EndTurn(p) \/ Leave(p)
    PROVE  IInv'
<1>1. CASE Start(p)
    <2>1. PICK s : session' = [session EXCEPT ![p] = s]
        BY <1>1 DEF Start
    <2>2. given' = given /\ UNCHANGED <<memo, question, tables, yesBy, yesIn, standing>> /\ pc' = [pc EXCEPT ![p] = "idle"]
        BY <1>1 DEF Start
    <2> QED BY <2>1, <2>2, PlainStep DEF history, tables, IInv, TypeInv, NoOrphanSteps
<1>2. CASE NewSession(p)
    <2>1. pc' = [pc EXCEPT ![p] = "idle"]
        BY <1>2 DEF NewSession, IInv, TypeInv
    <2> QED BY <1>2, <2>1, PlainStep DEF NewSession, tables, IInv, TypeInv, NoOrphanSteps
<1>3. CASE BeginTurn(p)
    BY <1>3, PlainStep, AppendRows DEF BeginTurn, client, IInv, TypeInv
<1>4. CASE TakeStep(p)
    <2>1. pc' = [pc EXCEPT ![p] = "turn"]
        BY <1>4 DEF TakeStep, IInv, TypeInv
    <2> QED BY <1>4, <2>1, PlainStep, AppendRows DEF TakeStep, client, IInv, TypeInv
<1>5. CASE EndTurn(p)
    <2>1. DOMAIN rows \subseteq DOMAIN rows'
        BY <1>5 DEF EndTurn, Touch
    <2>2. CASE Gone(p)
        BY <1>5, <2>1, <2>2, GoneStep DEF EndTurn
    <2>3. CASE pc' = [pc EXCEPT ![p] = "idle"] /\ UNCHANGED <<client, memo, question, yesBy, given>>
        BY <1>5, <2>1, <2>3, PlainStep DEF EndTurn, client, history, IInv, TypeInv, NoOrphanSteps
    <2> QED BY <1>5, <2>2, <2>3 DEF EndTurn
<1>6. CASE Leave(p)
    BY <1>6, GoneStep DEF Leave, tables
<1> QED BY <1>1, <1>2, <1>3, <1>4, <1>5, <1>6

-----------------------------------------------------------------------------
(* The prompter's steps. *)
LEMMA AskStep ==
    ASSUME IInv, NEW p \in Procs, NEW q \in Questions,
           Confirm(p, q) \/ Recall(p, q) \/ Lookup(p) \/ InputEnds(p)
    PROVE  IInv'
<1> USE DEF IInv, TypeInv, RecordInv, MemoInv, ApprovalWasGiven, NoOrphanSteps, client, tables, history
<1>1. CASE Confirm(p, q)
    BY <1>1 DEF Confirm
<1>2. CASE Recall(p, q)
    BY <1>2 DEF Recall, Hand, Unknown
<1>3. CASE Lookup(p)
    <2>1. UNCHANGED <<memo, session, grants, rows, steps, yesBy, yesIn, standing>>
        BY <1>3 DEF Lookup, IsGranted
    <2>2. TypeInv' /\ RecordInv'
        BY <1>3 DEF Lookup, IsGranted
    <2>3. MemoInv' /\ NoOrphanSteps'
        BY <2>1
    <2>4. ApprovalWasGiven'
        <3>1. CASE given' = given
            BY <2>1, <3>1
        <3>2. CASE <<session[p], question[p]>> \in grants /\ Hand(p, question[p], TRUE)
            <4>1. <<session[p], question[p]>> \in yesIn
                BY <3>2
            <4>2. \A g \in given' : g \in given \/ g = <<p, session[p], question[p]>>
                BY <3>2 DEF Hand
            <4> SUFFICES ASSUME NEW g \in given'
                         PROVE  <<g[1], g[3]>> \in yesBy' \/ <<g[2], g[3]>> \in yesIn'
                OBVIOUS
            <4>3. CASE g \in given
                BY <2>1, <4>3
            <4>4. CASE g = <<p, session[p], question[p]>>
                BY <2>1, <4>1, <4>4
            <4> QED BY <4>2, <4>3, <4>4
        <3> QED BY <1>3, <3>1, <3>2 DEF Lookup, IsGranted
    <2> QED BY <2>2, <2>3, <2>4
<1>4. CASE InputEnds(p)
    BY <1>4 DEF InputEnds
<1> QED BY <1>1, <1>2, <1>3, <1>4

LEMMA AnswerStep ==
    ASSUME IInv, NEW p \in Procs, Answer(p)
    PROVE  IInv'
<1>1. PICK answer \in BOOLEAN :
        /\ memo' = [memo EXCEPT ![p][question[p]] = IF answer THEN "yes" ELSE "no"]
        /\ yesBy' = IF answer THEN yesBy \cup {<<p, question[p]>>} ELSE yesBy
        /\ yesIn' = IF answer THEN yesIn \cup {<<session[p], question[p]>>} ELSE yesIn
        /\ standing' = IF answer THEN standing \cup {<<session[p], question[p]>>} ELSE standing
        /\ Hand(p, question[p], answer)
        /\ IF answer /\ durable[p]
           THEN pc' = [pc EXCEPT ![p] = "record"] /\ UNCHANGED question
           ELSE /\ pc' = [pc EXCEPT ![p] = "turn"]
                /\ question' = [question EXCEPT ![p] = NoQuestion]
    BY DEF Answer
<1>2. UNCHANGED <<session, grants, rows, steps>> /\ question[p] \in Questions
    BY DEF Answer, client, tables, IInv, TypeInv
<1>3. TypeInv'
    BY <1>1, <1>2 DEF IInv, TypeInv
<1>4. RecordInv'
    BY <1>1, <1>2 DEF IInv, TypeInv, RecordInv
<1>5. MemoInv'
    BY <1>1, <1>2 DEF IInv, TypeInv, MemoInv
<1>6. ApprovalWasGiven'
    <2> SUFFICES ASSUME NEW g \in given' PROVE <<g[1], g[3]>> \in yesBy' \/ <<g[2], g[3]>> \in yesIn'
        BY DEF ApprovalWasGiven
    <2>1. CASE g \in given
        BY <1>1, <2>1 DEF IInv, ApprovalWasGiven
    <2>2. CASE g = <<p, session[p], question[p]>> /\ answer
        BY <1>1, <2>2
    <2> QED BY <1>1, <2>1, <2>2 DEF Hand
<1>7. NoOrphanSteps'
    BY <1>2 DEF IInv, NoOrphanSteps
<1> QED BY <1>3, <1>4, <1>5, <1>6, <1>7 DEF IInv

LEMMA RecordStep ==
    ASSUME IInv, NEW p \in Procs, Record(p)
    PROVE  IInv'
<1> USE DEF IInv, Record, Grant, client, history
<1>1. grants' = grants \/ grants' = grants \cup {<<session[p], question[p]>>}
    OBVIOUS
<1>2. TypeInv' /\ RecordInv'
    BY DEF TypeInv, RecordInv
<1>3. MemoInv'
    BY <1>1 DEF MemoInv, RecordInv
<1> QED BY <1>2, <1>3 DEF ApprovalWasGiven, NoOrphanSteps

(* rm and revoke: an approval that is being recorded stays behind. *)
LEMMA WithdrawStep ==
    ASSUME IInv, NEW s \in Sessions, Delete(s) \/ Revoke(s)
    PROVE  IInv'
<1> USE DEF IInv, Delete, Revoke, client
<1>1. /\ grants' = WithoutSession(grants, s)
      /\ standing' = WithoutSession(standing, s) \cup InFlight(s)
      /\ UNCHANGED <<pc, session, memo, question, yesBy, yesIn, given>>
    OBVIOUS
<1>2. TypeInv'
    BY <1>1 DEF TypeInv
<1>3. RecordInv'
    <2> SUFFICES ASSUME NEW p \in Procs, pc[p] = "record"
                 PROVE  <<session[p], question[p]>> \in standing'
        BY <1>1 DEF RecordInv
    <2>1. CASE session[p] = s
        BY <1>1, <2>1 DEF InFlight
    <2>2. CASE session[p] # s
        BY <1>1, <2>2 DEF RecordInv, WithoutSession
    <2> QED BY <2>1, <2>2
<1>4. MemoInv'
    BY <1>1 DEF MemoInv, WithoutSession
<1>5. ApprovalWasGiven'
    BY <1>1 DEF ApprovalWasGiven
<1>6. NoOrphanSteps'
    BY DEF TypeInv, NoOrphanSteps
<1> QED BY <1>2, <1>3, <1>4, <1>5, <1>6

LEMMA NextStep == IInv /\ [Next]_vars => IInv'
<1> SUFFICES ASSUME IInv, [Next]_vars PROVE IInv'
    OBVIOUS
<1>1. ASSUME NEW p \in Procs, Process(p) PROVE IInv'
    <2>1. CASE Lookup(p) \/ InputEnds(p)
        <3>1. question[p] \in Questions
            BY <2>1 DEF IInv, TypeInv, Lookup, InputEnds
        <3> QED BY <2>1, <3>1, AskStep
    <2> QED BY <1>1, <2>1, ClientStep, AskStep, AnswerStep, RecordStep DEF Process
<1>2. ASSUME NEW s \in Sessions, Delete(s) \/ Revoke(s) PROVE IInv'
    BY <1>2, WithdrawStep
<1>3. CASE Tick \/ UNCHANGED vars
    BY <1>3 DEF Tick, vars, client, tables, history, IInv, TypeInv, RecordInv, MemoInv, ApprovalWasGiven, NoOrphanSteps
<1> QED BY <1>1, <1>2, <1>3 DEF Next

THEOREM ClientInvariant == Spec => []IInv
BY InitIInv, NextStep, PTL DEF Spec

(* A script is told "approved" only of what the user approved in this process
   or session, through any lookups, failures, restarts and deletions. *)
THEOREM ApprovalsAreGiven == Spec => []ApprovalWasGiven
<1>1. IInv => ApprovalWasGiven
    BY DEF IInv
<1> QED BY <1>1, ClientInvariant, PTL

(* No stored approval survives the rm or revoke that came after it, unless *)
(* it was still being recorded then: that one is listed again.             *)
THEOREM GrantsStand == Spec => []GrantsAreStanding
<1>1. IInv => GrantsAreStanding
    BY DEF IInv, MemoInv, GrantsAreStanding
<1> QED BY <1>1, ClientInvariant, PTL

(* Every session with steps is listed, whatever is deleted under a Run. *)
THEOREM StepsAreListed == Spec => []NoOrphanSteps
<1>1. IInv => NoOrphanSteps
    BY DEF IInv
<1> QED BY <1>1, ClientInvariant, PTL

-----------------------------------------------------------------------------
(* The session that --continue resumes. *)

LEMMA OneElement ==
    ASSUME NEW k \in Int
    PROVE  <<k>> \in Seq(Int) /\ Len(<<k>>) = 1 /\ <<k>>[1] = k
OBVIOUS

\* A stamp is led by its second.
LEMMA StampBySecond ==
    ASSUME NEW t \in Nat
    PROVE  1 \in DOMAIN Stamp(t) /\ Stamp(t)[1] = SecondOf(t) /\ SecondOf(t) \in Int
<1>1. SecondOf(t) \in Int /\ Zulu \in Int
    BY DEF SecondOf, Zulu
<1>2. PICK n \in 1..4 : n = (t % 4) + 1
    <2>1. t % 4 \in 0..3
        OBVIOUS
    <2> QED BY <2>1
<1>3. Fraction[n] \in Seq(Int)
    <2>1. /\ Fraction[1] = <<>> /\ Fraction[2] = <<0, 1, 2>>
          /\ Fraction[3] = <<0, 2>> /\ Fraction[4] = <<0, 2, 2>>
        BY DEF Fraction, Point
    <2>2. <<>> \in Seq(Int) /\ <<0, 1, 2>> \in Seq(Int) /\ <<0, 2>> \in Seq(Int) /\ <<0, 2, 2>> \in Seq(Int)
        OBVIOUS
    <2>3. n = 1 \/ n = 2 \/ n = 3 \/ n = 4
        BY <1>2
    <2> QED BY <2>1, <2>2, <2>3, Zenon
<1>4. PICK second \in Seq(Int) : second = <<SecondOf(t)>> /\ Len(second) = 1 /\ second[1] = SecondOf(t)
    BY <1>1, OneElement
<1>5. PICK end \in Seq(Int) : end = <<Zulu>>
    BY <1>1, OneElement
<1>6. PICK digits \in Seq(Int) : digits = second \o Fraction[n] /\ Joins(digits, second, Fraction[n])
    BY <1>3, <1>4, ConcatFacts
<1>7. PICK stamp \in Seq(Int) : stamp = digits \o end /\ Joins(stamp, digits, end)
    BY <1>5, <1>6, ConcatFacts
<1>8. stamp = Stamp(t)
    BY <1>2, <1>4, <1>5, <1>6, <1>7, Zenon DEF Stamp
<1>9. Len(digits) \in Nat \ {0} /\ digits[1] = SecondOf(t)
    <2>1. 1 \in 1..Len(second) /\ Len(Fraction[n]) \in Nat
        BY <1>3, <1>4
    <2> QED BY <1>4, <1>6, <2>1 DEF Joins
<1>10. Len(stamp) \in Nat \ {0} /\ stamp[1] = SecondOf(t)
    <2>1. 1 \in 1..Len(digits) /\ Len(end) \in Nat
        BY <1>5, <1>9
    <2> QED BY <1>7, <1>9, <2>1 DEF Joins
<1>11. 1 \in DOMAIN stamp
    <2>1. DOMAIN stamp = 1..Len(stamp)
        BY <1>7, LenProperties
    <2> QED BY <1>10, <2>1
<1> QED BY <1>1, <1>8, <1>10, <1>11

LEMMA EarlierSecondSortsBefore ==
    ASSUME NEW a \in Nat, NEW b \in Nat, ~(SecondOf(b) <= SecondOf(a))
    PROVE  TextLess(Stamp(a), Stamp(b))
<1>1. PICK x : x = Stamp(a) /\ 1 \in DOMAIN x /\ x[1] = SecondOf(a) /\ SecondOf(a) \in Int
    BY StampBySecond
<1>2. PICK y : y = Stamp(b) /\ 1 \in DOMAIN y /\ y[1] = SecondOf(b) /\ SecondOf(b) \in Int
    BY StampBySecond
<1>3. x[1] < y[1]
    BY <1>1, <1>2
<1>4. 1 \in DOMAIN x \cap DOMAIN y /\ \A j \in 1..(1 - 1) : x[j] = y[j]
    BY <1>1, <1>2
<1>5. TextLess(x, y)
    BY <1>3, <1>4 DEF TextLess
<1> QED BY <1>1, <1>2, <1>5

\* Rows are stamped by the clock.
ClockInv == now \in Nat /\ \A s \in DOMAIN rows : rows[s] \in Nat

LEMMA ClockStep == ClockInv /\ [Next]_vars => ClockInv'
<1> SUFFICES ASSUME ClockInv, [Next]_vars PROVE ClockInv'
    OBVIOUS
<1>1. CASE UNCHANGED vars
    BY <1>1 DEF ClockInv, vars, tables
<1>2. CASE Tick
    BY <1>2, TerminalAssumption DEF ClockInv, Tick, tables
<1>3. ASSUME UNCHANGED now, UNCHANGED rows \/ \E s \in Sessions \cup {NoSession} : Touch(s)
      PROVE  ClockInv'
    BY <1>3 DEF ClockInv, Touch
<1>4. ASSUME NEW p \in Procs, UNCHANGED now, UNCHANGED rows \/ Touch(session[p])
      PROVE  ClockInv'
    BY <1>4 DEF ClockInv, Touch
<1>5. CASE \E s \in Sessions : Delete(s) \/ Revoke(s)
    BY <1>5 DEF ClockInv, Delete, Revoke
<1>6. CASE \E p \in Procs : Process(p)
    <2>1. PICK p \in Procs : Process(p)
        BY <1>6
    <2>2. UNCHANGED now
        BY <2>1 DEF Process, Start, NewSession, BeginTurn, TakeStep, EndTurn, Leave, Confirm, Recall, Lookup,
                    Answer, InputEnds, Record
    <2>3. UNCHANGED rows \/ Touch(session[p])
        BY <2>1 DEF Process, Start, NewSession, BeginTurn, TakeStep, EndTurn, Leave, Confirm, Recall, Lookup,
                    Answer, InputEnds, Record, AppendStep, tables
    <2> QED BY <1>4, <2>2, <2>3
<1> QED BY <1>1, <1>2, <1>5, <1>6 DEF Next

(* Whatever the clock shows: --continue resumes a session of the latest second,
   since stamps of different seconds do sort as the seconds do. *)
THEOREM LatestIsContinued == Spec => []ContinuesLatest
<1>1. Init => ClockInv
    BY TerminalAssumption DEF Init, ClockInv
<1>2. ClockInv => ContinuesLatest
    <2> SUFFICES ASSUME ClockInv, NEW s \in MostRecent(rows), NEW t \in DOMAIN rows
                 PROVE  SecondOf(rows[t]) <= SecondOf(rows[s])
        BY DEF ContinuesLatest
    <2>1. s \in DOMAIN rows /\ ~TextLess(Stamp(rows[s]), Stamp(rows[t]))
        BY DEF MostRecent
    <2>2. rows[s] \in Nat /\ rows[t] \in Nat
        BY <2>1 DEF ClockInv
    <2> QED BY <2>1, <2>2, EarlierSecondSortsBefore
<1> QED BY <1>1, <1>2, ClockStep, PTL DEF Spec
=============================================================================
