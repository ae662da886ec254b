---------------------------- MODULE PromptBudget ----------------------------
(***************************************************************************)
(* The prompt of each turn of a Run: the history grows by a script and its *)
(* execution result per turn, elideStaleCode shortens this Run's older     *)
(* scripts, a digest of args may follow, and ContextBudget.fit drops the   *)
(* oldest messages that do not fit.  A message is its kind and its cost in *)
(* tokens, role framing included; texts are left out.                      *)
(***************************************************************************)
EXTENDS Integers, Sequences, FiniteSetsExt, SequencesExt, Lists

CONSTANTS Allowance,    \* ContextBudget.allowance(): MaxTokens less the reserve
          SystemCost,   \* cost of the system prompt
          MarkerCost,   \* cost of budgetDropMarker with a small count
          WideCount,    \* the count from which its text costs one token more
          ElidedCost,   \* cost of staleCodeMarker
          Costs,        \* costs of the other messages (bound)
          MaxPrior,     \* messages of earlier Runs (bound)
          MaxTurns      \* Config.MaxIterations

VARIABLES history,  \* the messages of earlier Runs, the question, this Run's turns
          base,     \* baseLen: how many of them this Run did not append
          digest,   \* cost of the args digest, 0 while there is none
          turn,     \* model calls made
          prompt,   \* the last request before fit
          sent      \* what fit made of it

vars == <<history, base, digest, turn, prompt, sent>>

\* "ask" is this Run's user message; "script" and "elided" are run() blocks.
Assistant == {"reply", "script", "elided"}
Kinds     == Assistant \cup {"system", "dropped", "user", "ask", "result", "digest"}

Msg(kind, cost) == [kind |-> kind, cost |-> cost]

CostOf(ms) == SumOf([i \in DOMAIN ms |-> ms[i].cost])

\* budgetDropMarker with the number of messages it reports.
Marker(n) == Msg("dropped", IF n < WideCount THEN MarkerCost ELSE MarkerCost + 1)

-----------------------------------------------------------------------------
(* elideStaleCode and fit.                                                 *)

\* This Run's assistant messages but the latest become a one-line marker.
Elide(ms, from) ==
    LET latest == Max({0} \cup {i \in DOMAIN ms : ms[i].kind \in Assistant})
    IN  [i \in DOMAIN ms |-> IF ms[i].kind \in Assistant /\ i > from /\ i # latest
                             THEN Msg("elided", ElidedCost) ELSE ms[i]]

Floor(ms) == ms[1].cost + IF Len(ms) > 1 THEN ms[Len(ms)].cost ELSE 0

\* Slip: the marker a trim inserts is not charged.
UsedUnmarked(ms, k) == Floor(ms) + CostOf(SubSeq(ms, k, Len(ms) - 1))

\* `used` when the walk has reached message k: the floor, k..last-1 and the
\* marker, charged with the largest count it could report.
Used(ms, k) == Floor(ms) + Marker(Len(ms)).cost + CostOf(SubSeq(ms, k, Len(ms) - 1))

\* Slip: the walk stops one token early.
WalkShort(ms) == Min({k \in 2..Len(ms) : \A j \in k..Len(ms)-1 : Used(ms, j) < Allowance})

\* From the newest message back to the first that does not fit.
WalkBack(ms) == Min({k \in 2..Len(ms) : \A j \in k..Len(ms)-1 : Used(ms, j) <= Allowance})

\* Slip: a result may come first.
SkipNothing(ms, k) == k

\* The retained history does not begin with a result, unless that is the last message.
SkipResults(ms, k) == Min({j \in k..Len(ms) : j = Len(ms) \/ ms[j].kind # "result"})

\* Slip: the skipped results stay in the count.
FitOvercounts(ms) ==
    LET last == Len(ms)
        keep == SkipResults(ms, WalkBack(ms))
        used == Used(ms, WalkBack(ms))
    IN  IF last < 3
        THEN [messages |-> ms, dropped |-> 0, tokens |-> Floor(ms), over |-> Floor(ms) > Allowance]
        ELSE IF keep = 2
        THEN [messages |-> ms, dropped |-> 0, tokens |-> used - Marker(last).cost, over |-> FALSE]
        ELSE [messages |-> <<ms[1], Marker(keep - 2)>> \o SubSeq(ms, keep, last),
              dropped |-> keep - 2, tokens |-> used, over |-> used > Allowance]

\* ContextBudget.fit, for an enabled budget.
Fit(ms) ==
    LET last == Len(ms)
        keep == SkipResults(ms, WalkBack(ms))
        used == Used(ms, keep)
    IN  IF last < 3
        THEN [messages |-> ms, dropped |-> 0, tokens |-> Floor(ms), over |-> Floor(ms) > Allowance]
        ELSE IF keep = 2
        THEN [messages |-> ms, dropped |-> 0, tokens |-> used - Marker(last).cost, over |-> FALSE]
        ELSE [messages |-> <<ms[1], Marker(keep - 2)>> \o SubSeq(ms, keep, last),
              dropped |-> keep - 2, tokens |-> used, over |-> used > Allowance]

-----------------------------------------------------------------------------
\* What rehydration may yield: results follow their script, but for the first
\* message, whose script may lie outside the window.
Prior == {p \in SeqOf({Msg(k, c) : k \in {"user", "reply", "script", "result"}, c \in Costs}, MaxPrior) :
             \A i \in 2..Len(p) : p[i].kind = "result" => p[i-1].kind = "script"}

NotSent == [messages |-> <<>>, dropped |-> 0, tokens |-> 0, over |-> FALSE]

Init ==
    /\ \E p \in Prior, c \in Costs : history = Append(p, Msg("ask", c))
    /\ base = Len(history)
    /\ digest = 0
    /\ turn = 0
    /\ prompt = <<>>
    /\ sent = NotSent

\* The top of runTurn, up to the model call.
SendPrompt ==
    /\ turn < MaxTurns /\ prompt = <<>>
    /\ prompt' = <<Msg("system", SystemCost)>> \o Elide(history, base)
                 \o (IF digest > 0 THEN <<Msg("digest", digest)>> ELSE <<>>)
    /\ sent' = Fit(prompt')
    /\ turn' = turn + 1
    /\ UNCHANGED <<history, base, digest>>

\* The reply is a script: it and its result join the history, and a return
\* value replaces args, whose digest is empty for {} and nil.
RunScript ==
    /\ prompt # <<>>
    /\ \E script, result \in Costs :
          history' = history \o <<Msg("script", script), Msg("result", result)>>
    /\ \E d \in {digest, 0} \cup Costs : digest' = d
    /\ prompt' = <<>> /\ sent' = NotSent
    /\ UNCHANGED <<base, turn>>

\* A blank reply: the same prompt is sent again.
Retry ==
    /\ prompt # <<>>
    /\ prompt' = <<>> /\ sent' = NotSent
    /\ UNCHANGED <<history, base, digest, turn>>

Next == SendPrompt \/ RunScript \/ Retry

Spec == Init /\ [][Next]_vars

-----------------------------------------------------------------------------
Sent == sent.messages

\* Type invariant of the turn's state.
TypeOK ==
    /\ history \in Seq([kind: Kinds, cost: Nat]) /\ prompt \in Seq([kind: Kinds, cost: Nat])
    /\ base \in 1..Len(history) /\ digest \in {0} \cup Costs /\ turn \in 0..MaxTurns
    /\ sent.messages \in Seq([kind: Kinds, cost: Nat])
    /\ sent.dropped \in Nat /\ sent.tokens \in Nat /\ sent.over \in BOOLEAN

\* What is sent fits the allowance unless it is reported as over, and then
\* nothing droppable is left in it (fit, budgetFit.Over).
FitsOrOver ==
    /\ CostOf(Sent) > Allowance => sent.over
    /\ sent.over => \A i \in DOMAIN Sent : i = 1 \/ i = Len(Sent) \/ Sent[i].kind = "dropped"

\* The reported size never understates what is sent, is exact when nothing was
\* dropped, and otherwise off by no more than the marker's count is wide.
TokensHonest ==
    /\ sent.tokens \in CostOf(Sent)..CostOf(Sent) + 1
    /\ sent.dropped = 0 => sent.tokens = CostOf(Sent)

\* No message is dropped that there was room for beside a marker: every cut, the
\* whole prompt included, that fits with one and strands no result keeps at most
\* what fit keeps.  The whole prompt needs no marker and is charged one all the
\* same (budget.go: "the right way round"), so it can be cut though it fits.
DropsLeast ==
    \A k \in 2..Len(prompt) :
        /\ prompt[k].kind # "result"
        /\ CostOf(<<prompt[1], Marker(Len(prompt))>> \o SubSeq(prompt, k, Len(prompt))) <= Allowance
        => sent.dropped <= k - 2

\* A result that is not the last message comes with the run() block it is of.
NoStrandedResult ==
    \A i \in 2..Len(Sent)-1 : Sent[i].kind = "result" =>
        Sent[i-1].kind \in {"script", "elided"}

-----------------------------------------------------------------------------
(* Two claims of the repository that this code does not keep.              *)

\* budget.go, of the package: "the budget drops whatever still does not fit".  A
\* prompt that fits, but not beside a marker, loses messages to make room for one.
DropsOnlyToFit ==
    (prompt # <<>> /\ prompt[2].kind # "result" /\ sent.dropped > 0) => CostOf(prompt) > Allowance

\* budget.go, fit: "The final message ... is likewise mandatory, since dropping
\* what was just asked leaves nothing to answer".  From the second turn on the
\* final message is a result or the digest, and the question can be dropped.
QuestionIsSent == prompt # <<>> => \E i \in DOMAIN Sent : Sent[i].kind = "ask"
=============================================================================
