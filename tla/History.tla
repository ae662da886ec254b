------------------------------- MODULE History -------------------------------
(***************************************************************************)
(* What a Run makes of a session's persisted trace: the window LastN       *)
(* returns, the replay of rehydrateHistory, the split a                    *)
(* SummarizingCompactor chooses and the checkpoint the loop writes for it. *)
(* A trace is a sequence of rows in insertion order; a message is named by *)
(* the position of the row it replays.  Texts are left out: a summary row  *)
(* carries instead `covers`, the positions its text stands for.            *)
(***************************************************************************)
EXTENDS Lists

CONSTANTS HistoryWindow,    \* Config.HistoryWindow: the n of LastN
          Trigger,          \* SummarizingCompactor.Trigger
          Keep              \* SummarizingCompactor.Keep

ASSUME HistoryAssumption ==
    HistoryWindow \in Nat \ {0} /\ Trigger \in Nat \ {0} /\ Keep \in Nat \ {0}

\* Step types that stepToTurn replays; "summary" and "error" rows are not turns.
TurnTypes == {"user", "response", "execute_js", "execute_js_result"}
StepTypes == TurnTypes \cup {"error", "summary"}

\* The position that stands for a summary no row holds (yet).
Unsaved == 0

IsTurn(trace, p)   == trace[p].type \in TurnTypes
IsResult(trace, p) == p # Unsaved /\ trace[p].type = "execute_js_result"

\* StepStore.LastN: the most recent rows, oldest first.
LastN(trace) ==
    LET n == Len(trace)
        m == IF n < HistoryWindow THEN n ELSE HistoryWindow
    IN  [i \in 1..m |-> n - m + i]

\* The position of the most recent checkpoint among the loaded steps, if any.
LastCheckpoint(trace, steps) ==
    LET found == {i \in DOMAIN steps : trace[steps[i]].type = "summary"}
    IN  IF found = {} THEN Unsaved
        ELSE steps[CHOOSE i \in found : \A j \in found : j <= i]

\* The turns that the checkpoint's marker does not cover.
Replayed(trace, steps) ==
    LET at == LastCheckpoint(trace, steps)
    IN  {p \in Elements(steps) :
            IsTurn(trace, p) /\ (at = Unsaved \/ trace[p].idx >= trace[at].retain)}

\* The summary first, then every turn replayed, in order.
Rehydrate(trace, steps) ==
    LET at == LastCheckpoint(trace, steps)
    IN  (IF at = Unsaved THEN <<>> ELSE <<at>>) \o Only(steps, Replayed(trace, steps))

\* Step indices follow insertion order up to position n: no failed append, no
\* overlapping Run and no full window has made the numbering restart.
IndicesIncrease(trace, n) == \A p, q \in 1..n : p < q => trace[p].idx < trace[q].idx

-----------------------------------------------------------------------------
\* SummarizingCompactor.bounds: how many messages stay verbatim.
KeepBound == IF Keep >= Trigger THEN Trigger \div 2 ELSE Keep

\* Slip: the split is not moved off an execution result.
SplitAtDesired(trace, hist) ==
    IF Len(hist) <= KeepBound THEN 0 ELSE Len(hist) - KeepBound

\* How many messages go into the summary: back off one message rather than
\* separate an execution result from its script.
SafeSplit(trace, hist) ==
    LET desired == Len(hist) - KeepBound
    IN  IF desired <= 0 THEN 0
        ELSE IF desired < Len(hist) /\ IsResult(trace, hist[desired + 1]) THEN desired - 1
        ELSE desired

\* Compact has something to fold away.
WillCompact(trace, hist) == Len(hist) > Trigger /\ SafeSplit(trace, hist) > 0

Retained(hist, split) == SubSeq(hist, split + 1, Len(hist))

\* Slip: the checkpoint names the last folded message's step as retained.
RetainLastFolded(trace, hist, split) == trace[hist[split]].idx

\* retainFromStep: the step index where the retained history resumes.
RetainFromStep(trace, hist, split) ==
    IF split >= Len(hist) THEN trace[hist[Len(hist)]].idx + 1
    ELSE trace[hist[split + 1]].idx

\* What the summary of the first `split` messages stands for.
CoveredBy(trace, hist, split) ==
    UNION {IF IsTurn(trace, hist[i]) THEN {hist[i]} ELSE trace[hist[i]].covers : i \in 1..split}
=============================================================================
