------------------------- MODULE ChunkedSummary -------------------------
(***************************************************************************)
(* SummarizingCompactor.summarize: the older part of a session's history,  *)
(* folded into one summary by as many model calls as it takes.             *)
(*                                                                         *)
(* Whether to compact and where to split is in module History.  Here a     *)
(* message, a chunk and a partial summary are their token counts and the   *)
(* messages they stand for; the model may answer with any of ReplyCosts,   *)
(* longer than what it was given included, or fail.                        *)
(***************************************************************************)
EXTENDS Lists

CONSTANTS
  Allowance,      \* tokens one call may carry beside its prompt (chunkBounds)
  MessageFrame,   \* tokens charged for the label of a part in a merge call
  MaxFoldRounds,  \* merge rounds before the compactor gives up
  MessageCosts,   \* token counts a message may have
  ReplyCosts,     \* token counts a reply may have
  MaxOlder        \* bound: messages to summarize

VARIABLES
  older,      \* the messages to summarize, as token counts
  todo,       \* the bodies of the calls this pass still has to make
  parts,      \* the summaries this pass has so far
  round,      \* 0 while chunks are summarized, then the merge round
  outcome,    \* "working", or how summarize returned
  shrinking   \* whether every reply so far was shorter than its body

vars == <<older, todo, parts, round, outcome, shrinking>>

Body(covers, cost) == [covers |-> covers, cost |-> cost]
Positions(messages) == [i \in DOMAIN messages |-> i]
CoversOf(bodies) == [i \in DOMAIN bodies |-> bodies[i].covers]
Covers(bodies) == Flat(CoversOf(bodies))

-----------------------------------------------------------------------------
(* Consecutive items while they fit one call.  An item over the allowance
   closes the group before it and is closed by the next: it stays alone. *)
Add(acc, i, cost) ==
  IF acc.open # <<>> /\ acc.used + cost > Allowance
  THEN [closed |-> Append(acc.closed, acc.open), open |-> <<i>>, used |-> cost]
  ELSE [closed |-> acc.closed, open |-> Append(acc.open, i), used |-> acc.used + cost]

Groups(costs) ==
  LET packed[i \in 0..Len(costs)] ==
        IF i = 0 THEN [closed |-> <<>>, open |-> <<>>, used |-> 0]
        ELSE Add(packed[i - 1], i, costs[i])
      all == packed[Len(costs)]
  IN Append(all.closed, all.open)

Total(costs, group) == SumOf(Picked(costs, group))

(* elideMiddle: as much of the head and the tail as fits. *)
Elided(cost) == IF cost > Allowance THEN Allowance ELSE cost

(* A chunk is whole messages; one that fits no call has its middle elided. *)
TranscriptChunks(messages) ==
  [k \in DOMAIN Groups(messages) |->
     LET group == Groups(messages)[k]
     IN Body(group, Elided(Total(messages, group)))]

(* groupParts and joinParts: a merge call labels its parts, a lone part is
   sent again as it is, to be shortened. *)
GroupParts(ps) ==
  LET framed == [i \in DOMAIN ps |-> ps[i].cost + MessageFrame] IN
  [k \in DOMAIN Groups(framed) |->
     LET group == Groups(framed)[k]
     IN Body(Flat(Picked(CoversOf(ps), group)),
             IF Len(group) = 1 THEN ps[group[1]].cost ELSE Total(framed, group))]

-----------------------------------------------------------------------------
Init ==
  /\ older \in UNION {[1..n -> MessageCosts] : n \in 1..MaxOlder}
  /\ todo = TranscriptChunks(older)
  /\ parts = <<>> /\ round = 0 /\ outcome = "working" /\ shrinking = TRUE

Call == outcome = "working" /\ todo # <<>>

Summarized(reply) ==
  /\ Call
  /\ parts' = Append(parts, Body(Head(todo).covers, reply))
  /\ todo' = Tail(todo)
  /\ shrinking' = (shrinking /\ reply < Head(todo).cost)
  /\ UNCHANGED <<older, round, outcome>>

(* A slip: a chunk whose call failed is left out of the summary. *)
CallFailsSkipped ==
  /\ Call
  /\ todo' = Tail(todo)
  /\ UNCHANGED <<older, parts, round, outcome, shrinking>>

(* The provider refuses or answers blank: the whole compaction fails. *)
CallFails ==
  /\ Call
  /\ outcome' = "failed"
  /\ UNCHANGED <<older, todo, parts, round, shrinking>>

PassEnds == outcome = "working" /\ todo = <<>>

OnePart ==
  /\ PassEnds /\ Len(parts) = 1
  /\ outcome' = "summary"
  /\ UNCHANGED <<older, todo, parts, round, shrinking>>

(* A slip: the round counter is reset with the parts. *)
NextRoundUncounted ==
  /\ PassEnds /\ Len(parts) > 1 /\ round < MaxFoldRounds
  /\ todo' = GroupParts(parts) /\ parts' = <<>>
  /\ round' = 1
  /\ UNCHANGED <<older, outcome, shrinking>>

NextRound ==
  /\ PassEnds /\ Len(parts) > 1 /\ round < MaxFoldRounds
  /\ todo' = GroupParts(parts) /\ parts' = <<>>
  /\ round' = round + 1
  /\ UNCHANGED <<older, outcome, shrinking>>

TooManyRounds ==
  /\ PassEnds /\ Len(parts) > 1 /\ round = MaxFoldRounds
  /\ outcome' = "failed"
  /\ UNCHANGED <<older, todo, parts, round, shrinking>>

Next ==
  \/ \E reply \in ReplyCosts : Summarized(reply)
  \/ CallFails \/ OnePart \/ NextRound \/ TooManyRounds

(* Compact runs in the Run's own goroutine, and a model call returns. *)
Spec == Init /\ [][Next]_vars /\ WF_vars(Next)

-----------------------------------------------------------------------------
(* A summary has no silent hole: at every moment of a compaction that has
   not failed, the calls made and to be made stand for every older message,
   once and in order, however the messages were chunked and the partial
   summaries grouped and regrouped (summarize, fold). *)
NoSilentHole == outcome # "failed" => Covers(parts \o todo) = Positions(older)

(* A compaction ends, with a summary or an error, even when the model never
   returns anything shorter than it was given (fold, maxFoldRounds). *)
CompactionEnds == <>(outcome # "working")

(* What maxFoldRounds' comment says: running out of rounds means replies as
   long as their input.  Replies that shrink, but to more than half of what
   a call may carry, leave every part alone in its group and run out too. *)
GivesUpOnlyWhenStuck == outcome = "failed" /\ round = MaxFoldRounds /\ todo = <<>> => ~shrinking
=============================================================================
