-------------------------- MODULE ModelCall_proofs --------------------------
(* Theorems about a model call: whatever the upstream answers, for any       *)
(* number of retries, any headers and replies of any length, cut anyhow.     *)
EXTENDS ModelCall, Lists_proofs, SequenceTheorems, TLAPS

(* A plain call hears nothing.  A stream has heard what it has read, and it
   reads one body only: what was heard is never posted again, neither after a
   backoff nor as a plain request. *)
HeardInv ==
    /\ pc \in {"post", "sleep", "read", "done"} /\ method \in {"stream", "complete"}
    /\ wire \in {"stream", "complete"}
    /\ content \in Seq(Symbols) /\ heard \in Seq(Symbols)
    /\ method = "complete" => heard = <<>> /\ wire = "complete"
    /\ pc \in {"post", "sleep"} => heard = <<>> /\ content = <<>> /\ ~sawFrame
    /\ pc = "read" /\ wire = "stream" => heard = content /\ (~sawFrame => heard = <<>>)
    /\ pc = "read" /\ wire = "complete" => heard = <<>>
    /\ outcome = "ok" => pc = "done"
    /\ ChunksAreReply

LEMMA InitHeardInv == Init => HeardInv
<1> SUFFICES ASSUME Init PROVE HeardInv
    OBVIOUS
<1>1. /\ pc = "post" /\ outcome = "none" /\ ~sawFrame /\ method = wire
      /\ content = <<>> /\ heard = <<>> /\ method \in {"stream", "complete"}
    BY DEF Init
<1>2. content \in Seq(Symbols) /\ heard \in Seq(Symbols)
    BY <1>1
<1> QED BY <1>1, <1>2 DEF HeardInv, ChunksAreReply

LEMMA TextsAreSequences == \A text \in Texts : text \in Seq(Symbols)
<1> SUFFICES ASSUME NEW text \in Texts PROVE text \in Seq(Symbols)
    OBVIOUS
<1>1. PICK whole \in Replies : \E n \in 0..Len(whole) : text = SubSeq(whole, 1, n)
    BY DEF Texts
<1>2. whole \in Seq(Symbols) /\ Len(whole) \in Nat
    BY ModelCallAssumption
<1>3. PICK n \in 0..Len(whole) : text = SubSeq(whole, 1, n)
    BY <1>1
<1>4. 0 \in Nat /\ n \in Nat /\ 0 <= n /\ n <= Len(whole) /\ 0 + 1 = 1
    BY <1>2
<1> QED BY <1>2, <1>3, <1>4, PartFacts DEF Part

(* What a delta adds to what was read. *)
LEMMA DeltaFacts ==
    ASSUME content \in Seq(Symbols), NEW text \in Texts, IsStrictPrefix(content, text)
    PROVE  /\ SubSeq(text, Len(content) + 1, Len(text)) \in Seq(Symbols)
           /\ text = content \o SubSeq(text, Len(content) + 1, Len(text))
<1>1. text \in Seq(Symbols) /\ Len(text) \in Nat /\ Len(content) \in Nat
    BY TextsAreSequences
<1>2. Len(content) <= Len(text) /\ SubSeq(content, 1, Len(content)) = SubSeq(text, 1, Len(content))
    BY DEF IsStrictPrefix, IsPrefix
<1>3. SubSeq(content, 1, Len(content)) = content
    BY SubSeqFull
<1>4. content = Part(text, 0, Len(content))
    <2>1. 0 + 1 = 1
        OBVIOUS
    <2> QED BY <1>2, <1>3, <2>1, Zenon DEF Part
<1>5. text = Part(text, 0, Len(content)) \o Part(text, Len(content), Len(text))
    BY <1>1, <1>2, PartsMakeWhole
<1>6. Part(text, Len(content), Len(text)) \in Seq(Symbols)
    BY <1>1, <1>2, PartFacts
<1> QED BY <1>4, <1>5, <1>6, Zenon DEF Part

(* The steps of the retrying POST and of the sleep between two attempts. *)
LEMMA PostStep ==
    ASSUME HeardInv,
           Cancel \/ Unanswered \/ Overloaded \/ Rejected \/ Odd \/ Accepted \/ Wake \/ SleepCancelled
    PROVE  HeardInv'
<1> USE DEF HeardInv, ChunksAreReply, configVars, postVars, bodyVars, streamerVars, resultVars, Finish
<1>1. CASE Cancel
    BY <1>1 DEF Cancel
<1>2. CASE Unanswered
    BY <1>2 DEF Unanswered, AttemptFailed
<1>3. CASE Overloaded
    BY <1>3 DEF Overloaded, AttemptFailed
<1>4. CASE Rejected
    BY <1>4 DEF Rejected, Post
<1>5. CASE Odd \/ Accepted
    BY <1>5 DEF Odd, Accepted
<1>6. CASE Wake \/ SleepCancelled
    BY <1>6 DEF Wake, SleepCancelled, Post
<1> QED BY <1>1, <1>2, <1>3, <1>4, <1>5, <1>6

LEMMA Heard ==
    ASSUME HeardInv, NEW text \in Texts, HearText(text)
    PROVE  heard' = heard \o text
BY TextsAreSequences DEF HearText, Hear, HeardInv, streamerVars

(* The steps that read a body. *)
LEMMA ReadStep ==
    ASSUME HeardInv,
           Delta \/ OtherFrame \/ StreamEnds \/ StreamBreaks \/ PlainBody \/ Completed
    PROVE  HeardInv'
<1> USE DEF configVars, postVars, bodyVars, streamerVars, resultVars, Finish, Streaming
<1>1. CASE Delta
    <2>1. PICK text \in Texts : /\ IsStrictPrefix(content, text) /\ content' = text
                                /\ Hear(SubSeq(text, Len(content) + 1, Len(text)))
        BY <1>1 DEF Delta
    <2>2. heard = content /\ content \in Seq(Symbols)
        BY <1>1 DEF Delta, HeardInv
    <2>3. heard' = heard \o SubSeq(text, Len(content) + 1, Len(text))
        BY <2>1 DEF Hear
    <2>4. heard' = content' /\ heard' \in Seq(Symbols)
        BY <2>1, <2>2, <2>3, DeltaFacts, TextsAreSequences
    <2> QED BY <1>1, <2>4 DEF Delta, HeardInv, ChunksAreReply
<1>2. CASE OtherFrame
    BY <1>2 DEF OtherFrame, HeardInv, ChunksAreReply
<1>3. CASE StreamEnds \/ StreamBreaks
    BY <1>3 DEF StreamEnds, StreamBreaks, HeardInv, ChunksAreReply
<1>4. CASE PlainBody
    <2>1. heard = <<>>
        BY <1>4 DEF PlainBody, HeardInv
    <2>2. method' = method /\ wire' = wire /\ content' = content /\ pc = "read"
        BY <1>4 DEF PlainBody
    <2>3. CASE \E text \in Texts : Finish("ok", text) /\ HearText(text)
        <3>1. method # "complete"
            BY <1>4 DEF PlainBody, HeardInv
        <3>2. PICK text \in Texts : Finish("ok", text) /\ HearText(text)
            BY <2>3
        <3>3. heard' = text /\ text \in Seq(Symbols)
            BY <2>1, <3>2, Heard, TextsAreSequences
        <3> QED BY <2>2, <3>1, <3>2, <3>3 DEF HeardInv, ChunksAreReply
    <2>4. CASE Finish("broken", <<>>) /\ UNCHANGED streamerVars
        BY <2>1, <2>2, <2>4 DEF HeardInv, ChunksAreReply
    <2> QED BY <1>4, <2>3, <2>4 DEF PlainBody
<1>5. CASE Completed
    <2>1. heard = <<>> /\ pc = "read" /\ wire = "complete"
        BY <1>5 DEF Completed, HeardInv
    <2>2. method' = method /\ wire' = wire /\ content' = content
        BY <1>5 DEF Completed
    <2>3. ASSUME NEW text \in Texts, Finish("ok", text),
                 IF method = "stream" THEN HearText(text) ELSE UNCHANGED streamerVars
          PROVE  HeardInv'
        <3>1. CASE method = "stream"
            <4>1. heard' = text /\ text \in Seq(Symbols)
                BY <2>1, <2>3, <3>1, Heard, TextsAreSequences
            <4> QED BY <2>1, <2>2, <2>3, <3>1, <4>1 DEF HeardInv, ChunksAreReply
        <3>2. CASE method # "stream"
            BY <2>1, <2>2, <2>3, <3>2 DEF HeardInv, ChunksAreReply
        <3> QED BY <3>1, <3>2
    <2>4. CASE Finish("broken", <<>>) /\ UNCHANGED streamerVars
        BY <2>1, <2>2, <2>4 DEF HeardInv, ChunksAreReply
    <2> QED BY <1>5, <2>3, <2>4 DEF Completed
<1> QED BY <1>1, <1>2, <1>3, <1>4, <1>5

LEMMA NextStep == HeardInv /\ [Next]_vars => HeardInv'
<1> SUFFICES ASSUME HeardInv, [Next]_vars PROVE HeardInv'
    OBVIOUS
<1>1. CASE Next
    BY <1>1, PostStep, ReadStep DEF Next, Upstream
<1>2. CASE UNCHANGED vars
    BY <1>2 DEF vars, configVars, postVars, bodyVars, streamerVars, resultVars, HeardInv, ChunksAreReply
<1> QED BY <1>1, <1>2

(* The chunks handed to the caller are the reply, piece for piece, through any
   number of retries and whichever fallback was taken. *)
THEOREM ChunksMakeTheReply == Spec => []ChunksAreReply
<1>1. Spec => []HeardInv
    BY InitHeardInv, NextStep, PTL DEF Spec
<1>2. HeardInv => ChunksAreReply
    BY DEF HeardInv
<1> QED BY <1>1, <1>2, PTL

-----------------------------------------------------------------------------
(* Retry delays. *)

LEMMA CapDelayBounds ==
    ASSUME NEW d \in Int
    PROVE  CapDelay(d) \in 0..Cap /\ (d \in 0..Cap => CapDelay(d) = d) /\ (d > Cap => CapDelay(d) = Cap)
BY ModelCallAssumption DEF CapDelay

(* f is the function that Exponential takes its last value from. *)
Doubling(f, n) ==
    f = [k \in 0..n |->
            IF k = 0 THEN base ELSE IF f[k - 1] >= Cap \div 2 THEN Cap ELSE 2 * f[k - 1]]

LEMMA DoublingExists ==
    ASSUME base \in Nat \ {0}, NEW n \in Nat
    PROVE  \E f : Doubling(f, n)
<1> DEFINE step == [v \in Nat |-> IF v >= Cap \div 2 THEN Cap ELSE 2 * v]
           next == [k \in 1..n |-> step]
<1>1. step \in [Nat -> Nat]
    BY ModelCallAssumption
<1>2. next \in Rules(n, Nat)
    BY <1>1 DEF Rules
<1>3. \A v \in Nat : step[v] = IF v >= Cap \div 2 THEN Cap ELSE 2 * v
    OBVIOUS
<1>4. \A k \in 1..n : next[k] = step
    OBVIOUS
<1> HIDE DEF next, step
<1>5. PICK f : Recursion(f, n, Nat, base, next)
    BY <1>2, RecursionExists
<1>6. f \in [0..n -> Nat] /\ f[0] = base
    BY <1>5 DEF Recursion
<1>7. ASSUME NEW k \in 1..n
      PROVE  f[k] = IF f[k - 1] >= Cap \div 2 THEN Cap ELSE 2 * f[k - 1]
    <2>1. k - 1 \in 0..n
        OBVIOUS
    <2>2. f[k] = next[k][f[k - 1]] /\ f[k - 1] \in Nat
        BY <1>5, <1>6, <2>1 DEF Recursion
    <2> QED BY <1>3, <1>4, <2>2
<1>8. ASSUME NEW k \in 0..n
      PROVE  f[k] = IF k = 0 THEN base ELSE IF f[k - 1] >= Cap \div 2 THEN Cap ELSE 2 * f[k - 1]
    BY <1>6, <1>7
<1> DEFINE g == [k \in 0..n |->
                    IF k = 0 THEN base ELSE IF f[k - 1] >= Cap \div 2 THEN Cap ELSE 2 * f[k - 1]]
<1>9. f = g
    BY <1>6, <1>8
<1> QED BY <1>9 DEF Doubling

(* The backoff without jitter is at least the base, or the cap. *)
LEMMA ExponentialBounds ==
    ASSUME base \in Nat \ {0}, NEW n \in Nat
    PROVE  Exponential(n) \in 0..Cap /\ (Exponential(n) >= base \/ Exponential(n) = Cap)
<1> DEFINE f == CHOOSE f : Doubling(f, n)
<1>1. Doubling(f, n)
    BY DoublingExists
<1>2. Exponential(n) = CapDelay(f[n])
    BY DEF Exponential, Doubling
<1> HIDE DEF f
<1>3. f[0] = base /\ \A k \in 1..n : f[k] = IF f[k - 1] >= Cap \div 2 THEN Cap ELSE 2 * f[k - 1]
    BY <1>1 DEF Doubling
<1> DEFINE Good == {k \in 0..n : f[k] \in Nat /\ (f[k] >= base \/ f[k] = Cap)}
<1>4. 0 \in Good
    BY <1>3
<1>5. ASSUME NEW k \in 1..n, k - 1 \in Good PROVE k \in Good
    BY <1>3, <1>5, ModelCallAssumption
<1> HIDE DEF Good
<1>6. n \in Good
    <2>1. 0..n \subseteq Good
        BY <1>4, <1>5, IntervalInduction
    <2> QED BY <2>1
<1>7. f[n] \in Nat /\ (f[n] >= base \/ f[n] = Cap)
    BY <1>6 DEF Good
<1> QED BY <1>2, <1>7, ModelCallAssumption DEF CapDelay

LEMMA DelayBounds ==
    ASSUME base \in Nat \ {0}, attempt \in Nat, NEW hint \in Int, NEW d \in RetryDelays(hint)
    PROVE  /\ d \in 0..Cap
           /\ hint = Absent => d >= base \/ d = Cap
           /\ hint # Absent => d = CapDelay(hint)
<1>1. PICK e \in 0..Cap : e = Exponential(attempt) /\ (e >= base \/ e = Cap)
    BY ExponentialBounds
<1>2. CASE hint # Absent
    <2>1. d = CapDelay(hint)
        BY <1>2 DEF RetryDelays
    <2> QED BY <1>2, <2>1, CapDelayBounds
<1>3. CASE hint = Absent /\ e >= Cap
    <2>1. d = e
        BY <1>1, <1>3 DEF RetryDelays
    <2> QED BY <1>1, <1>3, <2>1, ModelCallAssumption
<1>4. CASE hint = Absent /\ ~(e >= Cap)
    <2>1. PICK j \in 0..Span(e) : d = CapDelay(e + j)
        BY <1>1, <1>4 DEF RetryDelays
    <2>2. j \in Nat
        BY <1>1, ModelCallAssumption DEF Span
    <2> QED BY <1>1, <1>4, <2>1, <2>2, ModelCallAssumption DEF CapDelay
<1> QED BY <1>2, <1>3, <1>4

LEMMA HintBounds ==
    ASSUME NEW h \in Headers
    PROVE  RetryAfter(h) = Absent \/ RetryAfter(h) \in 0..Cap
BY ModelCallAssumption, CapDelayBounds DEF RetryAfter

\* The base is positive, and retries are counted from zero.
CountInv == base \in Nat \ {0} /\ attempt \in Nat

LEMMA CountInvariant == Spec => []CountInv
<1>1. Init => CountInv
    <2> SUFFICES ASSUME Init PROVE CountInv
        OBVIOUS
    <2>1. PICK c \in Configs : base = BaseDelay(c.base)
        BY DEF Init
    <2>2. c.base \in Int
        BY ModelCallAssumption
    <2>3. base \in Nat \ {0}
        BY <2>1, <2>2 DEF BaseDelay, DefaultBase
    <2>4. attempt = 0
        BY DEF Init
    <2> QED BY <2>3, <2>4 DEF CountInv
<1>2. CountInv /\ [Next]_vars => CountInv'
    <2> SUFFICES ASSUME CountInv, [Next]_vars PROVE CountInv'
        OBVIOUS
    <2>1. base' = base
        BY DEF Next, Upstream, vars, configVars, Cancel, Unanswered, Overloaded, Rejected, Odd, Accepted,
               StreamEnds, StreamBreaks, PlainBody, Completed, Delta, OtherFrame, Wake, SleepCancelled
    <2>2. attempt' \in {attempt, attempt + 1, 0}
        BY DEF Next, Upstream, vars, postVars, Cancel, Unanswered, Overloaded, Rejected, Odd, Accepted,
               StreamEnds, StreamBreaks, PlainBody, Completed, Delta, OtherFrame, Wake, SleepCancelled
    <2> QED BY <2>1, <2>2 DEF CountInv
<1> QED BY <1>1, <1>2, PTL DEF Spec

(* For any configuration, cap, number of retries and header: no wait is longer
   than the cap, and only a header makes one shorter than the base. *)
THEOREM BackoffIsBounded == Spec => BackoffBounded
<1>1. ASSUME CountInv, [Next]_vars, pc' = "sleep", pc # "sleep"
      PROVE  /\ delay' <= Cap
             /\ delay' < base => delay' = Cap \/ \E h \in Headers : RetryAfter(h) = delay'
    <2>1. Unanswered \/ Overloaded
        BY <1>1 DEF Next, Upstream, vars, Cancel, Rejected, Odd, Accepted, Post, Finish, Streaming,
               StreamEnds, StreamBreaks, PlainBody, Completed, Delta, OtherFrame, Wake, SleepCancelled
    <2>2. CASE Unanswered
        <3>1. delay' \in RetryDelays(Absent) /\ Absent \in Int
            BY <1>1, <2>2 DEF Unanswered, AttemptFailed, Finish, Absent
        <3>2. delay' \in 0..Cap /\ (delay' >= base \/ delay' = Cap)
            BY <1>1, <3>1, DelayBounds DEF CountInv
        <3> QED BY <1>1, <3>2 DEF CountInv
    <2>3. CASE Overloaded
        <3>1. PICK h \in Headers : delay' \in RetryDelays(RetryAfter(h))
            BY <1>1, <2>3 DEF Overloaded, AttemptFailed, Finish
        <3>2. PICK hint \in Int : hint = RetryAfter(h) /\ (hint = Absent \/ hint \in 0..Cap)
            BY HintBounds DEF Absent
        <3>3. /\ delay' \in 0..Cap
              /\ hint = Absent => delay' >= base \/ delay' = Cap
              /\ hint # Absent => delay' = CapDelay(hint)
            BY <1>1, <3>1, <3>2, DelayBounds DEF CountInv
        <3>4. hint # Absent => delay' = RetryAfter(h)
            BY <3>2, <3>3, CapDelayBounds
        <3> QED BY <1>1, <3>3, <3>4 DEF CountInv
    <2> QED BY <2>1, <2>2, <2>3
<1>2. CountInv /\ [Next]_vars =>
        [pc' = "sleep" /\ pc # "sleep" =>
          /\ delay' <= Cap
          /\ delay' < base => delay' = Cap \/ \E h \in Headers : RetryAfter(h) = delay']_vars
    BY <1>1
<1> QED BY <1>2, CountInvariant, PTL DEF Spec, BackoffBounded

-----------------------------------------------------------------------------
(* The response streamer. *)

(* The text opens with k pieces of white space, and no more. *)
Lead(text, k) ==
    /\ k \in 0..Len(text)
    /\ \A i \in 1..k : text[i] \in White
    /\ k < Len(text) => text[k + 1] \notin White

LEMMA LeadExists ==
    ASSUME NEW text \in Seq(Symbols)
    PROVE  \E k \in Nat : Lead(text, k)
<1>1. PICK n \in Nat : n = Len(text)
    OBVIOUS
<1> DEFINE Black == {k \in 0..n : k < n => text[k + 1] \notin White}
<1>2. n \in Black /\ Black \subseteq Nat
    OBVIOUS
<1>3. PICK k \in Black : \A j \in Black : k <= j
    BY <1>2, SmallestExists
<1>4. k \in 0..n /\ (k < n => text[k + 1] \notin White)
    OBVIOUS
<1>5. ASSUME NEW i \in 1..k PROVE text[i] \in White
    <2>1. PICK j \in 0..n : j + 1 = i /\ j < n /\ j < k
        BY <1>4
    <2>2. j \notin Black
        BY <1>3, <1>4, <2>1
    <2>3. ~(j < n => text[j + 1] \notin White)
        BY <2>1, <2>2
    <2> QED BY <2>1, <2>3
<1> QED BY <1>1, <1>4, <1>5 DEF Lead

LEMMA LeadTrims ==
    ASSUME NEW text \in Seq(Symbols), NEW k \in Nat, Lead(text, k)
    PROVE  TrimLeft(text) = Part(text, k, Len(text))
<1> DEFINE seen == {i \in DOMAIN text : text[i] \notin White}
<1>1. Len(text) \in Nat /\ DOMAIN text = 1..Len(text)
    OBVIOUS
<1>2. CASE k = Len(text)
    <2>1. seen = {}
        BY <1>1, <1>2 DEF Lead
    <2>2. /\ k + 1 \in Int /\ Len(text) \in Int /\ Len(text) < k + 1
        BY <1>1, <1>2
    <2>3. Part(text, k, Len(text)) = <<>>
        BY <2>2, SubSeqEmpty DEF Part
    <2> QED BY <2>1, <2>3 DEF TrimLeft
<1>3. CASE k < Len(text)
    <2>1. k + 1 \in seen /\ \A j \in seen : k + 1 <= j
        BY <1>1, <1>3 DEF Lead
    <2>2. \A i \in seen : i \in Int
        BY <1>1
    <2>3. (CHOOSE i \in seen : \A j \in seen : i <= j) = k + 1
        BY <2>1, <2>2
    <2>4. seen # {}
        BY <2>1
    <2> HIDE DEF seen
    <2>5. TrimLeft(text) =
              IF seen = {} THEN <<>>
              ELSE SubSeq(text, CHOOSE i \in seen : \A j \in seen : i <= j, Len(text))
        BY DEF TrimLeft, seen
    <2>6. TrimLeft(text) = SubSeq(text, CHOOSE i \in seen : \A j \in seen : i <= j, Len(text))
        BY <2>4, <2>5, Zenon
    <2> QED BY <2>3, <2>6, Zenon DEF Part
<1>4. k = Len(text) \/ k < Len(text)
    <2>1. PICK n \in Nat : n = Len(text)
        BY <1>1
    <2>2. k <= n
        BY <2>1 DEF Lead
    <2> QED BY <2>1, <2>2
<1> QED BY <1>2, <1>3, <1>4

(* What is left over, piece by piece. *)
LEMMA TrimFacts ==
    ASSUME NEW text \in Seq(Symbols), NEW k \in Nat, Lead(text, k)
    PROVE  /\ Len(text) \in Nat /\ k <= Len(text) /\ TrimLeft(text) \in Seq(Symbols)
           /\ Cuts(TrimLeft(text), text, k, Len(text))
<1>1. Len(text) \in Nat /\ Len(text) <= Len(text)
    OBVIOUS
<1>2. k <= Len(text)
    BY <1>1 DEF Lead
<1>3. TrimLeft(text) = Part(text, k, Len(text))
    BY LeadTrims
<1>4. Part(text, k, Len(text)) \in Seq(Symbols) /\ Cuts(Part(text, k, Len(text)), text, k, Len(text))
    BY <1>1, <1>2, PartFacts
<1> QED BY <1>1, <1>2, <1>3, <1>4

(* A beginning of the text, with its lead. *)
LEMMA LeadOfFront ==
    ASSUME NEW text \in Seq(Symbols), NEW k \in Nat, Lead(text, k),
           NEW m \in Nat, k <= m, m <= Len(text)
    PROVE  /\ Part(text, 0, m) \in Seq(Symbols) /\ Cuts(Part(text, 0, m), text, 0, m)
           /\ Lead(Part(text, 0, m), k)
<1>1. 0 \in Nat /\ 0 <= m /\ Len(text) \in Nat
    OBVIOUS
<1>2. PICK front \in Seq(Symbols) : front = Part(text, 0, m) /\ Cuts(front, text, 0, m)
    BY <1>1, PartFacts
<1>3. Len(front) = m /\ \A i \in 1..m : front[i] = text[i]
    BY <1>2 DEF Cuts
<1>4. Lead(front, k)
    BY <1>1, <1>3 DEF Lead
<1> QED BY <1>2, <1>4

(* What opens a fence or a marker is no white space, and a line end only ends
   it. *)
WordLike(w) ==
    /\ w \in Seq(Symbols) /\ Len(w) \in Nat \ {0}
    /\ w[1] \notin White
    /\ \A i \in 1..(Len(w) - 1) : w[i] # Newline

LEMMA FenceIsWord == WordLike(Fence) /\ Fence[1] = "tick"
<1>1. Len(Fence) = 3 /\ Fence[1] = "tick" /\ Fence[2] = "tick" /\ Fence[3] = "tick" /\ Fence \in Seq(Symbols)
    BY ModelCallAssumption DEF Fence
<1>2. \A i \in 1..(3 - 1) : i = 1 \/ i = 2
    OBVIOUS
<1> QED BY <1>1, <1>2 DEF WordLike, White, Newline, Return

LEMMA MarksAreWords ==
    ASSUME NEW mark \in DoneMarks
    PROVE  WordLike(mark) /\ mark # <<>> /\ mark[1] = "D"
<1>1. /\ Done \in Seq(Symbols) /\ <<Newline>> \in Seq(Symbols) /\ <<Return, Newline>> \in Seq(Symbols)
      /\ Len(Done) = 4 /\ Len(<<Newline>>) = 1 /\ Len(<<Return, Newline>>) = 2
      /\ <<Return, Newline>>[1] = Return
      /\ Done[1] = "D" /\ Done[2] = "O" /\ Done[3] = "N" /\ Done[4] = "E"
    BY ModelCallAssumption DEF Done
<1>2. PICK end \in {<<Newline>>, <<Return, Newline>>} : mark = Done \o end
    BY DEF DoneMarks
<1>3. end \in Seq(Symbols) /\ Len(end) \in {1, 2} /\ (Len(end) = 2 => end[1] = Return)
    BY <1>1, <1>2
<1>4. mark \in Seq(Symbols) /\ Joins(mark, Done, end)
    BY <1>1, <1>2, <1>3, ConcatFacts
<1>5. PICK e \in {1, 2} : e = Len(end) /\ (e = 2 => end[1] = Return)
    BY <1>3
<1>6. /\ Len(mark) = 4 + e
      /\ \A i \in 1..4 : mark[i] = Done[i]
      /\ \A i \in 1..e : mark[4 + i] = end[i]
    BY <1>1, <1>4, <1>5 DEF Joins
<1>7. ASSUME NEW i \in 1..(4 + e - 1) PROVE mark[i] \in {"D", "O", "N", "E", Return}
    <2>1. i \in 1..4 \/ (i = 5 /\ e = 2)
        BY <1>5, SMTT(30)
    <2>2. CASE i \in 1..4
        <3>1. mark[i] = Done[i] /\ (i = 1 \/ i = 2 \/ i = 3 \/ i = 4)
            BY <1>6, <2>2
        <3> QED BY <1>1, <3>1
    <2>3. CASE i = 5 /\ e = 2
        <3>1. 1 \in 1..e /\ 4 + 1 = i
            BY <2>3
        <3>2. mark[i] = end[1]
            BY <1>6, <3>1
        <3> QED BY <1>5, <2>3, <3>2
    <2> QED BY <2>1, <2>2, <2>3
<1>8. Newline \notin {"D", "O", "N", "E", Return} /\ "D" \notin White
    BY DEF Newline, Return, White
<1>9. mark[1] = "D" /\ Len(mark) \in Nat \ {0} /\ mark # <<>>
    <2>1. 1 \in 1..4
        OBVIOUS
    <2>2. mark[1] = "D"
        BY <1>1, <1>6, <2>1
    <2>3. Len(mark) \in Nat \ {0}
        BY <1>5, <1>6
    <2> QED BY <1>4, <2>2, <2>3, EmptySeq
<1> QED BY <1>4, <1>6, <1>7, <1>8, <1>9 DEF WordLike

(* A beginning, character by character. *)
LEMMA PrefixMeans ==
    ASSUME NEW w \in Seq(Symbols), NEW s \in Seq(Symbols)
    PROVE  IsPrefix(w, s) <=> Len(w) <= Len(s) /\ \A i \in 1..Len(w) : w[i] = s[i]
<1>1. Len(w) \in Nat /\ Len(s) \in Nat /\ 0 \in Nat /\ 0 <= Len(w)
    OBVIOUS
<1>2. SubSeq(w, 1, Len(w)) = w
    BY SubSeqFull
<1>3. CASE ~(Len(w) <= Len(s))
    BY <1>3 DEF IsPrefix
<1>4. CASE Len(w) <= Len(s)
    <2>1. PICK front \in Seq(Symbols) : front = Part(s, 0, Len(w)) /\ Cuts(front, s, 0, Len(w))
        BY <1>1, <1>4, PartFacts
    <2>2. Len(front) = Len(w) /\ \A i \in 1..Len(w) : front[i] = s[i]
        BY <1>1, <2>1 DEF Cuts
    <2>3. front = SubSeq(s, 1, Len(w))
        <3>1. 0 + 1 = 1
            OBVIOUS
        <3> QED BY <2>1, <3>1, Zenon DEF Part
    <2>4. IsPrefix(w, s) <=> w = front
        BY <1>2, <1>4, <2>3 DEF IsPrefix
    <2>5. w = front <=> \A i \in 1..Len(w) : w[i] = s[i]
        <3>1. ASSUME \A i \in 1..Len(w) : w[i] = s[i] PROVE w = front
            BY <2>2, <3>1, SeqEqual
        <3> QED BY <2>2, <3>1
    <2> QED BY <1>4, <2>4, <2>5
<1> QED BY <1>3, <1>4

\* The reply does not open with w, or w ends behind the hold-back.
Missed(text, w) ==
    \E k \in Nat : /\ Lead(text, k)
                   /\ \/ k + Len(w) > HoldBack
                      \/ \E i \in 1..Len(w) : k + i <= Len(text) /\ text[k + i] # w[i]

(* What was missed stays so when more is heard. *)
LEMMA MissedForGood ==
    ASSUME NEW text \in Seq(Symbols), NEW chunk \in Seq(Symbols), NEW w, Len(w) \in Nat, Missed(text, w)
    PROVE  Missed(text \o chunk, w)
<1>1. PICK k \in Nat : /\ Lead(text, k)
                       /\ \/ k + Len(w) > HoldBack
                          \/ \E i \in 1..Len(w) : k + i <= Len(text) /\ text[k + i] # w[i]
    BY DEF Missed
<1>2. PICK more \in Seq(Symbols) : more = text \o chunk /\ Joins(more, text, chunk)
    BY ConcatFacts
<1>3. PICK n \in Nat : n = Len(text)
    OBVIOUS
<1>4. PICK l \in Nat : l = Len(w)
    OBVIOUS
<1>5. Len(more) \in Nat /\ n <= Len(more) /\ \A i \in 1..n : more[i] = text[i]
    <2>1. Len(chunk) \in Nat
        OBVIOUS
    <2> QED BY <1>2, <1>3, <2>1 DEF Joins
<1>6. k <= n /\ (\A i \in 1..k : text[i] \in White) /\ (k < n => text[k + 1] \notin White)
    BY <1>1, <1>3 DEF Lead
<1>7. CASE k < n
    <2>1. k + 1 \in 1..n /\ k < Len(more) /\ k \in 0..Len(more)
        BY <1>5, <1>7
    <2>2. more[k + 1] = text[k + 1] /\ \A i \in 1..k : more[i] = text[i]
        <3>1. \A i \in 1..k : i \in 1..n
            BY <1>6
        <3> QED BY <1>5, <2>1, <3>1
    <2>3. Lead(more, k)
        BY <1>6, <1>7, <2>1, <2>2 DEF Lead
    <2>4. ASSUME NEW i \in 1..l, k + i <= n, text[k + i] # w[i]
          PROVE  k + i <= Len(more) /\ more[k + i] # w[i]
        <3>1. k + i \in 1..n
            BY <2>4
        <3> QED BY <1>5, <2>4, <3>1
    <2> QED BY <1>1, <1>2, <1>3, <1>4, <2>3, <2>4 DEF Missed
<1>8. CASE k = n
    <2>1. PICK j \in Nat : Lead(more, j)
        BY <1>2, LeadExists
    <2>2. k <= j
        <3> SUFFICES ASSUME j < k PROVE FALSE
            OBVIOUS
        <3>1. j + 1 \in 1..k /\ j + 1 \in 1..n /\ j < Len(more)
            BY <1>5, <1>8
        <3>2. text[j + 1] \in White
            BY <1>6, <3>1
        <3>3. more[j + 1] \notin White
            BY <2>1, <3>1 DEF Lead
        <3> QED BY <1>5, <3>1, <3>2, <3>3
    <2>3. k + l > HoldBack
        <3>1. ~\E i \in 1..l : k + i <= n
            BY <1>8
        <3> QED BY <1>1, <1>3, <1>4, <3>1
    <2>4. j + l > HoldBack
        BY <2>2, <2>3, ModelCallAssumption
    <2> QED BY <1>2, <1>4, <2>1, <2>4 DEF Missed
<1> QED BY <1>6, <1>7, <1>8

(* A word that was missed does not open the reply within the hold-back. *)
LEMMA MissedMeans ==
    ASSUME NEW text \in Seq(Symbols), NEW w \in Seq(Symbols), Missed(text, w),
           IsPrefix(w, TrimLeft(text)), Len(text) - Len(TrimLeft(text)) + Len(w) <= HoldBack
    PROVE  FALSE
<1>1. PICK k \in Nat : /\ Lead(text, k)
                       /\ \/ k + Len(w) > HoldBack
                          \/ \E i \in 1..Len(w) : k + i <= Len(text) /\ text[k + i] # w[i]
    BY DEF Missed
<1>2. PICK body \in Seq(Symbols) : body = TrimLeft(text) /\ Cuts(body, text, k, Len(text))
    BY <1>1, TrimFacts
<1>3. PICK n \in Nat : n = Len(text) /\ k <= n
    BY <1>1, TrimFacts
<1>4. PICK l \in Nat : l = Len(w)
    OBVIOUS
<1>5. Len(body) = n - k /\ \A i \in 1..(n - k) : body[i] = text[k + i]
    BY <1>2, <1>3 DEF Cuts
<1>6. l <= n - k /\ \A i \in 1..l : w[i] = body[i]
    BY <1>2, <1>4, <1>5, PrefixMeans
<1>7. n - (n - k) + l <= HoldBack
    BY <1>2, <1>3, <1>4, <1>5
<1>8. ~(k + l > HoldBack)
    BY <1>3, <1>7, ModelCallAssumption
<1>9. PICK i \in 1..l : k + i <= n /\ text[k + i] # w[i]
    BY <1>1, <1>3, <1>4, <1>8
<1>10. i \in 1..(n - k)
    BY <1>6, <1>9
<1> QED BY <1>5, <1>6, <1>9, <1>10

(* When the streamer can wait no longer, every word that does not open what it
   has is missed. *)
LEMMA FirstMissed ==
    ASSUME NEW text \in Seq(Symbols), NEW w, WordLike(w),
           ~IsPrefix(w, TrimLeft(text)), ~Undecided(text, TrimLeft(text))
    PROVE  Missed(text, w)
<1>1. PICK k \in Nat : Lead(text, k)
    BY LeadExists
<1>2. PICK body \in Seq(Symbols) : body = TrimLeft(text) /\ Cuts(body, text, k, Len(text))
    BY <1>1, TrimFacts
<1>3. PICK n \in Nat : n = Len(text) /\ k <= n
    BY <1>1, TrimFacts
<1>4. PICK l \in Nat : l = Len(w)
    BY DEF WordLike
<1>5. Len(body) = n - k /\ \A i \in 1..(n - k) : body[i] = text[k + i]
    BY <1>2, <1>3 DEF Cuts
<1>6. CASE \E i \in 1..l : k + i <= n /\ text[k + i] # w[i]
    BY <1>1, <1>3, <1>4, <1>6 DEF Missed
<1>7. CASE \A i \in 1..l : k + i <= n => text[k + i] = w[i]
    <2>1. \A i \in 1..l : i <= n - k => body[i] = w[i]
        <3> SUFFICES ASSUME NEW i \in 1..l, i <= n - k PROVE body[i] = w[i]
            OBVIOUS
        <3>1. i \in 1..(n - k) /\ k + i <= n
            BY <1>3
        <3> QED BY <1>5, <1>7, <3>1
    <2>2. n - k < l
        <3> SUFFICES ASSUME l <= n - k PROVE FALSE
            BY <1>3
        <3>1. \A i \in 1..l : w[i] = body[i]
            BY <1>3, <2>1
        <3>2. w \in Seq(Symbols)
            BY DEF WordLike
        <3> QED BY <1>2, <1>4, <1>5, <3>1, <3>2, PrefixMeans
    <2>3. Newline \notin ToSet(body)
        <3> SUFFICES ASSUME Newline \in ToSet(body) PROVE FALSE
            OBVIOUS
        <3>1. PICK i \in 1..(n - k) : body[i] = Newline
            BY <1>2, <1>5 DEF ToSet
        <3>2. i \in 1..(l - 1) /\ i \in 1..l /\ i <= n - k
            BY <2>2
        <3>3. w[i] = Newline
            BY <2>1, <3>1, <3>2
        <3> QED BY <1>4, <3>2, <3>3 DEF WordLike
    <2>4. ~(n < HoldBack)
        BY <1>2, <1>3, <2>3 DEF Undecided
    <2>5. k + l > HoldBack
        BY <1>3, <2>2, <2>4, ModelCallAssumption
    <2> QED BY <1>1, <1>4, <2>5 DEF Missed
<1> QED BY <1>6, <1>7

(* A reply that opens with a marker opens with no fence. *)
LEMMA MarkedMissesFence ==
    ASSUME NEW text \in Seq(Symbols), NEW mark \in DoneMarks, IsPrefix(mark, TrimLeft(text))
    PROVE  Missed(text, Fence)
<1>1. PICK k \in Nat : Lead(text, k)
    BY LeadExists
<1>2. PICK body \in Seq(Symbols) : body = TrimLeft(text) /\ Cuts(body, text, k, Len(text))
    BY <1>1, TrimFacts
<1>3. PICK n \in Nat : n = Len(text) /\ k <= n
    BY <1>1, TrimFacts
<1>4. Len(body) = n - k /\ \A i \in 1..(n - k) : body[i] = text[k + i]
    BY <1>2, <1>3 DEF Cuts
<1>5. WordLike(mark) /\ mark[1] = "D"
    BY MarksAreWords
<1>6. PICK l \in Nat \ {0} : l = Len(mark)
    BY <1>5 DEF WordLike
<1>7. l <= n - k /\ \A i \in 1..l : mark[i] = body[i]
    <2>1. mark \in Seq(Symbols)
        BY <1>5 DEF WordLike
    <2> QED BY <1>2, <1>4, <1>6, <2>1, PrefixMeans
<1>8. 1 \in 1..l /\ 1 \in 1..(n - k) /\ k + 1 <= n
    BY <1>3, <1>6, <1>7
<1>9. text[k + 1] = "D"
    BY <1>4, <1>5, <1>7, <1>8
<1>10. Fence[1] = "tick" /\ Len(Fence) \in Nat \ {0}
    BY FenceIsWord DEF WordLike
<1>11. 1 \in 1..Len(Fence) /\ text[k + 1] # Fence[1]
    BY <1>9, <1>10
<1> QED BY <1>1, <1>3, <1>8, <1>11 DEF Missed

\* Of the text, shown is what follows white space and one marker at most, and
\* the marker if it can be told.
Hides(text, hidden) ==
    \/ TrimLeft(hidden) \in DoneMarks
    \/ TrimLeft(hidden) = <<>> /\ \A mark \in DoneMarks : Missed(text, mark)

Shows(text, shown) ==
    /\ shown \in Seq(Symbols)
    /\ \E hidden \in Seq(Symbols) : text = hidden \o shown /\ Hides(text, hidden)

ShownInv ==
    /\ heard \in Seq(Symbols) /\ emitted \in Seq(Symbols)
    /\ mode \in {"", "js", "final"}
    /\ mode # "final" => emitted = <<>>
    /\ mode = "final" => Shows(heard, emitted) /\ Missed(heard, Fence)

(* White space only, and white space before the marker. *)
LEMMA HiddenWhite ==
    ASSUME NEW text \in Seq(Symbols), NEW k \in Nat, Lead(text, k)
    PROVE  TrimLeft(Part(text, 0, k)) = <<>>
<1>1. k <= k /\ k <= Len(text)
    BY TrimFacts
<1>2. PICK front \in Seq(Symbols) : front = Part(text, 0, k) /\ Cuts(front, text, 0, k) /\ Lead(front, k)
    BY <1>1, LeadOfFront
<1>3. PICK rest \in Seq(Symbols) : rest = TrimLeft(front) /\ Cuts(rest, front, k, Len(front))
    BY <1>2, TrimFacts
<1>4. Len(front) = k /\ Len(rest) = 0
    BY <1>2, <1>3 DEF Cuts
<1>5. rest = <<>>
    BY <1>4, EmptySeq
<1> QED BY <1>2, <1>3, <1>5

LEMMA HiddenMarker ==
    ASSUME NEW text \in Seq(Symbols), NEW k \in Nat, Lead(text, k),
           NEW mark \in DoneMarks, IsPrefix(mark, TrimLeft(text))
    PROVE  k + Len(mark) <= Len(text) /\ TrimLeft(Part(text, 0, k + Len(mark))) = mark
<1>1. PICK prefix \in Seq(Symbols) : prefix = TrimLeft(text) /\ Cuts(prefix, text, k, Len(text))
    BY TrimFacts
<1>2. PICK n \in Nat : n = Len(text) /\ k <= n
    BY TrimFacts
<1>3. mark \in Seq(Symbols) /\ Len(mark) \in Nat
    BY MarksAreWords DEF WordLike
<1>4. PICK l \in Nat : l = Len(mark)
    BY <1>3
<1>5. Len(prefix) = n - k /\ \A i \in 1..(n - k) : prefix[i] = text[k + i]
    BY <1>1, <1>2 DEF Cuts
<1>6. l <= n - k /\ \A i \in 1..l : mark[i] = prefix[i]
    BY <1>1, <1>3, <1>4, <1>5, PrefixMeans
<1>7. k + l \in Nat /\ k <= k + l /\ k + l <= n
    BY <1>2, <1>6
<1>8. PICK front \in Seq(Symbols) :
          front = Part(text, 0, k + l) /\ Cuts(front, text, 0, k + l) /\ Lead(front, k)
    BY <1>2, <1>7, LeadOfFront
<1>9. Len(front) = k + l /\ \A i \in 1..(k + l) : front[i] = text[i]
    BY <1>7, <1>8 DEF Cuts
<1>10. PICK rest \in Seq(Symbols) : rest = TrimLeft(front) /\ Cuts(rest, front, k, Len(front))
    BY <1>8, TrimFacts
<1>11. Len(rest) = l /\ \A i \in 1..l : rest[i] = front[k + i]
    <2>1. (k + l) - k = l
        OBVIOUS
    <2> QED BY <1>9, <1>10, <2>1 DEF Cuts
<1>12. \A i \in 1..l : rest[i] = mark[i]
    <2> SUFFICES ASSUME NEW i \in 1..l PROVE rest[i] = mark[i]
        OBVIOUS
    <2>1. k + i \in 1..(k + l) /\ i \in 1..(n - k)
        BY <1>6
    <2>2. front[k + i] = text[k + i] /\ prefix[i] = text[k + i]
        BY <1>5, <1>9, <2>1
    <2> QED BY <1>6, <1>11, <2>2
<1>13. rest = mark
    BY <1>3, <1>4, <1>11, <1>12, SeqEqual
<1> QED BY <1>2, <1>4, <1>7, <1>8, <1>10, <1>13

LEMMA FrontHidden ==
    ASSUME NEW text \in Seq(Symbols), NEW m \in Nat, m <= Len(text), Hides(text, Part(text, 0, m))
    PROVE  Shows(text, Part(text, m, Len(text)))
<1>1. 0 \in Nat /\ 0 <= m /\ Len(text) \in Nat /\ Len(text) <= Len(text)
    OBVIOUS
<1>2. Part(text, 0, m) \in Seq(Symbols) /\ Part(text, m, Len(text)) \in Seq(Symbols)
    BY <1>1, PartFacts
<1>3. text = Part(text, 0, m) \o Part(text, m, Len(text))
    BY PartsMakeWhole
<1> QED BY <1>2, <1>3, Zenon DEF Shows

(* A reply that is shown for the first time. *)
LEMMA FirstShown ==
    ASSUME NEW text \in Seq(Symbols),
           Marked(TrimLeft(text)) \/ ~Undecided(text, TrimLeft(text))
    PROVE  Shows(text, IF Marked(TrimLeft(text)) THEN Unmarked(TrimLeft(text)) ELSE TrimLeft(text))
<1>1. PICK k \in Nat : Lead(text, k)
    BY LeadExists
<1>2. PICK prefix \in Seq(Symbols) : prefix = TrimLeft(text) /\ Cuts(prefix, text, k, Len(text))
    BY <1>1, TrimFacts
<1>3. prefix = Part(text, k, Len(text))
    BY <1>1, <1>2, LeadTrims
<1>4. Len(text) \in Nat /\ k <= Len(text) /\ Len(prefix) = Len(text) - k
    BY <1>1, <1>2, TrimFacts DEF Cuts
<1>5. CASE Marked(TrimLeft(text))
    <2>1. PICK mark \in Marks(prefix) : Unmarked(prefix) = SubSeq(prefix, Len(mark) + 1, Len(prefix))
        BY <1>2, <1>5, Zenon DEF Marked, Unmarked
    <2>2. mark \in DoneMarks /\ IsPrefix(mark, prefix)
        BY <2>1 DEF Marks
    <2>3. PICK l \in Nat : l = Len(mark)
        BY <2>2, MarksAreWords DEF WordLike
    <2>4. k + l <= Len(text) /\ TrimLeft(Part(text, 0, k + l)) = mark
        BY <1>1, <1>2, <2>2, <2>3, HiddenMarker
    <2>5. k + l \in Nat /\ Hides(text, Part(text, 0, k + l))
        BY <2>2, <2>4 DEF Hides
    <2>6. Shows(text, Part(text, k + l, Len(text)))
        BY <2>4, <2>5, FrontHidden
    <2>7. Part(Part(text, k, Len(text)), l, Len(text) - k) = Part(text, k + l, Len(text))
        BY <2>3, <2>4, PartLater
    <2>8. Unmarked(prefix) = Part(prefix, l, Len(prefix))
        BY <2>1, <2>3, Zenon DEF Part
    <2>9. Unmarked(prefix) = Part(text, k + l, Len(text))
        BY <1>3, <1>4, <2>7, <2>8, Zenon
    <2> QED BY <1>2, <1>5, <2>6, <2>9, Zenon
<1>6. CASE ~Marked(TrimLeft(text))
    <2>1. ASSUME NEW mark \in DoneMarks PROVE Missed(text, mark)
        <3>1. ~IsPrefix(mark, TrimLeft(text)) /\ WordLike(mark)
            BY <1>6, MarksAreWords DEF Marked, Marks
        <3> QED BY <1>6, <3>1, FirstMissed
    <2>2. Hides(text, Part(text, 0, k))
        BY <1>1, <2>1, HiddenWhite DEF Hides
    <2>3. Shows(text, Part(text, k, Len(text)))
        BY <1>4, <2>2, FrontHidden
    <2> QED BY <1>2, <1>3, <1>6, <2>3, Zenon
<1> QED BY <1>5, <1>6, Zenon

(* More of a reply that is being shown. *)
LEMMA MoreShown ==
    ASSUME NEW text \in Seq(Symbols), NEW shown, NEW chunk \in Seq(Symbols), Shows(text, shown)
    PROVE  Shows(text \o chunk, shown \o chunk)
<1>1. PICK hidden \in Seq(Symbols) : text = hidden \o shown /\ Hides(text, hidden)
    BY DEF Shows
<1>2. shown \in Seq(Symbols) /\ shown \o chunk \in Seq(Symbols)
    BY ConcatFacts DEF Shows
<1>3. (hidden \o shown) \o chunk = hidden \o (shown \o chunk)
    <2>1. \A a, b, c \in Seq(Symbols) : (a \o b) \o c = a \o (b \o c)
        BY ConcatAssociative, SMTT(30)
    <2> QED BY <1>1, <1>2, <2>1
<1>4. ASSUME NEW mark \in DoneMarks, Missed(text, mark) PROVE Missed(text \o chunk, mark)
    <2>1. Len(mark) \in Nat
        BY MarksAreWords DEF WordLike
    <2> QED BY <1>4, <2>1, MissedForGood
<1>5. Hides(text \o chunk, hidden)
    BY <1>1, <1>4 DEF Hides
<1> QED BY <1>1, <1>2, <1>3, <1>5, Zenon DEF Shows

(* One chunk. *)
LEMMA ChunkStep ==
    ASSUME ShownInv, NEW chunk \in Seq(Symbols), Hear(chunk)
    PROVE  ShownInv'
<1>1. /\ heard \in Seq(Symbols) /\ emitted \in Seq(Symbols) /\ mode \in {"", "js", "final"}
      /\ mode # "final" => emitted = <<>>
      /\ mode = "final" => Shows(heard, emitted) /\ Missed(heard, Fence)
    BY DEF ShownInv
<1>2. PICK text \in Seq(Symbols) : text = heard \o chunk
    BY <1>1, ConcatFacts
<1>3. heard' = text /\ mode' = Decide(text)
    BY <1>2 DEF Hear
<1>4. Decide(text) \in {"", "js", "final"}
    BY <1>1 DEF Decide
<1>5. CASE Decide(text) # "final"
    <2>1. mode # "final" /\ emitted' = emitted
        BY <1>2, <1>5 DEF Hear, Decide
    <2> QED BY <1>1, <1>3, <1>4, <1>5, <2>1 DEF ShownInv
<1>6. CASE Decide(text) = "final"
    <2>1. Shows(text, emitted') /\ Missed(text, Fence)
        <3>1. CASE mode = "final"
            <4>1. emitted' = emitted \o chunk
                BY <1>2, <1>6, <3>1 DEF Hear
            <4>2. Shows(text, emitted')
                BY <1>1, <1>2, <3>1, <4>1, MoreShown
            <4>3. Len(Fence) \in Nat
                BY FenceIsWord DEF WordLike
            <4>4. Missed(text, Fence)
                BY <1>1, <1>2, <3>1, <4>3, MissedForGood
            <4> QED BY <4>2, <4>4
        <3>2. CASE mode # "final"
            <4>1. emitted' = IF Marked(TrimLeft(text)) THEN Unmarked(TrimLeft(text)) ELSE TrimLeft(text)
                BY <1>2, <1>6, <3>2 DEF Hear
            <4>2. /\ ~Fenced(TrimLeft(text))
                  /\ Marked(TrimLeft(text)) \/ ~Undecided(text, TrimLeft(text))
                BY <1>1, <1>6, <3>2 DEF Decide
            <4>3. Missed(text, Fence)
                <5>1. CASE Marked(TrimLeft(text))
                    <6>1. PICK mark \in DoneMarks : IsPrefix(mark, TrimLeft(text))
                        BY <5>1 DEF Marked, Marks
                    <6> QED BY <6>1, MarkedMissesFence
                <5>2. CASE ~Undecided(text, TrimLeft(text))
                    BY <4>2, <5>2, FenceIsWord, FirstMissed DEF Fenced
                <5> QED BY <4>2, <5>1, <5>2
            <4>4. Shows(text, IF Marked(TrimLeft(text)) THEN Unmarked(TrimLeft(text)) ELSE TrimLeft(text))
                BY <4>2, FirstShown
            <4> QED BY <4>1, <4>3, <4>4, Zenon
        <3> QED BY <3>1, <3>2
    <2>2. emitted' \in Seq(Symbols)
        BY <2>1 DEF Shows
    <2>3. Shows(heard, emitted)' /\ Missed(heard, Fence)'
        BY <1>3, <2>1 DEF Shows, Hides, Missed, Lead
    <2> QED BY <1>3, <1>6, <2>2, <2>3 DEF ShownInv
<1> QED BY <1>5, <1>6

LEMMA TextStep ==
    ASSUME ShownInv, NEW text \in Seq(Symbols), HearText(text)
    PROVE  ShownInv'
<1>1. CASE text = <<>>
    <2>1. UNCHANGED streamerVars
        BY <1>1 DEF HearText
    <2> QED BY <2>1 DEF ShownInv, streamerVars, Shows, Hides, Missed, Lead
<1>2. CASE text # <<>>
    BY <1>2, ChunkStep DEF HearText
<1> QED BY <1>1, <1>2

LEMMA ShownStep == HeardInv /\ ShownInv /\ [Next]_vars => ShownInv'
<1> SUFFICES ASSUME HeardInv, ShownInv, [Next]_vars PROVE ShownInv'
    OBVIOUS
<1>1. CASE UNCHANGED streamerVars
    BY <1>1 DEF ShownInv, streamerVars, Shows, Hides, Missed, Lead
<1>2. CASE Delta
    <2>1. PICK text \in Texts : /\ IsStrictPrefix(content, text)
                                /\ Hear(SubSeq(text, Len(content) + 1, Len(text)))
        BY <1>2 DEF Delta
    <2>2. SubSeq(text, Len(content) + 1, Len(text)) \in Seq(Symbols)
        BY <2>1, DeltaFacts DEF HeardInv
    <2> QED BY <2>1, <2>2, ChunkStep
<1>3. CASE PlainBody
    <2>1. (\E text \in Texts : HearText(text)) \/ UNCHANGED streamerVars
        BY <1>3 DEF PlainBody
    <2> QED BY <1>1, <2>1, TextsAreSequences, TextStep
<1>4. CASE Completed
    <2>1. (\E text \in Texts : HearText(text)) \/ UNCHANGED streamerVars
        BY <1>4 DEF Completed
    <2> QED BY <1>1, <2>1, TextsAreSequences, TextStep
<1>5. UNCHANGED streamerVars \/ Delta \/ PlainBody \/ Completed
    BY DEF Next, Upstream, vars, Cancel, Unanswered, Overloaded, Rejected, Odd, Accepted,
           StreamEnds, StreamBreaks, OtherFrame, Wake, SleepCancelled
<1> QED BY <1>1, <1>2, <1>3, <1>4, <1>5

LEMMA ShownInvariant == Spec => []ShownInv
<1>1. Init => ShownInv
    <2> SUFFICES ASSUME Init PROVE ShownInv
        OBVIOUS
    <2>1. heard = <<>> /\ emitted = <<>> /\ mode = ""
        BY DEF Init
    <2>2. <<>> \in Seq(Symbols)
        OBVIOUS
    <2> QED BY <2>1, <2>2 DEF ShownInv
<1>2. Spec => []HeardInv
    BY InitHeardInv, NextStep, PTL DEF Spec
<1> QED BY <1>1, <1>2, ShownStep, PTL DEF Spec

(* For any hold-back and any chunks: what the user sees is the reply, less
   leading white space and one leading marker; a fence or a marker that opens it
   within the hold-back is never shown. *)
THEOREM ShowsTheReply == Spec => []ShownIsReply
<1>1. ShownInv => ShownIsReply
    <2> SUFFICES ASSUME ShownInv PROVE ShownIsReply
        OBVIOUS
    <2>1. ASSUME mode = "final"
          PROVE  /\ heard = SubSeq(heard, 1, Len(heard) - Len(emitted)) \o emitted
                 /\ Hides(heard, SubSeq(heard, 1, Len(heard) - Len(emitted)))
        <3>1. PICK hidden \in Seq(Symbols) : heard = hidden \o emitted /\ Hides(heard, hidden)
            BY <2>1 DEF ShownInv, Shows
        <3>2. emitted \in Seq(Symbols) /\ heard \in Seq(Symbols)
            BY DEF ShownInv
        <3>3. Joins(heard, hidden, emitted)
            BY <3>1, <3>2, ConcatFacts
        <3>4. PICK m \in Nat : m = Len(hidden) /\ Len(heard) - Len(emitted) = m /\ m <= Len(heard)
            <4>1. Len(hidden) \in Nat /\ Len(emitted) \in Nat /\ Len(heard) = Len(hidden) + Len(emitted)
                BY <3>2, <3>3 DEF Joins
            <4> QED BY <4>1
        <3>5. 0 \in Nat /\ 0 <= m
            OBVIOUS
        <3>6. PICK front \in Seq(Symbols) : front = Part(heard, 0, m) /\ Cuts(front, heard, 0, m)
            BY <3>2, <3>4, <3>5, PartFacts
        <3>7. Len(front) = Len(hidden) /\ \A i \in 1..Len(front) : front[i] = hidden[i]
            <4>1. Len(front) = m /\ \A i \in 1..m : front[i] = heard[i]
                BY <3>6 DEF Cuts
            <4> QED BY <3>3, <3>4, <4>1 DEF Joins
        <3>8. front = hidden
            BY <3>6, <3>7, SeqEqual
        <3>9. SubSeq(heard, 1, m) = Part(heard, 0, m)
            <4>1. 0 + 1 = 1
                OBVIOUS
            <4> QED BY <4>1, Zenon DEF Part
        <3> QED BY <3>1, <3>4, <3>6, <3>8, <3>9, Zenon
    <2>2. ASSUME NEW w \in Seq(Symbols), Missed(heard, w)
          PROVE  ~(IsPrefix(w, TrimLeft(heard)) /\ Len(heard) - Len(TrimLeft(heard)) + Len(w) <= HoldBack)
        BY <2>2, MissedMeans DEF ShownInv
    <2>3. mode # "final" => emitted = <<>>
        BY DEF ShownInv
    <2>4. ASSUME mode = "final"
          PROVE  ~(IsPrefix(Fence, TrimLeft(heard)) /\ Len(heard) - Len(TrimLeft(heard)) + Len(Fence) <= HoldBack)
        BY <2>2, <2>4, FenceIsWord DEF ShownInv, WordLike
    <2>5. ASSUME mode = "final", NEW mark \in DoneMarks, IsPrefix(mark, TrimLeft(heard)),
                 Len(heard) - Len(TrimLeft(heard)) + Len(mark) <= HoldBack
          PROVE  TrimLeft(SubSeq(heard, 1, Len(heard) - Len(emitted))) # <<>>
        <3>1. ~Missed(heard, mark)
            BY <2>2, <2>5, MarksAreWords DEF WordLike
        <3>2. TrimLeft(SubSeq(heard, 1, Len(heard) - Len(emitted))) \in DoneMarks
            BY <2>1, <2>5, <3>1 DEF Hides
        <3> QED BY <3>2, MarksAreWords
    <2>6. mode = "final" => TrimLeft(SubSeq(heard, 1, Len(heard) - Len(emitted))) \in {<<>>} \cup DoneMarks
        BY <2>1 DEF Hides
    <2> QED BY <2>1, <2>3, <2>4, <2>5, <2>6 DEF ShownIsReply
<1> QED BY <1>1, ShownInvariant, PTL
=============================================================================
