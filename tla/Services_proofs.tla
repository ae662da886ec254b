--------------------------- MODULE Services_proofs --------------------------
(***************************************************************************)
(* Theorems about the parts around the loop, for any suites, sessions,     *)
(* prompts and costs.  Each part has an inductive invariant of its own,    *)
(* which the composition carries for the part that was chosen.             *)
(***************************************************************************)
EXTENDS Services, Lists_proofs, FiniteSetTheorems, SequenceTheorems, TLAPS

-----------------------------------------------------------------------------
(* budget: what a prompt costs. *)

Message == [kind : B!Kinds, cost : Nat]

CostsOf(ms) == [i \in DOMAIN ms |-> ms[i].cost]

LEMMA CostsFacts ==
  ASSUME NEW ms \in Seq(Message)
  PROVE  /\ CostsOf(ms) \in Seq(Nat) /\ CostsOf(ms) \in Seq(Int) /\ Len(CostsOf(ms)) = Len(ms)
         /\ \A i \in 1..Len(ms) : CostsOf(ms)[i] = ms[i].cost
<1>1. Len(ms) \in Nat /\ DOMAIN ms = 1..Len(ms) /\ \A i \in 1..Len(ms) : ms[i].cost \in Nat
  <2>1. Len(ms) \in Nat /\ DOMAIN ms = 1..Len(ms) /\ \A i \in 1..Len(ms) : ms[i] \in Message
    BY LenProperties
  <2>2. \A m \in Message : m.cost \in Nat
    BY DEF Message
  <2> QED BY <2>1, <2>2
<1>2. CostsOf(ms) \in [1..Len(ms) -> Nat]
  BY <1>1 DEF CostsOf
<1>3. \A i \in 1..Len(ms) : CostsOf(ms)[i] = ms[i].cost
  BY <1>1 DEF CostsOf
<1> HIDE DEF CostsOf
<1> QED BY <1>1, <1>2, <1>3

LEMMA CostIsSum ==
  ASSUME NEW ms \in Seq(Message)
  PROVE  B!CostOf(ms) = SumOf(CostsOf(ms)) /\ B!CostOf(ms) \in Nat
<1>1. B!CostOf(ms) = SumOf(CostsOf(ms))
  BY DEF B!CostOf, B!SumOf, SumOf, CostsOf
<1>2. SumOf(CostsOf(ms)) \in Nat
  BY CostsFacts, SumNotNegative
<1> QED BY <1>1, <1>2

LEMMA CostConcat ==
  ASSUME NEW a \in Seq(Message), NEW b \in Seq(Message)
  PROVE  B!CostOf(a \o b) = B!CostOf(a) + B!CostOf(b)
<1>1. PICK c \in Seq(Message) : c = a \o b /\ Joins(c, a, b)
  BY ConcatFacts
<1>2. /\ CostsOf(a) \in Seq(Int) /\ Len(CostsOf(a)) = Len(a)
      /\ \A i \in 1..Len(a) : CostsOf(a)[i] = a[i].cost
  BY CostsFacts
<1>3. /\ CostsOf(b) \in Seq(Int) /\ Len(CostsOf(b)) = Len(b)
      /\ \A i \in 1..Len(b) : CostsOf(b)[i] = b[i].cost
  BY CostsFacts
<1>4. /\ CostsOf(c) \in Seq(Int) /\ Len(CostsOf(c)) = Len(c)
      /\ \A i \in 1..Len(c) : CostsOf(c)[i] = c[i].cost
  BY <1>1, CostsFacts
<1>5. PICK m \in Nat, n \in Nat : m = Len(a) /\ n = Len(b)
  OBVIOUS
<1>6. /\ Len(c) = m + n /\ \A i \in 1..m : c[i] = a[i]
      /\ \A i \in 1..n : c[m + i] = b[i]
  BY <1>1, <1>5 DEF Joins
<1>7. Joins(CostsOf(c), CostsOf(a), CostsOf(b))
  <2>1. ASSUME NEW i \in 1..m PROVE CostsOf(c)[i] = CostsOf(a)[i]
    <3>1. i \in 1..Len(c)
      BY <1>6
    <3> QED BY <1>2, <1>4, <1>5, <1>6, <3>1
  <2>2. ASSUME NEW i \in 1..n PROVE CostsOf(c)[m + i] = CostsOf(b)[i]
    <3>1. m + i \in 1..Len(c)
      BY <1>6
    <3> QED BY <1>3, <1>4, <1>5, <1>6, <3>1
  <2> QED BY <1>2, <1>3, <1>4, <1>5, <1>6, <2>1, <2>2 DEF Joins
<1>8. CostsOf(c) = CostsOf(a) \o CostsOf(b)
  BY <1>2, <1>3, <1>4, <1>7, JoinsUnique
<1>9. SumOf(CostsOf(c)) = SumOf(CostsOf(a)) + SumOf(CostsOf(b))
  BY <1>2, <1>3, <1>8, SumConcat
<1> QED BY <1>1, <1>9, CostIsSum

LEMMA CostOne ==
  ASSUME NEW m \in Message
  PROVE  B!CostOf(<<m>>) = m.cost
<1>1. <<m>> \in Seq(Message) /\ m.cost \in Int /\ <<>> \in Seq(Int)
  BY DEF Message
<1>2. CostsOf(<<m>>) = Append(<<>>, m.cost)
  BY DEF CostsOf
<1>3. SumOf(Append(<<>>, m.cost)) = SumOf(<<>>) + m.cost
  BY <1>1, SumAppend
<1>4. B!CostOf(<<m>>) = SumOf(CostsOf(<<m>>))
  BY <1>1, CostIsSum
<1>5. 0 + m.cost = m.cost
  BY <1>1
<1> QED BY <1>2, <1>3, <1>4, <1>5, SumEmpty

LEMMA CostNone == B!CostOf(<<>>) = 0
<1>1. <<>> \in Seq(Message)
  OBVIOUS
<1>2. CostsOf(<<>>) = <<>>
  BY DEF CostsOf
<1> QED BY <1>1, <1>2, SumEmpty, CostIsSum

\* What lies from message k up to the last one.
Between(ms, k) == B!CostOf(Part(ms, k - 1, Len(ms) - 1))

(* The whole prompt: its first and last message and what lies between. *)
LEMMA WholeCost ==
  ASSUME NEW ms \in Seq(Message), Len(ms) >= 2
  PROVE  B!CostOf(ms) = B!Floor(ms) + Between(ms, 2) /\ B!Floor(ms) \in Nat
<1>1. PICK n \in Nat : n = Len(ms) /\ n >= 2
  OBVIOUS
<1>2. 0 \in Nat /\ 1 \in Nat /\ n - 1 \in Nat /\ 0 <= 1 /\ 1 <= n - 1 /\ n - 1 <= n /\ n <= Len(ms) /\ 1 <= n /\ 0 <= n
  BY <1>1
<1>3. PICK p \in Seq(Message) : p = Part(ms, 0, n) /\ Cuts(p, ms, 0, n)
  BY <1>1, <1>2, PartFacts
<1>4. p = ms
  <2>1. Len(p) = n /\ \A i \in 1..n : p[i] = ms[i]
    BY <1>3 DEF Cuts
  <2> QED BY <1>1, <1>3, <2>1, SeqEqual
<1>5. p = Part(ms, 0, 1) \o Part(ms, 1, n)
  <2>1. Splits(ms, 0, 1, n)
    BY <1>1, <1>2, PartSplit
  <2> QED BY <1>3, <2>1 DEF Splits
<1>6. Part(ms, 1, n) = Part(ms, 1, n - 1) \o Part(ms, n - 1, n)
  <2>1. Splits(ms, 1, n - 1, n)
    BY <1>1, <1>2, PartSplit
  <2> QED BY <2>1 DEF Splits
<1>7. Part(ms, 0, 1) = <<ms[1]>>
  <2>1. 0 + 1 = 1 /\ 0 + 1 <= Len(ms)
    BY <1>1
  <2>2. Part(ms, 0, 0 + 1) = <<ms[0 + 1]>>
    BY <1>2, <2>1, PartOne
  <2> QED BY <2>1, <2>2
<1>8. Part(ms, n - 1, n) = <<ms[n]>>
  <2>1. (n - 1) + 1 = n /\ (n - 1) + 1 <= Len(ms)
    BY <1>1
  <2>2. Part(ms, n - 1, (n - 1) + 1) = <<ms[(n - 1) + 1]>>
    BY <1>2, <2>1, PartOne
  <2> QED BY <2>1, <2>2
<1>9. /\ Part(ms, 0, 1) \in Seq(Message) /\ Part(ms, 1, n) \in Seq(Message)
      /\ Part(ms, 1, n - 1) \in Seq(Message) /\ Part(ms, n - 1, n) \in Seq(Message)
  BY <1>1, <1>2, PartFacts
<1>10. ms[1] \in Message /\ ms[n] \in Message
  BY <1>1
<1>11. B!CostOf(p) = B!CostOf(Part(ms, 0, 1)) + B!CostOf(Part(ms, 1, n))
  BY <1>5, <1>9, CostConcat
<1>12. B!CostOf(Part(ms, 1, n)) = B!CostOf(Part(ms, 1, n - 1)) + B!CostOf(Part(ms, n - 1, n))
  BY <1>6, <1>9, CostConcat
<1>13. B!CostOf(Part(ms, 0, 1)) = ms[1].cost /\ B!CostOf(Part(ms, n - 1, n)) = ms[n].cost
  BY <1>7, <1>8, <1>10, CostOne
<1>14. PICK b \in Nat : b = B!CostOf(Part(ms, 1, n - 1))
  BY <1>9, CostIsSum
<1>15. Between(ms, 2) = b
  <2>1. 2 - 1 = 1
    OBVIOUS
  <2> QED BY <1>1, <1>14, <2>1 DEF Between
<1>16. PICK first \in Nat, last \in Nat : first = ms[1].cost /\ last = ms[n].cost
  BY <1>10 DEF Message
<1>17. B!Floor(ms) = first + last
  BY <1>1, <1>16 DEF B!Floor
<1> QED BY <1>4, <1>11, <1>12, <1>13, <1>14, <1>15, <1>16, <1>17, SMTT(30)

(* The later a cut, the less it keeps. *)
LEMMA BetweenFalls ==
  ASSUME NEW ms \in Seq(Message), NEW j \in Nat, NEW k \in Nat, 1 <= j, j <= k, k <= Len(ms)
  PROVE  /\ Between(ms, j) \in Nat /\ Between(ms, k) \in Nat
         /\ Between(ms, k) <= Between(ms, j)
<1>1. PICK n \in Nat : n = Len(ms) - 1 /\ k - 1 <= n /\ n <= Len(ms)
  <2>1. PICK l \in Nat : l = Len(ms)
    OBVIOUS
  <2> QED BY <2>1
<1>2. PICK a \in Nat, b \in Nat : a = j - 1 /\ b = k - 1 /\ a <= b /\ b <= n /\ a <= n /\ b <= Len(ms)
  BY <1>1
<1>3. Part(ms, a, n) = Part(ms, a, b) \o Part(ms, b, n)
  <2>1. Splits(ms, a, b, n)
    BY <1>1, <1>2, PartSplit
  <2> QED BY <2>1 DEF Splits
<1>4. /\ Part(ms, a, b) \in Seq(Message) /\ Part(ms, b, n) \in Seq(Message)
      /\ Part(ms, a, n) \in Seq(Message)
  BY <1>1, <1>2, PartFacts
<1>5. B!CostOf(Part(ms, a, n)) = B!CostOf(Part(ms, a, b)) + B!CostOf(Part(ms, b, n))
  BY <1>3, <1>4, CostConcat
<1>6. /\ B!CostOf(Part(ms, a, b)) \in Nat /\ B!CostOf(Part(ms, b, n)) \in Nat
      /\ B!CostOf(Part(ms, a, n)) \in Nat
  BY <1>4, CostIsSum
<1>7. Between(ms, j) = B!CostOf(Part(ms, a, n)) /\ Between(ms, k) = B!CostOf(Part(ms, b, n))
  BY <1>1, <1>2 DEF Between
<1> QED BY <1>5, <1>6, <1>7

-----------------------------------------------------------------------------
(* budget: what fit keeps. *)

LEMMA LeastOf ==
  ASSUME NEW S, S \subseteq Nat, S # {}
  PROVE  B!Min(S) \in S /\ \A y \in S : B!Min(S) <= y
<1>1. \E x \in S : \A y \in S : x <= y
  BY SmallestExists
<1> QED BY <1>1 DEF B!Min

LEMMA BudgetNumbers ==
  /\ PromptAllowance \in Nat \ {0} /\ SystemCost \in Nat \ {0} /\ MarkerCost \in Nat \ {0}
  /\ WideCount \in Nat \ {0} /\ ElidedCost \in Nat \ {0} /\ Costs \subseteq Nat
BY BudgetAssumption

LEMMA MarkerFacts ==
  ASSUME NEW n \in Nat, NEW m \in Nat, m <= n
  PROVE  /\ B!Marker(n) \in Message /\ B!Marker(n).kind = "dropped" /\ B!Marker(n).cost \in Nat
         /\ B!Marker(m) \in Message /\ B!Marker(m).kind = "dropped" /\ B!Marker(m).cost \in Nat
         /\ B!Marker(m).cost <= B!Marker(n).cost /\ B!Marker(n).cost <= B!Marker(m).cost + 1
<1>1. MarkerCost \in Nat /\ WideCount \in Nat
  BY BudgetNumbers
<1>2. \A c \in Nat : /\ B!Msg("dropped", c) \in Message
                     /\ B!Msg("dropped", c).kind = "dropped" /\ B!Msg("dropped", c).cost = c
  BY DEF B!Msg, Message, B!Kinds
<1>3. PICK a \in Nat, b \in Nat :
        /\ a = (IF n < WideCount THEN MarkerCost ELSE MarkerCost + 1)
        /\ b = (IF m < WideCount THEN MarkerCost ELSE MarkerCost + 1)
  BY <1>1
<1>4. b <= a /\ a <= b + 1
  BY <1>1, <1>3
<1>5. B!Marker(n) = B!Msg("dropped", a) /\ B!Marker(m) = B!Msg("dropped", b)
  BY <1>3 DEF B!Marker
<1> QED BY <1>2, <1>4, <1>5

LEMMA UsedIs ==
  ASSUME NEW ms \in Seq(Message), NEW k \in 2..Len(ms)
  PROVE  /\ B!Used(ms, k) = B!Floor(ms) + B!Marker(Len(ms)).cost + Between(ms, k)
         /\ B!Used(ms, k) \in Nat /\ Between(ms, k) \in Nat /\ B!Floor(ms) \in Nat
<1>1. (k - 1) + 1 = k /\ k \in Nat /\ 1 <= k /\ k <= Len(ms) /\ Len(ms) \in Nat /\ Len(ms) >= 2
  OBVIOUS
<1>2. SubSeq(ms, k, Len(ms) - 1) = Part(ms, k - 1, Len(ms) - 1)
  BY <1>1 DEF Part
<1>3. B!Floor(ms) \in Nat
  BY <1>1, WholeCost
<1>4. B!Marker(Len(ms)).cost \in Nat
  <2>1. Len(ms) <= Len(ms)
    BY <1>1
  <2> QED BY <1>1, <2>1, MarkerFacts
<1>5. Between(ms, k) \in Nat
  <2>1. k <= k
    BY <1>1
  <2> QED BY <1>1, <2>1, BetweenFalls
<1>6. B!Used(ms, k) = B!Floor(ms) + B!Marker(Len(ms)).cost + Between(ms, k)
  BY <1>2 DEF B!Used, Between
<1> QED BY <1>3, <1>4, <1>5, <1>6

(* The later the cut, the less is used. *)
LEMMA UsedFalls ==
  ASSUME NEW ms \in Seq(Message), NEW j \in 2..Len(ms), NEW k \in 2..Len(ms), j <= k
  PROVE  B!Used(ms, k) <= B!Used(ms, j)
<1>1. j \in Nat /\ k \in Nat /\ 1 <= j /\ k <= Len(ms) /\ Len(ms) \in Nat
  OBVIOUS
<1>2. Between(ms, k) <= Between(ms, j)
  BY <1>1, BetweenFalls
<1>3. PICK l \in Nat : l = Len(ms)
  BY <1>1
<1>4. PICK c \in Nat : c = B!Marker(Len(ms)).cost
  <2>1. Len(ms) <= Len(ms)
    BY <1>1
  <2> QED BY <1>1, <2>1, MarkerFacts
<1>5. /\ B!Used(ms, j) = B!Floor(ms) + c + Between(ms, j)
      /\ Between(ms, j) \in Nat /\ B!Floor(ms) \in Nat
  BY <1>4, UsedIs
<1>6. B!Used(ms, k) = B!Floor(ms) + c + Between(ms, k) /\ Between(ms, k) \in Nat
  BY <1>4, UsedIs
<1> QED BY <1>2, <1>5, <1>6

\* Where fit cuts.
Kept(ms) == B!SkipResults(ms, B!WalkBack(ms))

(* The walk back stops at the first message that does not fit, and the skip
   after it at the first that is no result: the cut is the earliest there is. *)
LEMMA KeptFacts ==
  ASSUME NEW ms \in Seq(Message), Len(ms) >= 3
  PROVE  /\ Kept(ms) \in 2..Len(ms)
         /\ Kept(ms) # Len(ms) => ms[Kept(ms)].kind # "result" /\ B!Used(ms, Kept(ms)) <= PromptAllowance
         /\ \A k \in 2..Len(ms) :
              ms[k].kind # "result" /\ B!Used(ms, k) <= PromptAllowance => Kept(ms) <= k
<1> DEFINE A == PromptAllowance
           Ok == {k \in 2..Len(ms) : \A j \in k..Len(ms) - 1 : B!Used(ms, j) <= A}
<1>1. PICK n \in Nat : n = Len(ms) /\ n >= 3
  OBVIOUS
<1>2. Ok \subseteq Nat /\ n \in Ok
  <2>1. n \in 2..Len(ms) /\ \A j \in n..Len(ms) - 1 : B!Used(ms, j) <= A
    BY <1>1
  <2>2. 2..Len(ms) \subseteq Nat
    BY <1>1
  <2> QED BY <2>1, <2>2, Zenon
<1>3. PICK w \in Ok : w = B!WalkBack(ms) /\ \A k \in Ok : w <= k
  <2>1. B!WalkBack(ms) = B!Min(Ok)
    BY DEF B!WalkBack
  <2>2. Ok # {}
    BY <1>2
  <2> HIDE DEF Ok
  <2> QED BY <1>2, <2>1, <2>2, LeastOf
<1>4. w \in 2..n /\ \A j \in w..n - 1 : B!Used(ms, j) <= A
  BY <1>1, <1>3
<1> DEFINE Stops == {j \in w..Len(ms) : j = Len(ms) \/ ms[j].kind # "result"}
<1>5. Stops \subseteq Nat /\ n \in Stops
  BY <1>1, <1>4
<1>6. PICK s \in Stops : s = Kept(ms) /\ \A j \in Stops : s <= j
  <2>1. Kept(ms) = B!Min(Stops)
    BY <1>3 DEF Kept, B!SkipResults
  <2>2. Stops # {}
    BY <1>5
  <2> HIDE DEF Stops
  <2> QED BY <1>5, <2>1, <2>2, LeastOf
<1>7. s \in w..n /\ (s = n \/ ms[s].kind # "result")
  BY <1>1, <1>6
<1>8. s \in 2..n
  BY <1>4, <1>7
<1>9. s # n => ms[s].kind # "result" /\ B!Used(ms, s) <= A
  <2>1. s # n => s \in w..n - 1
    BY <1>7
  <2> QED BY <1>4, <1>7, <2>1
<1>10. ASSUME NEW k \in 2..n, ms[k].kind # "result", B!Used(ms, k) <= A
       PROVE  s <= k
  <2>1. ASSUME NEW j \in k..n - 1 PROVE B!Used(ms, j) <= A
    <3>1. j \in 2..Len(ms) /\ k \in 2..Len(ms) /\ k <= j
      BY <1>1
    <3>2. B!Used(ms, j) <= B!Used(ms, k)
      BY <3>1, UsedFalls
    <3>3. B!Used(ms, j) \in Nat /\ B!Used(ms, k) \in Nat /\ A \in Nat
      BY <3>1, UsedIs, BudgetNumbers
    <3> HIDE DEF A
    <3> QED BY <1>10, <3>2, <3>3
  <2>2. k \in Ok
    BY <1>1, <2>1
  <2>3. w <= k
    BY <1>3, <2>2
  <2>4. k \in Stops
    BY <1>1, <1>4, <1>10, <2>3
  <2> QED BY <1>6, <2>4
<1> HIDE DEF Ok, Stops
<1> QED BY <1>1, <1>6, <1>8, <1>9, <1>10

-----------------------------------------------------------------------------
(* budget: the three outcomes of fit. *)

LEMMA FitShort ==
  ASSUME NEW ms \in Seq(Message), Len(ms) < 3
  PROVE  /\ B!Fit(ms).messages = ms /\ B!Fit(ms).dropped = 0 /\ B!Fit(ms).tokens = B!Floor(ms)
         /\ B!Fit(ms).over <=> B!Floor(ms) > PromptAllowance
BY DEF B!Fit

LEMMA FitWhole ==
  ASSUME NEW ms \in Seq(Message), Len(ms) >= 3, Kept(ms) = 2
  PROVE  /\ B!Fit(ms).messages = ms /\ B!Fit(ms).dropped = 0
         /\ B!Fit(ms).tokens = B!Used(ms, 2) - B!Marker(Len(ms)).cost
         /\ ~ B!Fit(ms).over
<1>1. ~ Len(ms) < 3
  OBVIOUS
<1> QED BY <1>1 DEF B!Fit, Kept

LEMMA FitCut ==
  ASSUME NEW ms \in Seq(Message), Len(ms) >= 3, Kept(ms) # 2
  PROVE  /\ B!Fit(ms).messages =
              <<ms[1], B!Marker(Kept(ms) - 2)>> \o SubSeq(ms, Kept(ms), Len(ms))
         /\ B!Fit(ms).dropped = Kept(ms) - 2
         /\ B!Fit(ms).tokens = B!Used(ms, Kept(ms))
         /\ B!Fit(ms).over <=> B!Used(ms, Kept(ms)) > PromptAllowance
<1>1. ~ Len(ms) < 3
  OBVIOUS
<1> QED BY <1>1 DEF B!Fit, Kept

-----------------------------------------------------------------------------
(* budget: what is sent, for any prompt. *)

\* From message m on, a result follows its script, elided or not.
Ordered(ms, m) ==
  \A i \in m..Len(ms) : ms[i].kind = "result" => ms[i - 1].kind \in {"script", "elided"}


\* The properties of what is sent, for a prompt and what fit made of it.
Fits(fit) ==
  /\ B!CostOf(fit.messages) > PromptAllowance => fit.over
  /\ fit.over => \A i \in DOMAIN fit.messages :
       i = 1 \/ i = Len(fit.messages) \/ fit.messages[i].kind = "dropped"

Honest(fit) ==
  /\ fit.tokens \in B!CostOf(fit.messages)..B!CostOf(fit.messages) + 1
  /\ fit.dropped = 0 => fit.tokens = B!CostOf(fit.messages)

Roomless(ms, fit) ==
  \A k \in 2..Len(ms) :
    /\ ms[k].kind # "result"
    /\ B!CostOf(<<ms[1], B!Marker(Len(ms))>> \o SubSeq(ms, k, Len(ms))) <= PromptAllowance
    => fit.dropped <= k - 2

Accompanied(fit) ==
  \A i \in 2..Len(fit.messages) - 1 : fit.messages[i].kind = "result" =>
    fit.messages[i - 1].kind \in {"script", "elided"}

Good(ms, fit) == Fits(fit) /\ Honest(fit) /\ Roomless(ms, fit) /\ Accompanied(fit)

LEMMA GoodShort ==
  ASSUME NEW ms \in Seq(Message), Len(ms) = 2
  PROVE  Good(ms, B!Fit(ms))
<1>1. PICK fit : fit = B!Fit(ms)
  OBVIOUS
<1>2. /\ fit.messages = ms /\ fit.dropped = 0 /\ fit.tokens = B!Floor(ms)
      /\ fit.over <=> B!Floor(ms) > PromptAllowance
  <2>1. Len(ms) < 3
    OBVIOUS
  <2> QED BY <1>1, <2>1, FitShort
<1>3. B!CostOf(ms) = B!Floor(ms) /\ B!Floor(ms) \in Nat
  <2>1. Len(ms) >= 2 /\ 1 \in Nat /\ 1 <= Len(ms) /\ 2 - 1 = 1 /\ Len(ms) - 1 = 1
    OBVIOUS
  <2>2. Part(ms, 1, 1) = <<>>
    BY <2>1, PartNone
  <2>3. Between(ms, 2) = 0
    BY <2>1, <2>2, CostNone DEF Between
  <2>4. B!CostOf(ms) = B!Floor(ms) + Between(ms, 2) /\ B!Floor(ms) \in Nat
    BY <2>1, WholeCost
  <2> QED BY <2>3, <2>4
<1>4. Fits(fit)
  <2>1. \A i \in DOMAIN ms : i = 1 \/ i = Len(ms)
    OBVIOUS
  <2> QED BY <1>2, <1>3, <2>1, BudgetNumbers DEF Fits
<1>5. Honest(fit)
  BY <1>2, <1>3 DEF Honest
<1>6. Roomless(ms, fit)
  <2>1. \A k \in 2..Len(ms) : 0 <= k - 2
    OBVIOUS
  <2> QED BY <1>2, <2>1 DEF Roomless
<1>7. Accompanied(fit)
  <2>1. 2..Len(ms) - 1 = {}
    OBVIOUS
  <2> QED BY <1>2, <2>1 DEF Accompanied
<1> QED BY <1>1, <1>4, <1>5, <1>6, <1>7 DEF Good

LEMMA GoodWhole ==
  ASSUME NEW ms \in Seq(Message), Len(ms) >= 3, Kept(ms) = 2, Ordered(ms, 3)
  PROVE  Good(ms, B!Fit(ms))
<1>1. PICK fit : fit = B!Fit(ms)
  OBVIOUS
<1>2. PICK n \in Nat : n = Len(ms) /\ n >= 3 /\ 2 \in 2..Len(ms)
  OBVIOUS
<1>3. PICK c \in Nat : c = B!Marker(Len(ms)).cost
  <2>1. Len(ms) \in Nat /\ Len(ms) <= Len(ms)
    BY <1>2
  <2> QED BY <2>1, MarkerFacts
<1>4. PICK f \in Nat, b \in Nat : f = B!Floor(ms) /\ b = Between(ms, 2)
  BY <1>2, UsedIs
<1>5. B!CostOf(ms) = f + b
  <2>1. Len(ms) >= 2
    BY <1>2
  <2> QED BY <1>4, <2>1, WholeCost
<1>6. B!Used(ms, 2) = f + c + b
  BY <1>2, <1>3, <1>4, UsedIs
<1>7. fit.messages = ms /\ fit.dropped = 0 /\ ~ fit.over /\ fit.tokens = f + b
  <2>1. (f + c + b) - c = f + b
    OBVIOUS
  <2>2. /\ fit.messages = ms /\ fit.dropped = 0 /\ ~ fit.over
        /\ fit.tokens = B!Used(ms, 2) - B!Marker(Len(ms)).cost
    BY <1>1, FitWhole
  <2> QED BY <1>3, <1>6, <2>1, <2>2
<1>8. B!Used(ms, 2) <= PromptAllowance /\ ms[2].kind # "result"
  BY <1>2, KeptFacts
<1>9. Fits(fit)
  <2>1. f + b <= PromptAllowance /\ PromptAllowance \in Nat
    BY <1>6, <1>8, BudgetNumbers
  <2> QED BY <1>5, <1>7, <2>1 DEF Fits
<1>10. Honest(fit)
  BY <1>5, <1>7 DEF Honest
<1>11. Roomless(ms, fit)
  <2>1. \A k \in 2..Len(ms) : 0 <= k - 2
    OBVIOUS
  <2> QED BY <1>7, <2>1 DEF Roomless
<1>12. Accompanied(fit)
  <2>1. ASSUME NEW i \in 2..n - 1, ms[i].kind = "result"
        PROVE  ms[i - 1].kind \in {"script", "elided"}
    <3>1. i # 2
      BY <1>8, <2>1
    <3>2. i \in 3..Len(ms)
      BY <1>2, <3>1
    <3> QED BY <2>1, <3>2 DEF Ordered
  <2> QED BY <1>2, <1>7, <2>1 DEF Accompanied
<1> QED BY <1>1, <1>9, <1>10, <1>11, <1>12 DEF Good

\* What a cut at message k keeps, behind the first message and a marker.
Behind(ms, m, k) == <<ms[1], B!Marker(m)>> \o SubSeq(ms, k, Len(ms))

LEMMA BehindFacts ==
  ASSUME NEW ms \in Seq(Message), NEW m \in Nat, NEW k \in Nat, 2 <= k, k <= Len(ms)
  PROVE  /\ Behind(ms, m, k) \in Seq(Message)
         /\ Len(Behind(ms, m, k)) = Len(ms) - k + 3
         /\ Behind(ms, m, k)[1] = ms[1] /\ Behind(ms, m, k)[2] = B!Marker(m)
         /\ \A i \in 1..Len(ms) - k + 1 : Behind(ms, m, k)[2 + i] = ms[i + k - 1]
         /\ B!CostOf(Behind(ms, m, k)) = B!Floor(ms) + B!Marker(m).cost + Between(ms, k)
<1>1. PICK n \in Nat : n = Len(ms) /\ k <= n /\ 2 <= n
  OBVIOUS
<1>2. PICK head \in Seq(Message) :
        /\ head = <<ms[1], B!Marker(m)>> /\ Len(head) = 2
        /\ head[1] = ms[1] /\ head[2] = B!Marker(m)
  <2>1. m <= m
    OBVIOUS
  <2>2. ms[1] \in Message /\ B!Marker(m) \in Message
    BY <1>1, <2>1, MarkerFacts
  <2>3. \A a, b \in Message : /\ <<a, b>> \in Seq(Message) /\ Len(<<a, b>>) = 2
                              /\ <<a, b>>[1] = a /\ <<a, b>>[2] = b
    OBVIOUS
  <2> QED BY <2>2, <2>3, ZenonT(30)
<1>3. PICK rest \in Seq(Message) :
        rest = SubSeq(ms, k, Len(ms)) /\ rest = Part(ms, k - 1, n) /\ Cuts(rest, ms, k - 1, n)
  <2>1. k - 1 \in Nat /\ k - 1 <= n /\ n <= Len(ms) /\ (k - 1) + 1 = k
    BY <1>1
  <2>2. Part(ms, k - 1, n) \in Seq(Message) /\ Cuts(Part(ms, k - 1, n), ms, k - 1, n)
    BY <2>1, PartFacts
  <2> QED BY <1>1, <2>1, <2>2 DEF Part
<1>4. Len(rest) = n - (k - 1) /\ \A i \in 1..n - (k - 1) : rest[i] = ms[(k - 1) + i]
  BY <1>3 DEF Cuts
<1>5. PICK all \in Seq(Message) : all = Behind(ms, m, k) /\ all = head \o rest /\ Joins(all, head, rest)
  BY <1>2, <1>3, ConcatFacts DEF Behind
<1>6. /\ Len(all) = 2 + Len(rest) /\ \A i \in 1..2 : all[i] = head[i]
      /\ \A i \in 1..Len(rest) : all[2 + i] = rest[i]
  BY <1>2, <1>5 DEF Joins
<1>7. Len(all) = n - k + 3 /\ all[1] = ms[1] /\ all[2] = B!Marker(m)
  BY <1>1, <1>2, <1>4, <1>6
<1>8. ASSUME NEW i \in 1..n - k + 1 PROVE all[2 + i] = ms[i + k - 1]
  <2>1. i \in 1..n - (k - 1) /\ (k - 1) + i = i + k - 1
    BY <1>1
  <2> QED BY <1>4, <1>6, <2>1
<1>9. B!CostOf(rest) = Between(ms, k) + ms[n].cost /\ Between(ms, k) \in Nat
  <2>1. /\ k - 1 \in Nat /\ n - 1 \in Nat /\ k - 1 <= n - 1 /\ n - 1 <= n /\ n <= Len(ms)
        /\ n - 1 <= Len(ms) /\ (n - 1) + 1 = n /\ (n - 1) + 1 <= Len(ms)
    BY <1>1
  <2>2. rest = Part(ms, k - 1, n - 1) \o Part(ms, n - 1, n)
    <3>1. Splits(ms, k - 1, n - 1, n)
      BY <1>1, <2>1, PartSplit
    <3> QED BY <1>3, <3>1 DEF Splits
  <2>3. Part(ms, n - 1, (n - 1) + 1) = <<ms[(n - 1) + 1]>>
    BY <2>1, PartOne
  <2>4. Part(ms, k - 1, n - 1) \in Seq(Message) /\ Part(ms, n - 1, n) \in Seq(Message)
    BY <1>1, <2>1, PartFacts
  <2>5. B!CostOf(rest) = B!CostOf(Part(ms, k - 1, n - 1)) + B!CostOf(Part(ms, n - 1, n))
    BY <2>2, <2>4, CostConcat
  <2>6. B!CostOf(Part(ms, n - 1, n)) = ms[n].cost
    <3>1. ms[n] \in Message
      BY <1>1
    <3> QED BY <2>1, <2>3, <3>1, CostOne
  <2>7. B!CostOf(Part(ms, k - 1, n - 1)) \in Nat
    BY <2>4, CostIsSum
  <2> QED BY <1>1, <2>5, <2>6, <2>7 DEF Between
<1>10. B!CostOf(head) = ms[1].cost + B!Marker(m).cost
  <2>1. ms[1] \in Message /\ B!Marker(m) \in Message
    <3>1. m <= m
      OBVIOUS
    <3> QED BY <1>1, <3>1, MarkerFacts
  <2>2. <<ms[1]>> \in Seq(Message) /\ <<B!Marker(m)>> \in Seq(Message)
    BY <2>1
  <2>3. head = <<ms[1]>> \o <<B!Marker(m)>>
    BY <1>2, <2>2
  <2>4. B!CostOf(head) = B!CostOf(<<ms[1]>>) + B!CostOf(<<B!Marker(m)>>)
    BY <2>2, <2>3, CostConcat
  <2> QED BY <2>1, <2>4, CostOne
<1>11. B!CostOf(all) = B!CostOf(head) + B!CostOf(rest)
  BY <1>5, CostConcat
<1>12. PICK first \in Nat, last \in Nat, c \in Nat :
         first = ms[1].cost /\ last = ms[n].cost /\ c = B!Marker(m).cost
  <2>1. m <= m
    OBVIOUS
  <2>2. ms[1] \in Message /\ ms[n] \in Message /\ B!Marker(m).cost \in Nat
    BY <1>1, <2>1, MarkerFacts
  <2> QED BY <2>2 DEF Message
<1>13. B!Floor(ms) = first + last
  BY <1>1, <1>12 DEF B!Floor
<1>14. B!CostOf(all) = B!Floor(ms) + B!Marker(m).cost + Between(ms, k)
  <2>1. PICK b \in Nat : b = Between(ms, k)
    BY <1>9
  <2>2. B!CostOf(all) = (first + c) + (b + last)
    BY <1>9, <1>10, <1>11, <1>12, <2>1
  <2>3. (first + c) + (b + last) = first + last + c + b
    OBVIOUS
  <2> QED BY <1>12, <1>13, <2>1, <2>2, <2>3
<1> QED BY <1>1, <1>5, <1>7, <1>8, <1>14

LEMMA GoodCut ==
  ASSUME NEW ms \in Seq(Message), Len(ms) >= 3, Kept(ms) # 2, Ordered(ms, 3)
  PROVE  Good(ms, B!Fit(ms))
<1>1. PICK fit : fit = B!Fit(ms)
  OBVIOUS
<1>2. PICK n \in Nat : n = Len(ms) /\ n >= 3
  OBVIOUS
<1>3. PICK k \in 3..n : k = Kept(ms)
  <2>1. Kept(ms) \in 2..Len(ms)
    BY KeptFacts
  <2> QED BY <1>2, <2>1
<1>4. k # n => ms[k].kind # "result" /\ B!Used(ms, k) <= PromptAllowance
  BY <1>2, <1>3, KeptFacts
<1>5. PICK all : all = Behind(ms, k - 2, k)
  OBVIOUS
<1>6. /\ fit.messages = all /\ fit.dropped = k - 2 /\ fit.tokens = B!Used(ms, k)
      /\ fit.over <=> B!Used(ms, k) > PromptAllowance
  BY <1>1, <1>3, <1>5, FitCut DEF Behind
<1>7. k \in Nat /\ k - 2 \in Nat /\ 2 <= k /\ k <= Len(ms) /\ k - 2 <= Len(ms) /\ Len(ms) \in Nat
  BY <1>2, <1>3
<1>8. /\ all \in Seq(Message) /\ Len(all) = Len(ms) - k + 3
      /\ all[1] = ms[1] /\ all[2] = B!Marker(k - 2)
      /\ \A i \in 1..Len(ms) - k + 1 : all[2 + i] = ms[i + k - 1]
      /\ B!CostOf(all) = B!Floor(ms) + B!Marker(k - 2).cost + Between(ms, k)
  BY <1>5, <1>7, BehindFacts, ZenonT(30)
<1>9. PICK f \in Nat, b \in Nat, c \in Nat, d \in Nat :
        /\ f = B!Floor(ms) /\ b = Between(ms, k) /\ c = B!Marker(Len(ms)).cost
        /\ d = B!Marker(k - 2).cost /\ d <= c /\ c <= d + 1
  <2>1. k \in 2..Len(ms)
    BY <1>7
  <2> QED BY <1>7, <2>1, UsedIs, MarkerFacts
<1>10. B!Used(ms, k) = f + c + b
  <2>1. k \in 2..Len(ms)
    BY <1>7
  <2> QED BY <1>9, <2>1, UsedIs
<1>11. B!CostOf(all) = f + d + b
  BY <1>8, <1>9
<1>12. PromptAllowance \in Nat
  BY BudgetNumbers
<1>13. Fits(fit)
  <2>1. B!CostOf(all) > PromptAllowance => fit.over
    <3>1. PICK g \in Nat : g = B!CostOf(all) /\ g = f + d + b
      BY <1>11
    <3>2. g <= f + c + b
      <4>1. d <= c
        BY <1>9
      <4> QED BY <3>1, <4>1
    <3>4. g > PromptAllowance => f + c + b > PromptAllowance
      BY <1>12, <3>2
    <3>3. B!CostOf(all) > PromptAllowance => f + c + b > PromptAllowance
      BY <3>1, <3>4
    <3> QED BY <1>6, <1>10, <3>3, Zenon
  <2>2. ASSUME fit.over, NEW i \in DOMAIN all
        PROVE  i = 1 \/ i = Len(all) \/ all[i].kind = "dropped"
    <3>1. k = n
      <4>1. f + c + b > PromptAllowance
        BY <1>6, <1>10, <2>2
      <4> QED BY <1>4, <1>10, <1>12, <4>1
    <3>2. Len(all) = 3 /\ DOMAIN all = 1..3
      BY <1>2, <1>8, <3>1
    <3>3. all[2].kind = "dropped"
      BY <1>7, <1>8, MarkerFacts
    <3> QED BY <2>2, <3>2, <3>3
  <2> QED BY <1>6, <2>1, <2>2 DEF Fits
<1>14. Honest(fit)
  <2>1. f + c + b \in (f + d + b)..(f + d + b) + 1
    BY <1>9, SMTT(30)
  <2>2. k - 2 # 0
    BY <1>3
  <2> QED BY <1>6, <1>10, <1>11, <2>1, <2>2 DEF Honest
<1>15. Roomless(ms, fit)
  <2>1. ASSUME NEW j \in 2..Len(ms), ms[j].kind # "result",
               B!CostOf(<<ms[1], B!Marker(Len(ms))>> \o SubSeq(ms, j, Len(ms))) <= PromptAllowance
        PROVE  fit.dropped <= j - 2
    <3>1. j \in Nat /\ 2 <= j /\ j <= Len(ms) /\ j \in 2..Len(ms) /\ Len(ms) \in Nat
      BY <1>2
    <3>2. B!CostOf(Behind(ms, Len(ms), j)) = B!Floor(ms) + B!Marker(Len(ms)).cost + Between(ms, j)
      BY <3>1, BehindFacts
    <3>3. B!CostOf(Behind(ms, Len(ms), j)) = B!Used(ms, j)
      BY <3>1, <3>2, UsedIs
    <3>4. B!Used(ms, j) <= PromptAllowance
      BY <2>1, <3>3 DEF Behind
    <3>5. k <= j
      BY <1>3, <2>1, <3>1, <3>4, KeptFacts
    <3> QED BY <1>6, <1>7, <3>1, <3>5
  <2> QED BY <2>1 DEF Roomless
<1>16. Accompanied(fit)
  <2>1. ASSUME NEW i \in 2..Len(all) - 1, all[i].kind = "result"
        PROVE  all[i - 1].kind \in {"script", "elided"}
    <3>1. i # 2
      <4>1. B!Marker(k - 2).kind # "result"
        BY <1>7, MarkerFacts
      <4> QED BY <1>8, <2>1, <4>1
    <3>2. PICK j \in Nat : j = i - 2 /\ j >= 1 /\ j <= n - k
      BY <1>2, <1>3, <1>8, <2>1, <3>1, SMTT(30)
    <3>3. k # n /\ j \in 1..Len(ms) - k + 1 /\ i = 2 + j
      BY <1>2, <1>3, <2>1, <3>2
    <3>4. all[i] = ms[j + k - 1]
      BY <1>8, <3>3
    <3>5. j # 1
      <4>1. 1 + k - 1 = k
        BY <1>3
      <4> QED BY <1>4, <2>1, <3>3, <3>4, <4>1
    <3>6. PICK h \in 1..Len(ms) - k + 1 : h = j - 1 /\ i - 1 = 2 + h
      BY <1>2, <3>2, <3>3, <3>5
    <3>7. all[i - 1] = ms[h + k - 1]
      BY <1>8, <3>6
    <3>8. j + k - 1 \in 3..Len(ms) /\ (j + k - 1) - 1 = h + k - 1
      BY <1>2, <1>3, <3>2, <3>5, <3>6, SMTT(30)
    <3>9. ms[(j + k - 1) - 1].kind \in {"script", "elided"}
      BY <2>1, <3>4, <3>8 DEF Ordered
    <3> QED BY <3>7, <3>8, <3>9
  <2> QED BY <1>6, <2>1 DEF Accompanied
<1> QED BY <1>1, <1>13, <1>14, <1>15, <1>16 DEF Good

LEMMA FitIsGood ==
  ASSUME NEW ms \in Seq(Message), Len(ms) >= 2, Ordered(ms, 3)
  PROVE  Good(ms, B!Fit(ms))
<1>1. CASE Len(ms) = 2
  BY <1>1, GoodShort
<1>2. CASE Len(ms) >= 3 /\ Kept(ms) = 2
  BY <1>2, GoodWhole
<1>3. CASE Len(ms) >= 3 /\ Kept(ms) # 2
  BY <1>3, GoodCut
<1>4. Len(ms) = 2 \/ Len(ms) >= 3
  <2>1. PICK l \in Nat : l = Len(ms)
    OBVIOUS
  <2>2. l >= 2
    BY <2>1
  <2>3. l = 2 \/ l >= 3
    BY <2>2
  <2> QED BY <2>1, <2>3
<1> QED BY <1>1, <1>2, <1>3, <1>4

-----------------------------------------------------------------------------
(* budget: the inductive invariant.  Results follow their script in the    *)
(* history, so they do in the prompt made of it.                           *)

BudgetInv ==
  /\ history \in Seq(Message) /\ Len(history) >= 1 /\ Ordered(history, 2)
  /\ digest \in Nat
  /\ \/ prompt = <<>> /\ sent = B!NotSent
     \/ /\ prompt \in Seq(Message) /\ Len(prompt) >= 2 /\ Ordered(prompt, 3)
        /\ sent = B!Fit(prompt)

LEMMA MsgFacts ==
  ASSUME NEW kind \in B!Kinds, NEW cost \in Nat
  PROVE  B!Msg(kind, cost) \in Message /\ B!Msg(kind, cost).kind = kind
BY DEF B!Msg, Message

(* Appending what is no result, or a script and then a result. *)
LEMMA OrderedAppend ==
  ASSUME NEW ms \in Seq(Message), NEW m \in Nat, NEW x \in Message,
         Ordered(ms, m),
         x.kind = "result" => Len(ms) >= 1 /\ ms[Len(ms)].kind \in {"script", "elided"},
         m >= 2
  PROVE  Ordered(Append(ms, x), m)
<1>1. PICK n \in Nat : n = Len(ms)
  OBVIOUS
<1>2. PICK t \in Seq(Message) : t = Append(ms, x) /\ Len(t) = n + 1 /\ t[n + 1] = x
                                /\ \A i \in 1..n : t[i] = ms[i]
  <2>1. /\ Append(ms, x) \in Seq(Message) /\ Len(Append(ms, x)) = Len(ms) + 1
        /\ Append(ms, x)[Len(ms) + 1] = x
        /\ \A i \in 1..Len(ms) : Append(ms, x)[i] = ms[i]
    BY AppendFacts
  <2> QED BY <1>1, <2>1, Zenon
<1>3. ASSUME NEW i \in m..n + 1, t[i].kind = "result"
      PROVE  t[i - 1].kind \in {"script", "elided"}
  <2>1. CASE i = n + 1
    <3>1. n >= 1 /\ ms[n].kind \in {"script", "elided"}
      BY <1>1, <1>2, <1>3, <2>1
    <3>2. i - 1 = n /\ n \in 1..n
      BY <2>1, <3>1
    <3> QED BY <1>2, <3>1, <3>2
  <2>2. CASE i # n + 1
    <3>1. i \in m..Len(ms) /\ i \in 1..n /\ i - 1 \in 1..n
      BY <1>1, <2>2
    <3> QED BY <1>2, <1>3, <3>1 DEF Ordered
  <2> QED BY <2>1, <2>2
<1> QED BY <1>2, <1>3 DEF Ordered

(* What rehydration may yield, and the question after it. *)
LEMMA PriorFacts ==
  ASSUME NEW p \in B!Prior, NEW c \in Costs
  PROVE  /\ Append(p, B!Msg("ask", c)) \in Seq(Message)
         /\ Len(Append(p, B!Msg("ask", c))) >= 1
         /\ Ordered(Append(p, B!Msg("ask", c)), 2)
<1> DEFINE Told == {B!Msg(k, d) : k \in {"user", "reply", "script", "result"}, d \in Costs}
<1>1. PICK n \in 0..MaxPrior : p \in [1..n -> Told]
  BY DEF B!Prior, B!SeqOf
<1>2. Told \subseteq Message
  <2>1. {"user", "reply", "script", "result"} \subseteq B!Kinds /\ Costs \subseteq Nat
    BY BudgetNumbers DEF B!Kinds, B!Assistant
  <2> QED BY <2>1, MsgFacts
<1>3. n \in Nat
  BY BudgetAssumption
<1>4. p \in Seq(Message)
  <2> HIDE DEF Told
  <2>1. p \in [1..n -> Message]
    BY <1>1, <1>2
  <2> QED BY <1>3, <2>1
<1>5. Ordered(p, 2)
  <2>1. \A i \in 2..Len(p) : p[i].kind = "result" => p[i - 1].kind = "script"
    BY DEF B!Prior
  <2> QED BY <2>1 DEF Ordered
<1>6. PICK x \in Message : x = B!Msg("ask", c) /\ x.kind = "ask"
  <2>1. "ask" \in B!Kinds /\ c \in Nat
    BY BudgetNumbers DEF B!Kinds
  <2> QED BY <2>1, MsgFacts
<1>7. Ordered(Append(p, x), 2)
  <2>1. 2 \in Nat /\ 2 >= 2 /\ x.kind # "result"
    BY <1>6
  <2> QED BY <1>4, <1>5, <1>6, <2>1, OrderedAppend
<1>8. Append(p, x) \in Seq(Message) /\ Len(Append(p, x)) = Len(p) + 1 /\ Len(p) \in Nat
  BY <1>4, <1>6, AppendFacts
<1> QED BY <1>6, <1>7, <1>8

LEMMA BudgetInit == B!Init => BudgetInv
<1> SUFFICES ASSUME B!Init PROVE BudgetInv
  OBVIOUS
<1>1. PICK p \in B!Prior, c \in Costs : history = Append(p, B!Msg("ask", c))
  BY DEF B!Init
<1>2. history \in Seq(Message) /\ Len(history) >= 1 /\ Ordered(history, 2)
  BY <1>1, PriorFacts
<1>3. digest \in Nat /\ prompt = <<>> /\ sent = B!NotSent
  BY DEF B!Init
<1> QED BY <1>2, <1>3 DEF BudgetInv

(* Eliding keeps the order: a script stays one, elided or not. *)
LEMMA ElideFacts ==
  ASSUME NEW ms \in Seq(Message), NEW from, Ordered(ms, 2)
  PROVE  /\ B!Elide(ms, from) \in Seq(Message)
         /\ Len(B!Elide(ms, from)) = Len(ms)
         /\ Ordered(B!Elide(ms, from), 2)
<1>1. PICK n \in Nat : n = Len(ms) /\ DOMAIN ms = 1..n
  OBVIOUS
<1>2. PICK short \in Message : short = B!Msg("elided", ElidedCost) /\ short.kind = "elided"
  <2>1. "elided" \in B!Kinds /\ ElidedCost \in Nat
    BY BudgetNumbers DEF B!Kinds, B!Assistant
  <2> QED BY <2>1, MsgFacts
<1>3. PICK latest : B!Elide(ms, from) =
        [i \in DOMAIN ms |-> IF ms[i].kind \in B!Assistant /\ i > from /\ i # latest
                             THEN B!Msg("elided", ElidedCost) ELSE ms[i]]
  BY DEF B!Elide
<1>4. PICK e : e = B!Elide(ms, from)
  OBVIOUS
<1>5. \A i \in 1..n : ms[i] \in Message
  BY <1>1
<1>6. \A i \in 1..n : /\ e[i] \in Message
                      /\ \/ e[i] = ms[i]
                         \/ e[i] = short /\ ms[i].kind \in B!Assistant
  BY <1>1, <1>2, <1>3, <1>4, <1>5
<1>7. e \in Seq(Message) /\ Len(e) = n
  <2>1. e \in [1..n -> Message]
    BY <1>1, <1>3, <1>4, <1>6
  <2> QED BY <2>1
<1>8. ASSUME NEW i \in 2..n, e[i].kind = "result"
      PROVE  e[i - 1].kind \in {"script", "elided"}
  <2>1. i \in 1..n /\ i - 1 \in 1..n
    OBVIOUS
  <2>2. ms[i].kind = "result"
    BY <1>2, <1>6, <1>8, <2>1
  <2>3. ms[i - 1].kind \in {"script", "elided"}
    BY <1>1, <2>2 DEF Ordered
  <2> QED BY <1>2, <1>6, <2>1, <2>3
<1>9. Ordered(e, 2)
  BY <1>7, <1>8 DEF Ordered
<1> QED BY <1>1, <1>4, <1>7, <1>9

(* A system prompt before it shifts it by one. *)
LEMMA OrderedBehind ==
  ASSUME NEW ms \in Seq(Message), NEW x \in Message, Ordered(ms, 2)
  PROVE  /\ <<x>> \o ms \in Seq(Message) /\ Len(<<x>> \o ms) = Len(ms) + 1
         /\ Ordered(<<x>> \o ms, 3)
<1>1. PICK n \in Nat : n = Len(ms)
  OBVIOUS
<1>2. PICK one \in Seq(Message) : one = <<x>> /\ Len(one) = 1
  <2>1. <<x>> \in Seq(Message) /\ Len(<<x>>) = 1
    OBVIOUS
  <2> QED BY <2>1, Zenon
<1>3. PICK all \in Seq(Message) : all = one \o ms /\ Joins(all, one, ms)
  BY <1>2, ConcatFacts
<1>4. Len(all) = 1 + n /\ \A i \in 1..n : all[1 + i] = ms[i]
  BY <1>1, <1>2, <1>3 DEF Joins
<1>5. ASSUME NEW i \in 3..n + 1, all[i].kind = "result"
      PROVE  all[i - 1].kind \in {"script", "elided"}
  <2>1. PICK j \in 2..n : j = i - 1 /\ i = 1 + j
    BY <1>1
  <2>2. j \in 1..n /\ j - 1 \in 1..n /\ 1 + (j - 1) = i - 1
    BY <2>1
  <2>3. all[i] = ms[j] /\ all[i - 1] = ms[j - 1]
    <3>1. all[1 + j] = ms[j] /\ all[1 + (j - 1)] = ms[j - 1]
      BY <1>4, <2>2
    <3> QED BY <2>1, <2>2, <3>1
  <2> QED BY <1>1, <1>5, <2>1, <2>3 DEF Ordered
<1>6. Ordered(all, 3)
  BY <1>4, <1>5 DEF Ordered
<1> QED BY <1>1, <1>2, <1>3, <1>4, <1>6

(* The prompt of a turn. *)
LEMMA PromptFacts ==
  ASSUME NEW ms \in Seq(Message), NEW from, NEW d \in Nat, Len(ms) >= 1, Ordered(ms, 2),
         NEW p, p = <<B!Msg("system", SystemCost)>> \o B!Elide(ms, from)
                    \o (IF d > 0 THEN <<B!Msg("digest", d)>> ELSE <<>>)
  PROVE  p \in Seq(Message) /\ Len(p) >= 2 /\ Ordered(p, 3)
<1>1. PICK e \in Seq(Message) : e = B!Elide(ms, from) /\ Len(e) = Len(ms) /\ Ordered(e, 2)
  BY ElideFacts
<1>2. PICK x \in Message : x = B!Msg("system", SystemCost)
  <2>1. "system" \in B!Kinds /\ SystemCost \in Nat
    BY BudgetNumbers DEF B!Kinds
  <2> QED BY <2>1, MsgFacts
<1>3. PICK a \in Seq(Message) : a = <<x>> \o e /\ Len(a) = Len(e) + 1 /\ Ordered(a, 3)
  BY <1>1, <1>2, OrderedBehind
<1>4. Len(a) \in Nat /\ Len(a) >= 2
  <2>1. PICK l \in Nat : l = Len(ms)
    OBVIOUS
  <2> QED BY <1>1, <1>3, <2>1
<1>5. CASE d > 0
  <2>1. PICK y \in Message : y = B!Msg("digest", d) /\ y.kind = "digest"
    <3>1. "digest" \in B!Kinds
      BY DEF B!Kinds
    <3> QED BY <3>1, MsgFacts
  <2>2. p = a \o <<y>>
    BY <1>1, <1>2, <1>3, <1>5, <2>1
  <2>3. p = Append(a, y)
    BY <2>2
  <2>4. Append(a, y) \in Seq(Message) /\ Len(Append(a, y)) = Len(a) + 1
    BY AppendFacts
  <2>5. Ordered(Append(a, y), 3)
    <3>1. 3 \in Nat /\ 3 >= 2 /\ y.kind # "result"
      BY <2>1
    <3> QED BY <1>3, <3>1, OrderedAppend
  <2>6. Len(Append(a, y)) >= 2
    BY <1>4, <2>4
  <2> QED BY <2>3, <2>4, <2>5, <2>6, Zenon
<1>6. CASE ~ d > 0
  <2>1. p = a \o <<>>
    BY <1>1, <1>2, <1>3, <1>6
  <2>2. p = a
    BY <2>1
  <2> QED BY <1>3, <1>4, <2>2
<1> QED BY <1>5, <1>6

LEMMA BudgetNext == BudgetInv /\ B!Next => BudgetInv'
<1> SUFFICES ASSUME BudgetInv, B!Next PROVE BudgetInv'
  OBVIOUS
<1>1. history \in Seq(Message) /\ Len(history) >= 1 /\ Ordered(history, 2) /\ digest \in Nat
  BY DEF BudgetInv
<1>2. CASE B!SendPrompt
  <2>1. prompt' \in Seq(Message) /\ Len(prompt') >= 2 /\ Ordered(prompt', 3)
    <3>1. prompt' = <<B!Msg("system", SystemCost)>> \o B!Elide(history, base)
                    \o (IF digest > 0 THEN <<B!Msg("digest", digest)>> ELSE <<>>)
      BY <1>2 DEF B!SendPrompt
    <3> QED BY <1>1, <3>1, PromptFacts
  <2>2. sent' = B!Fit(prompt') /\ history' = history /\ digest' = digest
    BY <1>2 DEF B!SendPrompt
  <2> QED BY <1>1, <2>1, <2>2 DEF BudgetInv
<1>3. CASE B!RunScript
  <2>1. PICK s \in Costs, r \in Costs :
          history' = history \o <<B!Msg("script", s), B!Msg("result", r)>>
    BY <1>3 DEF B!RunScript
  <2>2. s \in Nat /\ r \in Nat
    BY BudgetNumbers
  <2>3. PICK x \in Message, y \in Message :
          /\ x = B!Msg("script", s) /\ x.kind = "script"
          /\ y = B!Msg("result", r)
    <3>1. "script" \in B!Kinds /\ "result" \in B!Kinds
      BY DEF B!Kinds, B!Assistant
    <3> QED BY <2>2, <3>1, MsgFacts
  <2>4. history' = Append(Append(history, x), y)
    BY <1>1, <2>1, <2>3
  <2>5. PICK h \in Seq(Message) :
          /\ h = Append(history, x) /\ Len(h) = Len(history) + 1 /\ h[Len(history) + 1] = x
          /\ Ordered(h, 2)
    <3>1. 2 \in Nat /\ 2 >= 2 /\ x.kind # "result"
      BY <2>3
    <3>2. Ordered(Append(history, x), 2)
      BY <1>1, <3>1, OrderedAppend
    <3> QED BY <1>1, <3>2, AppendFacts
  <2>6. Len(h) \in Nat /\ Len(h) >= 1 /\ h[Len(h)].kind \in {"script", "elided"}
    <3>1. PICK l \in Nat : l = Len(history)
      BY <1>1
    <3> QED BY <2>3, <2>5, <3>1
  <2>7. Ordered(Append(h, y), 2)
    <3>1. 2 \in Nat /\ 2 >= 2
      OBVIOUS
    <3> QED BY <2>5, <2>6, <3>1, OrderedAppend
  <2>8. Append(h, y) \in Seq(Message) /\ Len(Append(h, y)) = Len(h) + 1
    BY AppendFacts
  <2>9. history' \in Seq(Message) /\ Len(history') >= 1 /\ Ordered(history', 2)
    BY <2>4, <2>5, <2>6, <2>7, <2>8
  <2>10. digest' \in Nat /\ prompt' = <<>> /\ sent' = B!NotSent
    <3>1. {digest, 0} \cup Costs \subseteq Nat
      BY <1>1, BudgetNumbers
    <3> QED BY <1>3, <3>1 DEF B!RunScript
  <2> QED BY <2>9, <2>10 DEF BudgetInv
<1>4. CASE B!Retry
  BY <1>1, <1>4 DEF B!Retry, BudgetInv
<1> QED BY <1>2, <1>3, <1>4 DEF B!Next

LEMMA BudgetStutter == BudgetInv /\ UNCHANGED budgetVars => BudgetInv'
BY DEF BudgetInv, budgetVars

LEMMA BudgetPromises ==
  ASSUME BudgetInv
  PROVE  B!FitsOrOver /\ B!TokensHonest /\ B!DropsLeast /\ B!NoStrandedResult
<1>1. CASE prompt = <<>> /\ sent = B!NotSent
  <2>1. /\ sent.messages = <<>> /\ sent.tokens = 0 /\ sent.over = FALSE /\ sent.dropped = 0
    BY <1>1 DEF B!NotSent
  <2>2. B!CostOf(sent.messages) = 0 /\ PromptAllowance \in Nat
    BY <2>1, CostNone, BudgetNumbers
  <2>3. B!FitsOrOver
    BY <2>1, <2>2 DEF B!FitsOrOver, B!Sent
  <2>4. B!TokensHonest
    BY <2>1, <2>2 DEF B!TokensHonest, B!Sent
  <2>5. B!DropsLeast
    BY <1>1 DEF B!DropsLeast
  <2>6. B!NoStrandedResult
    BY <2>1 DEF B!NoStrandedResult, B!Sent
  <2> QED BY <2>3, <2>4, <2>5, <2>6
<1>2. CASE prompt \in Seq(Message) /\ Len(prompt) >= 2 /\ Ordered(prompt, 3) /\ sent = B!Fit(prompt)
  <2>1. Good(prompt, sent)
    BY <1>2, FitIsGood
  <2>2. B!FitsOrOver
    BY <2>1 DEF Good, Fits, B!FitsOrOver, B!Sent
  <2>3. B!TokensHonest
    BY <2>1 DEF Good, Honest, B!TokensHonest, B!Sent
  <2>4. B!DropsLeast
    BY <2>1 DEF Good, Roomless, B!DropsLeast
  <2>5. B!NoStrandedResult
    BY <2>1 DEF Good, Accompanied, B!NoStrandedResult, B!Sent
  <2> QED BY <2>2, <2>3, <2>4, <2>5
<1> QED BY <1>1, <1>2 DEF BudgetInv

-----------------------------------------------------------------------------
(* eval: the records of a RunSuite, and what a verdict rests on. *)

Positive == Nat \ {0}
Case == [id : CaseIds, suite : Suites, threshold : Positive, items : Seq(Positive)]
Verdict == [score : Nat, min : Positive, passed : BOOLEAN]
Result == [case : CaseIds, error : {"", "agent", "unjudged", "judge"}, response : BOOLEAN,
           score : Nat, passed : BOOLEAN, verdicts : Seq(Verdict)]
Summary == [total : Nat, passed : Nat, failed : Nat]
Run == [suite : Suites \cup {"none"}, status : {"running", "completed"},
        results : Seq(Result), summary : Summary]
Job == [suite : Suites \cup {"none"}, listed : Seq(Case),
        results : Seq(Result), verdicts : Seq(Verdict)]
Places == {"idle", "list", "create", "agent", "judge", "returned", "failed"}

ScoresOf(vs) == [i \in DOMAIN vs |-> vs[i].score]

LEMMA DefaultFacts ==
  ASSUME NEW n \in Int, NEW d \in Positive
  PROVE  E!OrDefault(n, d) \in Positive /\ (n \in Positive => E!OrDefault(n, d) = n)
BY DEF E!OrDefault, Positive

LEMMA ScoreFacts ==
  ASSUME NEW reply \in Replies
  PROVE  E!ParseScore(reply) \in Nat
<1>1. reply \in Nat \cup {-1} /\ E!NoScore = -1
  BY EvalAssumption DEF E!NoScore
<1> QED BY <1>1 DEF E!ParseScore

LEMMA LeastMark ==
  ASSUME NEW S, S \subseteq Positive, S # {}
  PROVE  E!Min(S) \in S /\ \A y \in S : E!Min(S) <= y
<1>1. S \subseteq Nat
  BY DEF Positive
<1>2. \E x \in S : \A y \in S : x <= y
  BY <1>1, SmallestExists
<1> QED BY <1>2 DEF E!Min

LEMMA ScoresFacts ==
  ASSUME NEW vs \in Seq(Verdict)
  PROVE  /\ ScoresOf(vs) \in Seq(Nat) /\ Len(ScoresOf(vs)) = Len(vs)
         /\ \A i \in 1..Len(vs) : ScoresOf(vs)[i] = vs[i].score
         /\ E!Total(vs) = SumOf(ScoresOf(vs)) /\ E!Total(vs) \in Nat
<1>1. Len(vs) \in Nat /\ DOMAIN vs = 1..Len(vs) /\ \A i \in 1..Len(vs) : vs[i].score \in Nat
  <2>1. Len(vs) \in Nat /\ DOMAIN vs = 1..Len(vs) /\ \A i \in 1..Len(vs) : vs[i] \in Verdict
    BY LenProperties
  <2>2. \A v \in Verdict : v.score \in Nat
    BY DEF Verdict
  <2> QED BY <2>1, <2>2
<1>2. ScoresOf(vs) \in [1..Len(vs) -> Nat] /\ \A i \in 1..Len(vs) : ScoresOf(vs)[i] = vs[i].score
  BY <1>1 DEF ScoresOf
<1>3. E!Total(vs) = SumOf(ScoresOf(vs))
  BY DEF E!Total, E!SumOf, SumOf, ScoresOf
<1>4. ScoresOf(vs) \in Seq(Nat) /\ Len(ScoresOf(vs)) = Len(vs)
  <2> HIDE DEF ScoresOf
  <2> QED BY <1>1, <1>2
<1>5. SumOf(ScoresOf(vs)) \in Nat
  BY <1>4, SumNotNegative
<1> QED BY <1>2, <1>3, <1>4, <1>5

LEMMA QuotientAtLeast ==
  ASSUME NEW a \in Nat, NEW b \in Nat \ {0}, NEW m \in Nat, m * b <= a
  PROVE  a \div b \in Nat /\ m <= a \div b
<1>1. PICK q \in Int : q = a \div b
  OBVIOUS
<1>2. a < b * (q + 1)
  BY <1>1
<1>3. m * b < b * (q + 1)
  BY <1>2
<1> QED BY <1>1, <1>3

(* The average of verdicts is no less than the least of them. *)
LEMMA AverageAtLeast ==
  ASSUME NEW vs \in Seq(Verdict), NEW m \in Nat, vs # <<>>,
         \A i \in 1..Len(vs) : m <= vs[i].score
  PROVE  E!Total(vs) \div Len(vs) \in Nat /\ m <= E!Total(vs) \div Len(vs)
<1>1. PICK n \in Nat \ {0} : n = Len(vs)
  OBVIOUS
<1>2. PICK t \in Nat : t = E!Total(vs)
  BY ScoresFacts
<1>3. m * n <= t
  <2>1. /\ ScoresOf(vs) \in Seq(Nat) /\ Len(ScoresOf(vs)) = n
        /\ \A i \in 1..n : ScoresOf(vs)[i] = vs[i].score
    BY <1>1, ScoresFacts
  <2>2. \A i \in 1..Len(ScoresOf(vs)) : m <= ScoresOf(vs)[i]
    BY <1>1, <2>1
  <2>3. m * Len(ScoresOf(vs)) <= SumOf(ScoresOf(vs))
    BY <2>1, <2>2, SumAtLeast
  <2> QED BY <1>2, <2>1, <2>3, ScoresFacts
<1>4. t \div n \in Nat /\ m <= t \div n
  BY <1>3, QuotientAtLeast
<1> QED BY <1>1, <1>2, <1>4

LEMMA AverageOfOne ==
  ASSUME NEW vs \in Seq(Verdict), Len(vs) = 1
  PROVE  E!Total(vs) \div Len(vs) = vs[1].score /\ vs[1].score \in Nat
<1>1. vs[1] \in Verdict
  OBVIOUS
<1>2. PICK x \in Nat : x = vs[1].score
  BY <1>1 DEF Verdict
<1>3. /\ ScoresOf(vs) \in Seq(Nat) /\ Len(ScoresOf(vs)) = 1 /\ ScoresOf(vs)[1] = x
      /\ E!Total(vs) = SumOf(ScoresOf(vs))
  BY <1>2, ScoresFacts
<1>4. ScoresOf(vs) = Append(<<>>, x)
  <2>1. Append(<<>>, x) \in Seq(Nat) /\ Len(Append(<<>>, x)) = 1 /\ Append(<<>>, x)[1] = x
    OBVIOUS
  <2>2. \A i \in 1..1 : ScoresOf(vs)[i] = Append(<<>>, x)[i]
    BY <1>3, <2>1
  <2> QED BY <1>3, <2>1, <2>2, SeqEqual
<1>5. SumOf(Append(<<>>, x)) = SumOf(<<>>) + x
  <2>1. <<>> \in Seq(Int) /\ x \in Int
    OBVIOUS
  <2> QED BY <2>1, SumAppend
<1>6. E!Total(vs) = x
  BY <1>3, <1>4, <1>5, SumEmpty
<1>7. x \div 1 = x
  OBVIOUS
<1> QED BY <1>2, <1>6, <1>7

LEMMA SummaryFacts ==
  ASSUME NEW rs \in Seq(Result)
  PROVE  LET s == E!ComputeSummary(rs) IN
           /\ s \in Summary /\ s.total = s.passed + s.failed
           /\ s.passed = Cardinality({i \in DOMAIN rs : rs[i].passed})
<1> DEFINE Good1 == {r \in Elements(rs) : r.passed}
<1>1. PICK n \in Nat : n = Len(rs) /\ DOMAIN rs = 1..n
  BY LenProperties
<1>2. PICK p \in Nat : p = Len(Only(rs, Good1)) /\ p <= n
  <2> HIDE DEF Good1
  <2>1. Only(rs, Good1) \in Seq(Result) /\ Len(Only(rs, Good1)) <= Len(rs)
    BY OnlyType, OnlyCount
  <2>2. Len(Only(rs, Good1)) \in Nat
    BY <2>1
  <2> QED BY <1>1, <2>1, <2>2
<1>3. p = Cardinality({i \in DOMAIN rs : rs[i].passed})
  <2>1. {i \in 1..Len(rs) : rs[i] \in Good1} = {i \in DOMAIN rs : rs[i].passed}
    BY <1>1 DEF Elements
  <2>2. Len(Only(rs, Good1)) = Cardinality({i \in 1..Len(rs) : rs[i] \in Good1})
    <3> HIDE DEF Good1
    <3> QED BY OnlyCount
  <2> QED BY <1>2, <2>1, <2>2
<1>4. E!ComputeSummary(rs) = [total |-> n, passed |-> p, failed |-> n - p]
  <2>1. Len(E!Only(rs, {r \in E!Elements(rs) : r.passed})) = p
    BY <1>2 DEF E!Only, Only, E!Elements, Elements
  <2> QED BY <1>1, <2>1 DEF E!ComputeSummary
<1>5. n - p \in Nat /\ n = p + (n - p)
  BY <1>2
<1> QED BY <1>3, <1>4, <1>5 DEF Summary

-----------------------------------------------------------------------------
(* eval: the inductive invariant.  Where a caller is in its cases, what it *)
(* has filed and what it has judged of the current one belong to the cases *)
(* it listed; a record that says "running" is that of a caller under way.  *)

\* The verdicts vs so far on the case k, which is not all judged.
Judged(k, vs) ==
  /\ Len(vs) < Len(k.items) \/ (k.items = <<>> /\ vs = <<>>)
  /\ \A i \in 1..Len(vs) : vs[i].passed <=> vs[i].score >= k.items[i]

Filed(listed, results) ==
  /\ Len(results) <= Len(listed)
  /\ \A i \in 1..Len(results) : E!Earned(listed[i], results[i])

JobInv(j, place) ==
  /\ Filed(j.listed, j.results)
  /\ place \in {"idle", "list"} => j.results = <<>>
  /\ place = "judge" => Len(j.results) < Len(j.listed)
                        /\ Judged(j.listed[Len(j.results) + 1], j.verdicts)
  /\ place # "judge" => j.verdicts = <<>>

RunInv(r, j, place) ==
  /\ r.status = "running" => place \in {"agent", "judge"}
  /\ r.status = "completed" =>
       /\ place = "returned" /\ r.results = j.results /\ Len(j.results) = Len(j.listed)
       /\ r.summary = E!ComputeSummary(r.results)

EvalInv ==
  /\ cases \in Seq(Case) /\ fresh \subseteq CaseIds
  /\ runs \in [Callers -> Run \cup {E!Nothing}]
  /\ pc \in [Callers -> Places] /\ job \in [Callers -> Job]
  /\ \A c \in Callers : JobInv(job[c], pc[c]) /\ RunInv(runs[c], job[c], pc[c])

LEMMA NothingFacts ==
  ASSUME NEW j, NEW place
  PROVE  /\ RunInv(E!Nothing, j, place) /\ E!Nothing \notin Run
         /\ E!Nothing.status # "running" /\ E!Nothing.status # "completed"
<1>1. E!Nothing.status = "absent"
  BY DEF E!Nothing
<1>2. \A r \in Run : r.status \in {"running", "completed"}
  BY DEF Run
<1> QED BY <1>1, <1>2 DEF RunInv

LEMMA EvalInit == E!Init => EvalInv
<1> SUFFICES ASSUME E!Init PROVE EvalInv
  OBVIOUS
<1>1. E!NoJob \in Job
  <2>1. <<>> \in Seq(Case) /\ <<>> \in Seq(Result) /\ <<>> \in Seq(Verdict)
    OBVIOUS
  <2> QED BY <2>1 DEF E!NoJob, Job
<1>2. JobInv(E!NoJob, "idle")
  <2>1. Len(<<>>) = 0 /\ 1..0 = {} /\ 0 <= 0
    OBVIOUS
  <2>2. E!NoJob.listed = <<>> /\ E!NoJob.results = <<>> /\ E!NoJob.verdicts = <<>>
    BY DEF E!NoJob
  <2> QED BY <2>1, <2>2 DEF JobInv, Filed
<1>3. cases \in Seq(Case) /\ fresh \subseteq CaseIds
  BY DEF E!Init
<1>4. /\ runs = [c \in Callers |-> E!Nothing] /\ pc = [c \in Callers |-> "idle"]
      /\ job = [c \in Callers |-> E!NoJob]
  BY DEF E!Init
<1>5. /\ runs \in [Callers -> Run \cup {E!Nothing}]
      /\ pc \in [Callers -> Places] /\ job \in [Callers -> Job]
  BY <1>1, <1>4 DEF Places
<1> QED BY <1>2, <1>3, <1>4, <1>5, NothingFacts DEF EvalInv

(* What one caller did, the others standing still. *)
Becomes(f, g, c, v) == g \in [Callers -> {g[d] : d \in Callers}] /\ g[c] = v
                       /\ \A d \in Callers : d # c => g[d] = f[d]

LEMMA OneCaller ==
  ASSUME EvalInv, NEW c \in Callers, NEW j \in Job, NEW place \in Places,
         NEW r \in Run \cup {E!Nothing},
         JobInv(j, place), RunInv(r, j, place), cases' = cases, fresh' = fresh,
         Becomes(job, job', c, j), Becomes(pc, pc', c, place), Becomes(runs, runs', c, r)
  PROVE  EvalInv'
<1>1. job' \in [Callers -> Job] /\ pc' \in [Callers -> Places] /\ runs' \in [Callers -> Run \cup {E!Nothing}]
  <2>1. \A d \in Callers : job'[d] \in Job /\ pc'[d] \in Places /\ runs'[d] \in Run \cup {E!Nothing}
    BY DEF EvalInv, Becomes
  <2>2. {job'[d] : d \in Callers} \subseteq Job /\ {pc'[d] : d \in Callers} \subseteq Places
        /\ {runs'[d] : d \in Callers} \subseteq Run \cup {E!Nothing}
    BY <2>1
  <2>3. /\ job' \in [Callers -> {job'[d] : d \in Callers}] /\ pc' \in [Callers -> {pc'[d] : d \in Callers}]
        /\ runs' \in [Callers -> {runs'[d] : d \in Callers}]
    BY DEF Becomes
  <2> QED BY <2>2, <2>3
<1>2. ASSUME NEW d \in Callers
      PROVE  JobInv(job'[d], pc'[d]) /\ RunInv(runs'[d], job'[d], pc'[d])
  <2>1. CASE d = c
    BY <2>1 DEF Becomes
  <2>2. CASE d # c
    <3>1. job'[d] = job[d] /\ pc'[d] = pc[d] /\ runs'[d] = runs[d]
      BY <2>2 DEF Becomes
    <3> QED BY <3>1 DEF EvalInv
  <2> QED BY <2>1, <2>2
<1>3. cases' \in Seq(Case) /\ fresh' \subseteq CaseIds
  BY DEF EvalInv
<1> QED BY <1>1, <1>2, <1>3 DEF EvalInv

LEMMA Stays ==
  ASSUME EvalInv, NEW c \in Callers
  PROVE  /\ job' = job => Becomes(job, job', c, job[c])
         /\ runs' = runs => Becomes(runs, runs', c, runs[c])
         /\ pc' = pc => Becomes(pc, pc', c, pc[c])
         /\ \A label : E!Goto(c, label) => Becomes(pc, pc', c, label)
<1>1. job \in [Callers -> Job] /\ runs \in [Callers -> Run \cup {E!Nothing}] /\ pc \in [Callers -> Places]
  BY DEF EvalInv
<1>2. ASSUME NEW f, f = [d \in Callers |-> f[d]] PROVE f \in [Callers -> {f[d] : d \in Callers}]
  BY <1>2
<1>3. job' = job => Becomes(job, job', c, job[c])
  BY <1>1, <1>2 DEF Becomes
<1>4. runs' = runs => Becomes(runs, runs', c, runs[c])
  BY <1>1, <1>2 DEF Becomes
<1>5. pc' = pc => Becomes(pc, pc', c, pc[c])
  BY <1>1, <1>2 DEF Becomes
<1>6. ASSUME NEW label, E!Goto(c, label) PROVE Becomes(pc, pc', c, label)
  <2>1. pc' = [pc EXCEPT ![c] = label]
    BY <1>6 DEF E!Goto
  <2>2. pc' \in [Callers -> {pc'[d] : d \in Callers}] /\ pc'[c] = label
        /\ \A d \in Callers : d # c => pc'[d] = pc[d]
    BY <1>1, <2>1
  <2> QED BY <2>2 DEF Becomes
<1> QED BY <1>3, <1>4, <1>5, <1>6

-----------------------------------------------------------------------------
(* eval: the steps. *)

LEMMA RunIdle ==
  ASSUME NEW r, NEW j, NEW place, RunInv(r, j, place), place \notin {"agent", "judge", "returned"}
  PROVE  \A k, other : RunInv(r, k, other)
BY DEF RunInv

LEMMA RunUnderWay ==
  ASSUME NEW r, NEW j, NEW place, RunInv(r, j, place), place \in {"agent", "judge"}
  PROVE  \A k : RunInv(r, k, "agent") /\ RunInv(r, k, "judge")
BY DEF RunInv

LEMMA CaseOf ==
  ASSUME NEW j \in Job, Len(j.results) < Len(j.listed)
  PROVE  /\ j.listed[Len(j.results) + 1] \in Case
         /\ Len(j.results) + 1 \in 1..Len(j.listed)
<1>1. j.listed \in Seq(Case) /\ j.results \in Seq(Result)
  BY DEF Job
<1>2. Len(j.results) + 1 \in 1..Len(j.listed)
  BY <1>1
<1> QED BY <1>1, <1>2

LEMMA FileFacts ==
  ASSUME NEW j \in Job, Filed(j.listed, j.results), Len(j.results) < Len(j.listed),
         NEW r \in Result, E!Earned(j.listed[Len(j.results) + 1], r),
         NEW k, k = [j EXCEPT !.results = Append(j.results, r), !.verdicts = <<>>]
  PROVE  k \in Job /\ JobInv(k, "agent")
<1>1. j.listed \in Seq(Case) /\ j.results \in Seq(Result)
  BY DEF Job
<1>2. PICK m \in Nat, n \in Nat : m = Len(j.results) /\ n = Len(j.listed) /\ m < n
  BY <1>1
<1>3. PICK rs \in Seq(Result) : rs = Append(j.results, r)
  BY <1>1, AppendFacts
<1>4. Len(rs) = m + 1 /\ rs[m + 1] = r /\ \A i \in 1..m : rs[i] = j.results[i]
  <2>1. /\ Len(Append(j.results, r)) = Len(j.results) + 1
        /\ Append(j.results, r)[Len(j.results) + 1] = r
        /\ \A i \in 1..Len(j.results) : Append(j.results, r)[i] = j.results[i]
    BY <1>1, AppendFacts
  <2> QED BY <1>2, <1>3, <2>1
<1>5. k.listed = j.listed /\ k.results = rs /\ k.verdicts = <<>>
  BY <1>3 DEF Job
<1>6. k \in Job
  <2>1. <<>> \in Seq(Verdict)
    OBVIOUS
  <2> QED BY <1>3, <2>1 DEF Job
<1>7. Filed(k.listed, k.results)
  <2>1. ASSUME NEW i \in 1..m + 1 PROVE E!Earned(j.listed[i], rs[i])
    <3>1. CASE i = m + 1
      BY <1>2, <1>4, <3>1
    <3>2. CASE i # m + 1
      <4>1. i \in 1..m
        BY <3>2
      <4> QED BY <1>2, <1>4, <4>1 DEF Filed
    <3> QED BY <3>1, <3>2
  <2>2. Len(rs) <= Len(j.listed)
    BY <1>2, <1>4
  <2> QED BY <1>4, <1>5, <2>1, <2>2 DEF Filed
<1> QED BY <1>5, <1>6, <1>7 DEF JobInv

(* Filing a result for the current case, on the way to the next one. *)
LEMMA FileStep ==
  ASSUME EvalInv, NEW c \in Callers, pc[c] \in {"agent", "judge"},
         Len(job[c].results) < Len(job[c].listed),
         NEW r \in Result, E!Earned(E!Current(c), r), E!File(c, r),
         E!Goto(c, "agent") \/ (pc' = pc /\ pc[c] = "agent"), UNCHANGED <<E!storeVars, judge>>
  PROVE  EvalInv'
<1>1. job \in [Callers -> Job] /\ JobInv(job[c], pc[c]) /\ RunInv(runs[c], job[c], pc[c])
      /\ runs[c] \in Run \cup {E!Nothing}
  BY DEF EvalInv
<1> DEFINE k == [job[c] EXCEPT !.results = Append(job[c].results, r), !.verdicts = <<>>]
<1>2. Filed(job[c].listed, job[c].results) /\ E!Earned(job[c].listed[Len(job[c].results) + 1], r)
  BY <1>1 DEF JobInv, E!Current
<1>3. job[c] \in Job
  BY <1>1
<1>4. k \in Job /\ JobInv(k, "agent")
  BY <1>2, <1>3, FileFacts
<1>5. Becomes(job, job', c, k)
  <2>1. job' \in [Callers -> {job'[d] : d \in Callers}] /\ job'[c] = k
        /\ \A d \in Callers : d # c => job'[d] = job[d]
    BY <1>1 DEF E!File, Job
  <2> QED BY <2>1 DEF Becomes
<1>6. Becomes(pc, pc', c, "agent")
  BY Stays
<1>7. Becomes(runs, runs', c, runs[c]) /\ cases' = cases /\ fresh' = fresh
  BY Stays DEF E!storeVars
<1>8. RunInv(runs[c], k, "agent")
  BY <1>1, RunUnderWay
<1>9. "agent" \in Places
  BY DEF Places
<1> HIDE DEF k
<1> QED BY <1>1, <1>4, <1>5, <1>6, <1>7, <1>8, <1>9, OneCaller

(* A call that failed earns the case nothing. *)
LEMMA FailedFacts ==
  ASSUME EvalInv, NEW c \in Callers, Len(job[c].results) < Len(job[c].listed),
         NEW why \in {"agent", "unjudged", "judge"}, NEW response \in BOOLEAN
  PROVE  /\ E!FailedResult(c, why, response) \in Result
         /\ E!Earned(E!Current(c), E!FailedResult(c, why, response))
<1>1. E!Current(c) \in Case
  BY CaseOf DEF EvalInv, E!Current
<1>2. PICK id \in CaseIds : id = E!Current(c).id
  BY <1>1 DEF Case
<1>3. why # ""
  BY Zenon
<1>4. why \in {"", "agent", "unjudged", "judge"}
  BY Zenon
<1>5. PICK r : r = [case |-> id, error |-> why, response |-> response,
                    score |-> 0, passed |-> FALSE, verdicts |-> <<>>]
  OBVIOUS
<1>6. r = E!FailedResult(c, why, response)
  BY <1>2, <1>5, Zenon DEF E!FailedResult
<1>7. r.case = id /\ r.error = why /\ r.score = 0 /\ r.passed = FALSE /\ r.verdicts = <<>>
  BY <1>5, Zenon
<1>8. r \in Result
  <2>1. 0 \in Nat /\ <<>> \in Seq(Verdict)
    OBVIOUS
  <2>2. FALSE \in BOOLEAN
    BY Zenon
  <2> QED BY <1>4, <1>5, <2>1, <2>2, Zenon DEF Result
<1>9. E!Earned(E!Current(c), r)
  BY <1>2, <1>3, <1>7, Zenon DEF E!Earned
<1> QED BY <1>6, <1>8, <1>9

(* A case that is judged passes exactly when each item reached its minimum. *)
LEMMA JudgedFacts ==
  ASSUME NEW c, E!Current(c) \in Case, NEW vs \in Seq(Verdict),
         vs # <<>>, Len(vs) >= Len(E!Current(c).items),
         E!Current(c).items = <<>> => Len(vs) = 1 /\ (vs[1].passed <=> vs[1].score >= E!Current(c).threshold),
         E!Current(c).items # <<>> =>
           /\ Len(vs) = Len(E!Current(c).items)
           /\ \A i \in 1..Len(vs) : vs[i].passed <=> vs[i].score >= E!Current(c).items[i]
  PROVE  /\ E!JudgedResult(c, vs) \in Result
         /\ E!Earned(E!Current(c), E!JudgedResult(c, vs))
<1>1. PICK k \in Case : k = E!Current(c)
  OBVIOUS
<1>2. PICK r : r = E!JudgedResult(c, vs)
  OBVIOUS
<1>3. PICK score \in Nat : score = E!Total(vs) \div Len(vs)
  <2>1. 0 \in Nat /\ \A i \in 1..Len(vs) : 0 <= vs[i].score
    <3>1. \A i \in 1..Len(vs) : vs[i] \in Verdict
      OBVIOUS
    <3>2. \A v \in Verdict : 0 <= v.score
      BY DEF Verdict
    <3> QED BY <3>1, <3>2
  <2> QED BY <2>1, AverageAtLeast
<1>4. PICK passed \in BOOLEAN : passed = \A i \in DOMAIN vs : vs[i].passed
  OBVIOUS
<1>5. PICK given \in Seq(Verdict) : given = IF k.items = <<>> THEN <<>> ELSE vs
  <2>1. <<>> \in Seq(Verdict)
    OBVIOUS
  <2> QED BY <2>1
<1>6. r = [case |-> k.id, error |-> "", response |-> TRUE, score |-> score,
           passed |-> passed, verdicts |-> given]
  BY <1>1, <1>2, <1>3, <1>4, <1>5, Zenon DEF E!JudgedResult
<1>7. k.id \in CaseIds /\ k.threshold \in Positive /\ k.items \in Seq(Positive)
  BY DEF Case
<1>8. r \in Result
  BY <1>6, <1>7 DEF Result
<1>9. DOMAIN vs = 1..Len(vs) /\ DOMAIN k.items = 1..Len(k.items) /\ Len(vs) \in Nat
  BY <1>7, LenProperties
<1>10. CASE k.items = <<>>
  <2>1. score = vs[1].score /\ (vs[1].passed <=> vs[1].score >= k.threshold)
    BY <1>1, <1>3, <1>10, AverageOfOne
  <2>2. passed <=> vs[1].passed
    <3>1. DOMAIN vs = {1}
      BY <1>1, <1>9, <1>10
    <3> QED BY <1>4, <3>1
  <2>3. r.error = "" /\ r.case = k.id /\ (r.passed <=> r.score >= k.threshold)
    <3>1. passed <=> score >= k.threshold
      BY <2>1, <2>2
    <3> QED BY <1>6, <3>1
  <2> QED BY <1>1, <1>2, <1>8, <1>10, <2>3 DEF E!Earned
<1>11. CASE k.items # <<>>
  <2>1. Len(vs) = Len(k.items) /\ \A i \in 1..Len(vs) : vs[i].passed <=> vs[i].score >= k.items[i]
    BY <1>1, <1>11
  <2>2. passed <=> \A i \in DOMAIN k.items : vs[i].score >= k.items[i]
    BY <1>4, <1>9, <2>1
  <2>3. ASSUME passed PROVE score >= E!Min(E!Elements(k.items))
    <3> DEFINE mins == E!Elements(k.items)
    <3>1. mins \subseteq Positive /\ mins # {}
      <4>1. mins = {k.items[i] : i \in 1..Len(k.items)}
        BY <1>9 DEF E!Elements
      <4>2. \A i \in 1..Len(k.items) : k.items[i] \in Positive
        BY <1>7
      <4>3. 1 \in 1..Len(k.items)
        BY <1>7, <1>11
      <4> QED BY <4>1, <4>2, <4>3
    <3>2. PICK m \in Positive : m = E!Min(mins) /\ \A y \in mins : m <= y
      <4> HIDE DEF mins
      <4> QED BY <3>1, LeastMark
    <3>3. \A i \in 1..Len(vs) : m <= vs[i].score
      <4>1. ASSUME NEW i \in 1..Len(vs) PROVE m <= vs[i].score
        <5>1. k.items[i] \in mins /\ vs[i].score >= k.items[i]
          BY <1>9, <2>1, <2>2, <2>3 DEF E!Elements
        <5>2. vs[i].score \in Nat
          <6>1. vs[i] \in Verdict
            OBVIOUS
          <6> QED BY <6>1 DEF Verdict
        <5>3. k.items[i] \in Nat /\ m \in Nat
          BY <3>1, <5>1 DEF Positive
        <5>4. m <= k.items[i]
          BY <3>2, <5>1
        <5> QED BY <5>1, <5>2, <5>3, <5>4
      <4> QED BY <4>1
    <3>4. m \in Nat
      BY DEF Positive
    <3>5. m <= score
      BY <1>3, <3>3, <3>4, AverageAtLeast
    <3> QED BY <3>2, <3>4, <3>5
  <2>4. /\ r.error = "" /\ r.case = k.id /\ r.verdicts = vs /\ r.score = score
        /\ r.passed <=> passed
    BY <1>5, <1>6, <1>11
  <2> QED BY <1>1, <1>2, <1>8, <1>11, <2>1, <2>2, <2>3, <2>4 DEF E!Earned
<1> QED BY <1>10, <1>11

LEMMA CasesKept ==
  ASSUME EvalInv, NEW keep
  PROVE  E!Only(cases, keep) \in Seq(Case)
<1>1. E!Only(cases, keep) = Only(cases, keep)
  BY DEF E!Only, Only
<1> QED BY <1>1, OnlyType DEF EvalInv

(* AddCase fills in what a case or an item leaves open. *)
LEMMA AddedCase ==
  ASSUME NEW id \in CaseIds, NEW s \in Suites, NEW t \in Thresholds, NEW items \in Rubrics,
         NEW threshold, threshold = E!OrDefault(t, E!DefaultPassThreshold)
  PROVE  [id |-> id, suite |-> s, threshold |-> threshold,
          items |-> [i \in DOMAIN items |-> E!OrDefault(items[i], threshold)]] \in Case
<1>1. t \in Int /\ items \in Seq(Int) /\ E!DefaultPassThreshold \in Positive
  BY EvalAssumption DEF E!DefaultPassThreshold, Positive
<1>2. threshold \in Positive
  BY <1>1, DefaultFacts
<1>3. PICK n \in Nat : n = Len(items) /\ DOMAIN items = 1..n /\ \A i \in 1..n : items[i] \in Int
  BY <1>1, LenProperties
<1>4. PICK filled : filled = [i \in DOMAIN items |-> E!OrDefault(items[i], threshold)]
  OBVIOUS
<1>5. filled \in [1..n -> Positive]
  <2>1. \A i \in 1..n : E!OrDefault(items[i], threshold) \in Positive
    BY <1>2, <1>3, DefaultFacts
  <2> QED BY <1>3, <1>4, <2>1
<1>6. filled \in Seq(Positive)
  BY <1>3, <1>5
<1> QED BY <1>2, <1>4, <1>6 DEF Case

(* The minimum of an item is its own, which AddCase has filled in. *)
LEMMA MinScoreFacts ==
  ASSUME NEW c, E!Current(c) \in Case, job[c].verdicts \in Seq(Verdict)
  PROVE  /\ E!Current(c).items = <<>> => E!MinScore(c) = E!Current(c).threshold
         /\ Len(job[c].verdicts) < Len(E!Current(c).items) =>
              E!MinScore(c) = E!Current(c).items[Len(job[c].verdicts) + 1]
         /\ (E!Current(c).items = <<>> \/ Len(job[c].verdicts) < Len(E!Current(c).items)) =>
              E!MinScore(c) \in Positive
<1>1. PICK k \in Case : k = E!Current(c)
  OBVIOUS
<1>2. k.threshold \in Positive /\ k.items \in Seq(Positive)
  BY DEF Case
<1>3. PICK n \in Nat : n = Len(job[c].verdicts)
  OBVIOUS
<1>4. CASE k.items = <<>>
  <2>1. E!MinScore(c) = k.threshold /\ Len(k.items) = 0
    BY <1>1, <1>4 DEF E!MinScore
  <2> QED BY <1>1, <1>2, <1>3, <1>4, <2>1
<1>5. CASE k.items # <<>> /\ n < Len(k.items)
  <2>1. n + 1 \in 1..Len(k.items)
    BY <1>2, <1>5
  <2>2. k.items[n + 1] \in Positive /\ k.items[n + 1] \in Int
    BY <1>2, <2>1 DEF Positive
  <2>3. E!MinScore(c) = E!OrDefault(k.items[n + 1], k.threshold)
    BY <1>1, <1>3, <1>5 DEF E!MinScore
  <2>4. E!MinScore(c) = k.items[n + 1]
    BY <1>2, <2>2, <2>3, DefaultFacts
  <2> QED BY <1>1, <1>3, <1>5, <2>2, <2>4
<1> QED BY <1>1, <1>3, <1>4, <1>5

LEMMA JudgeStep ==
  ASSUME EvalInv, NEW c \in Callers, E!JudgeScores(c)
  PROVE  EvalInv'
<1>1. /\ job[c] \in Job /\ job \in [Callers -> Job] /\ JobInv(job[c], "judge") /\ pc[c] = "judge"
      /\ RunInv(runs[c], job[c], "judge") /\ runs[c] \in Run \cup {E!Nothing}
  BY DEF EvalInv, E!JudgeScores
<1>2. PICK k \in Case : k = E!Current(c) /\ k = job[c].listed[Len(job[c].results) + 1]
  BY <1>1, CaseOf DEF JobInv, E!Current
<1>3. PICK vs \in Seq(Verdict) : vs = job[c].verdicts
  BY <1>1 DEF Job
<1>4. Judged(k, vs) /\ Len(job[c].results) < Len(job[c].listed)
  BY <1>1, <1>2, <1>3 DEF JobInv
<1>5. k.items \in Seq(Positive) /\ k.threshold \in Positive
  BY DEF Case
<1>6. PICK n \in Nat, l \in Nat : n = Len(vs) /\ l = Len(k.items)
  BY <1>5
<1>7. n < l \/ (k.items = <<>> /\ l = 0 /\ n = 0)
  BY <1>4, <1>6 DEF Judged
<1>8. PICK min \in Positive :
        /\ min = E!MinScore(c) /\ (l = 0 => min = k.threshold) /\ (n < l => min = k.items[n + 1])
  <2>1. /\ k.items = <<>> => E!MinScore(c) = k.threshold
        /\ n < l => E!MinScore(c) = k.items[n + 1]
        /\ (k.items = <<>> \/ n < l) => E!MinScore(c) \in Positive
    BY <1>2, <1>3, <1>6, MinScoreFacts
  <2>2. l = 0 => k.items = <<>>
    BY <1>5, <1>6, EmptySeq
  <2> QED BY <1>7, <2>1, <2>2
<1>9. PICK score \in Nat, v \in Verdict :
        /\ v = [score |-> score, min |-> min, passed |-> score >= min]
        /\ \/ /\ Len(Append(vs, v)) < Len(k.items)
              /\ job' = [job EXCEPT ![c].verdicts = Append(vs, v)] /\ UNCHANGED pc
           \/ /\ Len(Append(vs, v)) >= Len(k.items)
              /\ E!File(c, E!JudgedResult(c, Append(vs, v))) /\ E!Goto(c, "agent")
  <2>1. PICK reply \in Replies :
          LET score == E!ParseScore(reply)
              verdicts == Append(job[c].verdicts,
                [score |-> score, min |-> E!MinScore(c), passed |-> score >= E!MinScore(c)])
          IN \/ /\ Len(verdicts) < Len(E!Current(c).items)
                /\ job' = [job EXCEPT ![c].verdicts = verdicts]
                /\ UNCHANGED pc
             \/ /\ Len(verdicts) >= Len(E!Current(c).items)
                /\ E!File(c, E!JudgedResult(c, verdicts))
                /\ E!Goto(c, "agent")
    BY DEF E!JudgeScores
  <2>2. E!ParseScore(reply) \in Nat
    BY ScoreFacts
  <2>3. \A x \in Nat, y \in Positive : [score |-> x, min |-> y, passed |-> x >= y] \in Verdict
    BY DEF Verdict
  <2> QED BY <1>2, <1>3, <1>8, <2>1, <2>2, <2>3
<1>10. PICK ws \in Seq(Verdict) : ws = Append(vs, v)
  BY AppendFacts
<1>11. Len(ws) = n + 1 /\ ws[n + 1] = v /\ \A i \in 1..n : ws[i] = vs[i]
  <2>1. /\ Len(Append(vs, v)) = Len(vs) + 1 /\ Append(vs, v)[Len(vs) + 1] = v
        /\ \A i \in 1..Len(vs) : Append(vs, v)[i] = vs[i]
    BY AppendFacts
  <2> QED BY <1>6, <1>10, <2>1
<1>12. /\ v.score = score /\ v.min = min /\ (v.passed <=> score >= min)
  BY <1>9
<1>13. ASSUME n < l, NEW i \in 1..n + 1 PROVE ws[i].passed <=> ws[i].score >= k.items[i]
  <2>1. CASE i = n + 1
    BY <1>8, <1>11, <1>12, <1>13, <2>1
  <2>2. CASE i # n + 1
    <3>1. i \in 1..n
      BY <2>2
    <3> QED BY <1>4, <1>6, <1>11, <3>1 DEF Judged
  <2> QED BY <2>1, <2>2
<1>14. CASE Len(ws) < l /\ job' = [job EXCEPT ![c].verdicts = ws] /\ UNCHANGED pc
  <2> DEFINE j == [job[c] EXCEPT !.verdicts = ws]
  <2>1. j.listed = job[c].listed /\ j.results = job[c].results /\ j.verdicts = ws /\ j \in Job
    BY <1>1 DEF Job
  <2>2. Judged(k, ws)
    BY <1>6, <1>11, <1>13, <1>14 DEF Judged
  <2>3. JobInv(j, "judge")
    BY <1>1, <1>2, <2>1, <2>2 DEF JobInv
  <2>4. Becomes(job, job', c, j)
    <3>1. job' \in [Callers -> {job'[d] : d \in Callers}] /\ job'[c] = j
          /\ \A d \in Callers : d # c => job'[d] = job[d]
      BY <1>1, <1>14
    <3> QED BY <3>1 DEF Becomes
  <2>5. Becomes(pc, pc', c, "judge") /\ Becomes(runs, runs', c, runs[c]) /\ cases' = cases /\ fresh' = fresh
    BY <1>1, <1>14, Stays DEF E!JudgeScores, E!storeVars
  <2>6. RunInv(runs[c], j, "judge")
    BY <1>1, RunUnderWay
  <2>7. "judge" \in Places
    BY DEF Places
  <2> HIDE DEF j
  <2> QED BY <1>1, <2>1, <2>3, <2>4, <2>5, <2>6, <2>7, OneCaller
<1>15. CASE Len(ws) >= l /\ E!File(c, E!JudgedResult(c, ws)) /\ E!Goto(c, "agent")
  <2>1. ws # <<>>
    BY <1>11
  <2>2. k.items = <<>> => Len(ws) = 1 /\ (ws[1].passed <=> ws[1].score >= k.threshold)
    <3>1. k.items = <<>> => l = 0 /\ n = 0
      BY <1>6, <1>7
    <3> QED BY <1>8, <1>11, <1>12, <3>1
  <2>3. k.items # <<>> =>
          /\ Len(ws) = Len(k.items)
          /\ \A i \in 1..Len(ws) : ws[i].passed <=> ws[i].score >= k.items[i]
    <3>1. k.items # <<>> => n < l /\ n + 1 = l
      BY <1>6, <1>7, <1>11, <1>15
    <3> QED BY <1>6, <1>11, <1>13, <3>1
  <2>4. /\ E!JudgedResult(c, ws) \in Result
        /\ E!Earned(E!Current(c), E!JudgedResult(c, ws))
    BY <1>2, <1>6, <1>15, <2>1, <2>2, <2>3, JudgedFacts
  <2>5. UNCHANGED <<E!storeVars, judge>>
    BY DEF E!JudgeScores
  <2> QED BY <1>1, <1>4, <1>15, <2>4, <2>5, FileStep
<1> QED BY <1>6, <1>9, <1>10, <1>14, <1>15

LEMMA EvalNext == EvalInv /\ E!Next => EvalInv'
<1> SUFFICES ASSUME EvalInv, E!Next PROVE EvalInv'
  OBVIOUS
<1>1. /\ runs \in [Callers -> Run \cup {E!Nothing}] /\ pc \in [Callers -> Places] /\ job \in [Callers -> Job]
      /\ cases \in Seq(Case) /\ fresh \subseteq CaseIds
      /\ \A c \in Callers : JobInv(job[c], pc[c]) /\ RunInv(runs[c], job[c], pc[c])
  BY DEF EvalInv
<1>2. CASE E!CreateSuite
  <2>1. UNCHANGED <<cases, fresh, runs, pc, job>>
    BY <1>2 DEF E!CreateSuite
  <2> QED BY <2>1 DEF EvalInv
<1>3. CASE E!DeleteSuite
  <2>1. PICK s :
          /\ cases' = E!Only(cases, {k \in E!Elements(cases) : k.suite # s})
          /\ runs' = [c \in Callers |->
                        IF runs[c] # E!Nothing /\ runs[c].suite = s THEN E!Nothing ELSE runs[c]]
          /\ UNCHANGED <<fresh, pc, job>>
    BY <1>3 DEF E!DeleteSuite
  <2>2. cases' \in Seq(Case)
    BY <2>1, CasesKept
  <2>3. \A c \in Callers : runs'[c] \in {E!Nothing, runs[c]}
    BY <2>1
  <2>4. runs' \in [Callers -> Run \cup {E!Nothing}]
    BY <1>1, <2>1
  <2>5. \A c \in Callers : RunInv(runs'[c], job[c], pc[c])
    BY <1>1, <2>3, NothingFacts
  <2> QED BY <1>1, <2>1, <2>2, <2>4, <2>5 DEF EvalInv
<1>4. CASE E!AddCase
  <2>1. PICK id, s, t, items, threshold :
          /\ id \in fresh /\ s \in Suites \ unborn /\ t \in Thresholds /\ items \in Rubrics
          /\ threshold = E!OrDefault(t, E!DefaultPassThreshold)
          /\ cases' = Append(cases, [id |-> id, suite |-> s, threshold |-> threshold,
                       items |-> [i \in DOMAIN items |-> E!OrDefault(items[i], threshold)]])
          /\ fresh' = fresh \ {id}
          /\ UNCHANGED <<runs, pc, job>>
    BY <1>4 DEF E!AddCase
  <2>2. id \in CaseIds
    BY <1>1, <2>1
  <2>3. PICK k \in Case : cases' = Append(cases, k)
    BY <2>1, <2>2, AddedCase
  <2>4. cases' \in Seq(Case) /\ fresh' \subseteq CaseIds
    BY <1>1, <2>1, <2>3
  <2> QED BY <1>1, <2>1, <2>4 DEF EvalInv
<1>5. CASE E!DeleteCase
  <2>1. PICK id :
          /\ cases' = E!Only(cases, {k \in E!Elements(cases) : k.id # id})
          /\ UNCHANGED <<fresh, runs, pc, job>>
    BY <1>5 DEF E!DeleteCase
  <2>2. cases' \in Seq(Case)
    BY <2>1, CasesKept
  <2> QED BY <1>1, <2>1, <2>2 DEF EvalInv
<1>6. ASSUME NEW c \in Callers, E!GetSuite(c) PROVE EvalInv'
  <2>1. /\ job[c] \in Job /\ JobInv(job[c], "idle") /\ RunInv(runs[c], job[c], "idle")
        /\ runs[c] \in Run \cup {E!Nothing}
    BY <1>1, <1>6 DEF E!GetSuite
  <2>2. /\ cases' = cases /\ fresh' = fresh /\ Becomes(runs, runs', c, runs[c])
        /\ "list" \in Places /\ "failed" \in Places
    BY <1>6, Stays DEF E!GetSuite, E!storeVars, Places
  <2>3. ASSUME NEW s \in Suites \ unborn, job' = [job EXCEPT ![c].suite = s], E!Goto(c, "list")
        PROVE  EvalInv'
    <3> DEFINE j == [job[c] EXCEPT !.suite = s]
    <3>1. j \in Job /\ j.listed = job[c].listed /\ j.results = job[c].results /\ j.verdicts = job[c].verdicts
      BY <2>1 DEF Job
    <3>2. JobInv(j, "list")
      BY <2>1, <3>1 DEF JobInv
    <3>3. Becomes(job, job', c, j)
      <4>1. job' \in [Callers -> {job'[d] : d \in Callers}] /\ job'[c] = j
            /\ \A d \in Callers : d # c => job'[d] = job[d]
        BY <1>1, <2>3
      <4> QED BY <4>1 DEF Becomes
    <3>4. Becomes(pc, pc', c, "list") /\ RunInv(runs[c], j, "list")
      BY <2>1, <2>3, Stays, RunIdle
    <3> HIDE DEF j
    <3> QED BY <2>1, <2>2, <3>1, <3>2, <3>3, <3>4, OneCaller
  <2>4. ASSUME E!Goto(c, "failed"), UNCHANGED job PROVE EvalInv'
    <3>1. JobInv(job[c], "failed")
      BY <2>1 DEF JobInv
    <3>2. /\ Becomes(job, job', c, job[c]) /\ Becomes(pc, pc', c, "failed")
          /\ RunInv(runs[c], job[c], "failed")
      BY <2>1, <2>4, Stays, RunIdle
    <3> QED BY <2>1, <2>2, <3>1, <3>2, OneCaller
  <2> QED BY <1>6, <2>3, <2>4 DEF E!GetSuite
<1>7. ASSUME NEW c \in Callers, E!ListCases(c) PROVE EvalInv'
  <2>1. /\ job[c] \in Job /\ JobInv(job[c], "list") /\ RunInv(runs[c], job[c], "list")
        /\ runs[c] \in Run \cup {E!Nothing}
    BY <1>1, <1>7 DEF E!ListCases
  <2>2. PICK listed \in Seq(Case) : job' = [job EXCEPT ![c].listed = listed]
    <3>1. job' = [job EXCEPT ![c].listed =
                    E!Only(cases, {k \in E!Elements(cases) : k.suite = job[c].suite})]
      BY <1>7 DEF E!ListCases
    <3> QED BY <3>1, CasesKept
  <2> DEFINE j == [job[c] EXCEPT !.listed = listed]
  <2>3. j \in Job /\ j.listed = listed /\ j.results = <<>> /\ j.verdicts = <<>>
    BY <2>1 DEF Job, JobInv
  <2>4. JobInv(j, "create")
    <3>1. Len(<<>>) = 0 /\ 1..0 = {} /\ Len(listed) \in Nat
      OBVIOUS
    <3>2. Filed(j.listed, j.results)
      BY <2>3, <3>1 DEF Filed
    <3> QED BY <2>3, <3>2 DEF JobInv
  <2>5. Becomes(job, job', c, j)
    <3>1. job' \in [Callers -> {job'[d] : d \in Callers}] /\ job'[c] = j
          /\ \A d \in Callers : d # c => job'[d] = job[d]
      BY <1>1, <2>2
    <3> QED BY <3>1 DEF Becomes
  <2>6. /\ Becomes(pc, pc', c, "create") /\ RunInv(runs[c], j, "create")
        /\ cases' = cases /\ fresh' = fresh /\ Becomes(runs, runs', c, runs[c]) /\ "create" \in Places
    BY <1>7, <2>1, Stays, RunIdle DEF E!ListCases, E!storeVars, Places
  <2> HIDE DEF j
  <2> QED BY <2>1, <2>3, <2>4, <2>5, <2>6, OneCaller
<1>8. ASSUME NEW c \in Callers, E!CreateRun(c) PROVE EvalInv'
  <2>1. job[c] \in Job /\ JobInv(job[c], "create")
    BY <1>1, <1>8 DEF E!CreateRun
  <2> DEFINE r == [suite |-> job[c].suite, status |-> "running",
                   results |-> <<>>, summary |-> E!NoSummary]
  <2>2. r \in Run /\ RunInv(r, job[c], "agent")
    <3>1. <<>> \in Seq(Result) /\ E!NoSummary \in Summary
      BY DEF E!NoSummary, Summary
    <3>2. job[c].suite \in Suites \cup {"none"}
      BY <2>1 DEF Job
    <3> QED BY <3>1, <3>2 DEF Run, RunInv
  <2>3. JobInv(job[c], "agent")
    BY <2>1 DEF JobInv
  <2>4. Becomes(runs, runs', c, r)
    <3>1. runs' \in [Callers -> {runs'[d] : d \in Callers}] /\ runs'[c] = r
          /\ \A d \in Callers : d # c => runs'[d] = runs[d]
      BY <1>1, <1>8 DEF E!CreateRun
    <3> QED BY <3>1 DEF Becomes
  <2>5. /\ Becomes(job, job', c, job[c]) /\ Becomes(pc, pc', c, "agent")
        /\ cases' = cases /\ fresh' = fresh /\ "agent" \in Places
    BY <1>8, Stays DEF E!CreateRun, Places
  <2> HIDE DEF r
  <2> QED BY <2>1, <2>2, <2>3, <2>4, <2>5, OneCaller
<1>9. ASSUME NEW c \in Callers, E!AgentFails(c) \/ E!AgentAnswers(c) \/ E!JudgeFails(c)
      PROVE  EvalInv'
  <2>1. /\ job[c] \in Job /\ JobInv(job[c], pc[c]) /\ RunInv(runs[c], job[c], pc[c])
        /\ runs[c] \in Run \cup {E!Nothing} /\ pc[c] \in {"agent", "judge"}
        /\ UNCHANGED <<E!storeVars, judge>>
    BY <1>1, <1>9 DEF E!AgentFails, E!AgentAnswers, E!JudgeFails
  <2>2. Len(job[c].results) < Len(job[c].listed)
    <3>1. CASE pc[c] = "judge"
      BY <2>1, <3>1 DEF JobInv
    <3>2. CASE pc[c] = "agent"
      <4>1. PICK m \in Nat, n \in Nat : m = Len(job[c].results) /\ n = Len(job[c].listed)
        BY <2>1 DEF Job
      <4>2. m <= n
        BY <2>1, <4>1 DEF JobInv, Filed
      <4>3. m # n
        BY <1>9, <3>2, <4>1 DEF E!AgentFails, E!AgentAnswers, E!JudgeFails, E!Finished
      <4> QED BY <4>1, <4>2, <4>3
    <3> QED BY <2>1, <3>1, <3>2
  <2>3. \A why \in {"agent", "unjudged", "judge"}, response \in BOOLEAN :
          /\ E!FailedResult(c, why, response) \in Result
          /\ E!Earned(E!Current(c), E!FailedResult(c, why, response))
    BY <2>2, FailedFacts
  <2>4. \A why \in {"agent", "unjudged", "judge"}, response \in BOOLEAN :
          /\ E!File(c, E!FailedResult(c, why, response))
          /\ E!Goto(c, "agent") \/ (pc' = pc /\ pc[c] = "agent")
          => EvalInv'
    BY <2>1, <2>2, <2>3, FileStep
  <2>5. CASE E!AgentFails(c)
    <3>1. E!File(c, E!FailedResult(c, "agent", FALSE)) /\ pc' = pc /\ pc[c] = "agent"
      BY <2>5 DEF E!AgentFails
    <3> QED BY <2>4, <3>1
  <2>6. CASE E!JudgeFails(c)
    <3>1. E!File(c, E!FailedResult(c, "judge", TRUE)) /\ E!Goto(c, "agent")
      BY <2>6 DEF E!JudgeFails
    <3> QED BY <2>4, <3>1
  <2>7. ASSUME E!File(c, E!FailedResult(c, "unjudged", TRUE)), UNCHANGED pc, pc[c] = "agent"
        PROVE  EvalInv'
    BY <2>4, <2>7
  <2>8. ASSUME E!Goto(c, "judge"), UNCHANGED job, pc[c] = "agent" PROVE EvalInv'
    <3>1. job[c].verdicts = <<>>
      BY <2>1, <2>8 DEF JobInv
    <3>2. PICK k \in Case : k = job[c].listed[Len(job[c].results) + 1]
      BY <2>1, <2>2, CaseOf
    <3>3. Judged(k, <<>>)
      <4>1. k.items \in Seq(Positive)
        BY DEF Case
      <4>2. Len(<<>>) = 0 /\ 1..0 = {} /\ (k.items # <<>> => 0 < Len(k.items))
        BY <4>1
      <4> QED BY <4>2 DEF Judged
    <3>4. JobInv(job[c], "judge")
      BY <2>1, <2>2, <3>1, <3>2, <3>3 DEF JobInv
    <3>5. /\ Becomes(job, job', c, job[c]) /\ Becomes(pc, pc', c, "judge")
          /\ Becomes(runs, runs', c, runs[c]) /\ RunInv(runs[c], job[c], "judge")
          /\ cases' = cases /\ fresh' = fresh /\ "judge" \in Places
      BY <2>1, <2>8, Stays, RunUnderWay DEF E!storeVars, Places
    <3> QED BY <2>1, <3>4, <3>5, OneCaller
  <2> QED BY <1>9, <2>5, <2>6, <2>7, <2>8 DEF E!AgentAnswers
<1>10. ASSUME NEW c \in Callers, E!FinishRun(c) PROVE EvalInv'
  <2>1. /\ job[c] \in Job /\ JobInv(job[c], "agent") /\ RunInv(runs[c], job[c], "agent")
        /\ runs[c] \in Run \cup {E!Nothing}
    BY <1>1, <1>10 DEF E!FinishRun
  <2>2. /\ cases' = cases /\ fresh' = fresh /\ Becomes(job, job', c, job[c])
        /\ "returned" \in Places /\ "failed" \in Places
        /\ JobInv(job[c], "returned") /\ JobInv(job[c], "failed")
    BY <1>10, <2>1, Stays DEF E!FinishRun, Places, JobInv
  <2>3. CASE runs[c] # E!Nothing
    <3> DEFINE r == [runs[c] EXCEPT !.status = "completed", !.results = job[c].results,
                                    !.summary = E!ComputeSummary(job[c].results)]
    <3>1. job[c].results \in Seq(Result) /\ E!ComputeSummary(job[c].results) \in Summary
      BY <2>1, SummaryFacts DEF Job
    <3>2. /\ r \in Run /\ r.status = "completed" /\ r.results = job[c].results
          /\ r.summary = E!ComputeSummary(job[c].results)
      BY <2>1, <2>3, <3>1 DEF Run
    <3>3. RunInv(r, job[c], "returned")
      BY <1>10, <3>2 DEF RunInv, E!FinishRun, E!Finished
    <3>4. Becomes(runs, runs', c, r)
      <4>1. runs' \in [Callers -> {runs'[d] : d \in Callers}] /\ runs'[c] = r
            /\ \A d \in Callers : d # c => runs'[d] = runs[d]
        <5>1. /\ runs' = [runs EXCEPT ![c].status = "completed", ![c].results = job[c].results,
                                     ![c].summary = E!ComputeSummary(job[c].results)]
              /\ runs = [d \in Callers |-> runs[d]]
          BY <1>1, <1>10, <2>3, SMTT(30) DEF E!FinishRun
        <5> QED BY <5>1
      <4> QED BY <4>1 DEF Becomes
    <3>5. Becomes(pc, pc', c, "returned")
      BY <1>10, <2>3, Stays DEF E!FinishRun
    <3> HIDE DEF r
    <3> QED BY <2>1, <2>2, <3>2, <3>3, <3>4, <3>5, OneCaller
  <2>4. CASE runs[c] = E!Nothing
    <3>1. Becomes(pc, pc', c, "failed") /\ Becomes(runs, runs', c, runs[c])
      BY <1>10, <2>4, Stays DEF E!FinishRun
    <3>2. RunInv(runs[c], job[c], "failed")
      BY <2>4, NothingFacts
    <3> QED BY <2>1, <2>2, <3>1, <3>2, OneCaller
  <2> QED BY <2>3, <2>4
<1> QED BY <1>2, <1>3, <1>4, <1>5, <1>6, <1>7, <1>8, <1>9, <1>10, JudgeStep DEF E!Next

LEMMA EvalStutter == EvalInv /\ UNCHANGED <<evalVars, pc>> => EvalInv'
BY DEF EvalInv, evalVars

LEMMA EvalEarned ==
  ASSUME EvalInv
  PROVE  E!VerdictsEarned /\ E!NoRunLeftRunning
<1>1. ASSUME NEW c \in Callers, runs[c] # E!Nothing, runs[c].status = "completed"
      PROVE  /\ Len(runs[c].results) = Len(job[c].listed)
             /\ \A i \in DOMAIN runs[c].results : E!Earned(job[c].listed[i], runs[c].results[i])
             /\ runs[c].summary.total = runs[c].summary.passed + runs[c].summary.failed
             /\ runs[c].summary.passed =
                  Cardinality({i \in DOMAIN runs[c].results : runs[c].results[i].passed})
  <2>1. PICK rs \in Seq(Result) :
          /\ rs = runs[c].results /\ rs = job[c].results /\ Len(rs) = Len(job[c].listed)
          /\ runs[c].summary = E!ComputeSummary(rs)
    BY <1>1 DEF EvalInv, RunInv, Run
  <2>2. \A i \in 1..Len(rs) : E!Earned(job[c].listed[i], rs[i])
    BY <2>1 DEF EvalInv, JobInv, Filed
  <2>3. DOMAIN rs = 1..Len(rs)
    OBVIOUS
  <2> QED BY <2>1, <2>2, <2>3, SummaryFacts
<1>2. E!VerdictsEarned
  BY <1>1 DEF E!VerdictsEarned, E!Cardinality, Cardinality
<1>3. E!NoRunLeftRunning
  BY DEF E!NoRunLeftRunning, EvalInv, RunInv
<1> QED BY <1>2, <1>3

-----------------------------------------------------------------------------
(* compactor: what the groups of a pass hold. *)

LEMMA CompactorNumbers ==
  /\ Allowance \in Int /\ MessageFrame \in Int /\ MaxOlder \in Int
  /\ MessageCosts \subseteq Int /\ ReplyCosts \subseteq Int
BY ChunkAssumption

\* The operators of Lists, as ChunkedSummary knows them.
LEMMA FlatHere == ASSUME NEW s PROVE K!Flat(s) = Flat(s)
BY DEF K!Flat, Flat

LEMMA PickedHere == ASSUME NEW s, NEW g PROVE K!Picked(s, g) = Picked(s, g)
BY DEF K!Picked, Picked

LEMMA SumHere == ASSUME NEW s PROVE K!SumOf(s) = SumOf(s)
BY DEF K!SumOf, SumOf

Packing(n) == [closed : Seq(Seq(1..n)), open : Seq(1..n), used : Int]

NonePacked == [closed |-> <<>>, open |-> <<>>, used |-> 0]

\* A place goes into a new group or into the one that is open.
GoesInto(acc, i, new) ==
  \/ new.closed = Append(acc.closed, acc.open) /\ new.open = <<i>>
  \/ new.closed = acc.closed /\ new.open = Append(acc.open, i)

LEMMA AddFacts ==
  ASSUME NEW n \in Nat, NEW acc \in Packing(n), NEW i \in 1..n, NEW cost \in Int
  PROVE  K!Add(acc, i, cost) \in Packing(n) /\ GoesInto(acc, i, K!Add(acc, i, cost))
<1>1. PICK closed \in Seq(Seq(1..n)), open \in Seq(1..n), used \in Int :
        acc = [closed |-> closed, open |-> open, used |-> used]
  BY DEF Packing
<1>2. acc.closed = closed /\ acc.open = open /\ acc.used = used
  BY <1>1
<1>3. /\ Append(closed, open) \in Seq(Seq(1..n)) /\ Append(open, i) \in Seq(1..n)
      /\ <<i>> \in Seq(1..n) /\ used + cost \in Int
  OBVIOUS
<1>4. CASE acc.open # <<>> /\ acc.used + cost > Allowance
  <2>1. K!Add(acc, i, cost) = [closed |-> Append(closed, open), open |-> <<i>>, used |-> cost]
    BY <1>2, <1>4, Zenon DEF K!Add
  <2>2. [closed |-> Append(closed, open), open |-> <<i>>, used |-> cost] \in Packing(n)
    BY <1>3 DEF Packing
  <2> QED BY <1>2, <2>1, <2>2 DEF GoesInto
<1>5. CASE ~(acc.open # <<>> /\ acc.used + cost > Allowance)
  <2>1. K!Add(acc, i, cost) = [closed |-> closed, open |-> Append(open, i), used |-> used + cost]
    BY <1>2, <1>5, Zenon DEF K!Add
  <2>2. [closed |-> closed, open |-> Append(open, i), used |-> used + cost] \in Packing(n)
    BY <1>3 DEF Packing
  <2> QED BY <1>2, <2>1, <2>2 DEF GoesInto
<1> QED BY <1>4, <1>5

Packs(packed, costs) ==
  packed = [i \in 0..Len(costs) |-> IF i = 0 THEN NonePacked ELSE K!Add(packed[i - 1], i, costs[i])]

Packed(packed, costs) ==
  /\ packed[0] = NonePacked
  /\ \A i \in 1..Len(costs) : packed[i] = K!Add(packed[i - 1], i, costs[i])

LEMMA PacksPacked ==
  ASSUME NEW costs \in Seq(Int), NEW packed
  PROVE  Packs(packed, costs) <=> packed = [i \in 0..Len(costs) |-> packed[i]] /\ Packed(packed, costs)
<1> DEFINE N == Len(costs)
           Step(i) == IF i = 0 THEN NonePacked ELSE K!Add(packed[i - 1], i, costs[i])
<1>1. N \in Nat
  OBVIOUS
<1>2. Packs(packed, costs) <=> packed = [i \in 0..N |-> Step(i)]
  BY DEF Packs
<1>3. Packed(packed, costs) <=> \A i \in 0..N : packed[i] = Step(i)
  <2>1. Step(0) = NonePacked /\ \A i \in 1..N : Step(i) = K!Add(packed[i - 1], i, costs[i])
    BY <1>1
  <2> HIDE DEF Step
  <2>2. 0..N = {0} \cup 1..N
    BY <1>1
  <2> QED BY <2>1, <2>2 DEF Packed
<1> HIDE DEF Step, N
<1> QED BY <1>2, <1>3 DEF N

LEMMA PackedExists ==
  ASSUME NEW costs \in Seq(Int)
  PROVE  \E packed \in [0..Len(costs) -> Packing(Len(costs))] : Packed(packed, costs)
<1> DEFINE N == Len(costs)
           next == [i \in 1..N |-> [acc \in Packing(N) |-> K!Add(acc, i, costs[i])]]
<1>1. N \in Nat /\ \A i \in 1..N : costs[i] \in Int
  OBVIOUS
<1>2. NonePacked \in Packing(N)
  <2>1. <<>> \in Seq(Seq(1..N)) /\ <<>> \in Seq(1..N) /\ 0 \in Int
    OBVIOUS
  <2> QED BY <2>1 DEF NonePacked, Packing
<1> HIDE DEF N
<1>3. next \in Rules(N, Packing(N))
  <2>1. ASSUME NEW i \in 1..N, NEW acc \in Packing(N) PROVE K!Add(acc, i, costs[i]) \in Packing(N)
    BY <1>1, AddFacts
  <2> QED BY <2>1 DEF Rules
<1>4. ASSUME NEW i \in 1..N, NEW acc \in Packing(N) PROVE next[i][acc] = K!Add(acc, i, costs[i])
  OBVIOUS
<1> HIDE DEF next
<1>5. PICK f : Recursion(f, N, Packing(N), NonePacked, next)
  BY <1>1, <1>2, <1>3, RecursionExists
<1>6. ASSUME NEW i \in 1..N PROVE f[i] = K!Add(f[i - 1], i, costs[i])
  <2>1. i - 1 \in 0..N
    BY <1>1
  <2>2. f[i - 1] \in Packing(N) /\ f[i] = next[i][f[i - 1]]
    BY <1>5, <2>1 DEF Recursion
  <2> QED BY <1>4, <2>2
<1> QED BY <1>5, <1>6 DEF Recursion, Packed, N

LEMMA PackedUnique ==
  ASSUME NEW costs \in Seq(Int), NEW f, NEW g, Packed(f, costs), Packed(g, costs)
  PROVE  \A i \in 0..Len(costs) : f[i] = g[i]
<1> DEFINE P == {i \in 0..Len(costs) : f[i] = g[i]}
<1>0. Len(costs) \in Nat
  OBVIOUS
<1>1. 0 \in P
  BY <1>0 DEF Packed
<1>2. ASSUME NEW i \in 1..Len(costs), i - 1 \in P PROVE i \in P
  BY <1>0, <1>2 DEF Packed
<1> HIDE DEF P
<1>3. 0..Len(costs) \subseteq P
  BY <1>0, <1>1, <1>2, IntervalInduction
<1> QED BY <1>3 DEF P

LEMMA GroupsIsLast ==
  ASSUME NEW costs \in Seq(Int), NEW packed, Packed(packed, costs)
  PROVE  K!Groups(costs) = Append(packed[Len(costs)].closed, packed[Len(costs)].open)
<1> DEFINE Choice == CHOOSE f : Packs(f, costs)
           known == [i \in 0..Len(costs) |-> packed[i]]
<1>1. Packs(known, costs)
  <2>1. Len(costs) \in Nat /\ \A i \in 0..Len(costs) : known[i] = packed[i]
    OBVIOUS
  <2> HIDE DEF known
  <2>2. Packed(known, costs)
    <3>1. known[0] = packed[0]
      BY <2>1
    <3>2. ASSUME NEW i \in 1..Len(costs) PROVE known[i] = packed[i] /\ known[i - 1] = packed[i - 1]
      BY <2>1
    <3> QED BY <3>1, <3>2 DEF Packed
  <2>3. known = [i \in 0..Len(costs) |-> known[i]]
    BY DEF known
  <2> QED BY <2>2, <2>3, PacksPacked
<1>2. Packs(Choice, costs)
  BY <1>1
<1>3. K!Groups(costs) = Append(Choice[Len(costs)].closed, Choice[Len(costs)].open)
  BY DEF K!Groups, Packs, NonePacked
<1> HIDE DEF Choice
<1>4. Packed(Choice, costs)
  BY <1>2, PacksPacked
<1>5. Choice[Len(costs)] = packed[Len(costs)]
  <2>1. Len(costs) \in 0..Len(costs)
    OBVIOUS
  <2> QED BY <1>4, <2>1, PackedUnique
<1> QED BY <1>3, <1>5

Upto(n) == [i \in 1..n |-> i]

LEMMA UptoFacts ==
  ASSUME NEW n \in Nat
  PROVE  Upto(n) \in Seq(1..n) /\ Upto(n) \in Seq(Int) /\ Len(Upto(n)) = n
         /\ \A i \in 1..n : Upto(n)[i] = i
<1>1. Upto(n) \in [1..n -> 1..n] /\ Upto(n) \in [1..n -> Int] /\ \A i \in 1..n : Upto(n)[i] = i
  BY DEF Upto
<1> QED BY <1>1

LEMMA UptoNext ==
  ASSUME NEW n \in Nat, n # 0
  PROVE  Upto(n) = Append(Upto(n - 1), n)
<1>1. PICK m \in Nat : m = n - 1
  OBVIOUS
<1>2. PICK s \in Seq(Int), t \in Seq(Int) : s = Upto(n) /\ t = Upto(m)
  BY <1>1, UptoFacts
<1>3. /\ Len(s) = n /\ \A i \in 1..n : s[i] = i
      /\ Len(t) = m /\ \A i \in 1..m : t[i] = i
  BY <1>2, UptoFacts
<1>4. PICK u \in Seq(Int) : u = Append(t, n)
  <2>1. n \in Int
    OBVIOUS
  <2> QED BY <2>1, AppendFacts
<1>5. Len(u) = Len(t) + 1 /\ u[Len(t) + 1] = n /\ \A i \in 1..Len(t) : u[i] = t[i]
  <2>1. n \in Int
    OBVIOUS
  <2> QED BY <1>4, <2>1, AppendFacts
<1>6. Len(u) = n /\ \A i \in 1..n : u[i] = s[i]
  BY <1>1, <1>3, <1>5
<1>7. u = s
  BY <1>3, <1>6, SeqEqual
<1> QED BY <1>1, <1>2, <1>4, <1>7

\* The groups hold every place once, in order.
LEMMA GroupsCover ==
  ASSUME NEW costs \in Seq(Int)
  PROVE  K!Groups(costs) \in Seq(Seq(1..Len(costs))) /\ Flat(K!Groups(costs)) = Upto(Len(costs))
<1> DEFINE N == Len(costs)
           R == Seq(1..N)
<1>0. N \in Nat
  OBVIOUS
<1>1. PICK f \in [0..N -> Packing(N)] : Packed(f, costs)
  BY PackedExists
<1> DEFINE P == {i \in 0..N : Both(Flat(f[i].closed), f[i].open) = Upto(i)}
<1> HIDE DEF N
<1>2. 0 \in P
  <2>1. f[0].closed = <<>> /\ f[0].open = <<>>
    BY <1>1 DEF Packed, NonePacked
  <2>2. Upto(0) = <<>>
    BY DEF Upto
  <2>3. Both(<<>>, <<>>) = <<>>
    BY DEF Both
  <2> QED BY <1>0, <2>1, <2>2, <2>3, FlatEmpty
<1>3. ASSUME NEW i \in 1..N, i - 1 \in P PROVE i \in P
  <2>1. i - 1 \in 0..N /\ i \in 0..N /\ i \in Nat /\ i # 0 /\ costs[i] \in Int
    BY <1>0 DEF N
  <2>2. f[i - 1] \in Packing(N) /\ f[i] = K!Add(f[i - 1], i, costs[i])
    BY <1>1, <2>1 DEF Packed, N
  <2>3. PICK cs \in Seq(R), o \in R : cs = f[i - 1].closed /\ o = f[i - 1].open
    BY <2>2 DEF Packing
  <2>4. GoesInto(f[i - 1], i, f[i])
    BY <1>0, <2>1, <2>2, AddFacts
  <2>5. Both(Flat(cs), o) = Upto(i - 1)
    BY <1>3, <2>3
  <2>6. PICK c \in R : c = Flat(cs)
    BY FlatType
  <2>7. Both(Both(c, o), <<i>>) = Upto(i)
    <3>1. c \o o \in R /\ i \in 1..N
      BY ConcatFacts
    <3>2. (c \o o) \o <<i>> = Append(c \o o, i)
      BY <3>1, AppendIsConcat
    <3> QED BY <2>1, <2>5, <2>6, <3>2, UptoNext DEF Both
  <2>8. CASE f[i].closed = Append(cs, o) /\ f[i].open = <<i>>
    <3>1. Flat(f[i].closed) = Both(c, o)
      BY <2>6, <2>8, FlatAppend DEF Both
    <3>2. Both(Flat(f[i].closed), f[i].open) = Upto(i)
      BY <2>7, <2>8, <3>1
    <3> QED BY <2>1, <3>2
  <2>9. CASE f[i].closed = cs /\ f[i].open = Append(o, i)
    <3>1. Append(o, i) = o \o <<i>> /\ <<i>> \in R
      BY AppendIsConcat
    <3>2. c \o (o \o <<i>>) = (c \o o) \o <<i>>
      BY <3>1, ConcatAssociative
    <3>3. Both(c, Append(o, i)) = Both(Both(c, o), <<i>>)
      BY <3>1, <3>2 DEF Both
    <3>4. Both(Flat(f[i].closed), f[i].open) = Upto(i)
      BY <2>6, <2>7, <2>9, <3>3
    <3> QED BY <2>1, <3>4
  <2> QED BY <2>3, <2>4, <2>8, <2>9 DEF GoesInto
<1> HIDE DEF P
<1>4. 0..N \subseteq P
  BY <1>0, <1>2, <1>3, IntervalInduction
<1>5. PICK cs \in Seq(R), o \in R : cs = f[N].closed /\ o = f[N].open
  BY <1>0, <1>1 DEF Packing
<1>6. K!Groups(costs) = Append(cs, o)
  BY <1>1, <1>5, GroupsIsLast DEF N
<1>7. Flat(Append(cs, o)) = Flat(cs) \o o /\ Append(cs, o) \in Seq(R)
  BY FlatAppend, AppendFacts
<1>8. Flat(cs) \o o = Upto(N)
  <2>1. N \in P
    BY <1>0, <1>4
  <2>2. Both(Flat(f[N].closed), f[N].open) = Upto(N)
    BY <2>1 DEF P
  <2> QED BY <1>5, <2>2 DEF Both
<1> QED BY <1>6, <1>7, <1>8 DEF N

-----------------------------------------------------------------------------
(* compactor: what the bodies of a pass stand for. *)

Digest == [covers : Seq(Nat), cost : Int]

LEMMA ListOf ==
  ASSUME NEW T, NEW n \in Nat, NEW f \in [1..n -> T]
  PROVE  f \in Seq(T) /\ Len(f) = n
OBVIOUS

LEMMA BodyFacts ==
  ASSUME NEW covers \in Seq(Nat), NEW cost \in Int
  PROVE  K!Body(covers, cost) \in Digest /\ K!Body(covers, cost).covers = covers
BY DEF K!Body, Digest

LEMMA CoversFacts ==
  ASSUME NEW bodies \in Seq(Digest)
  PROVE  /\ K!CoversOf(bodies) \in Seq(Seq(Nat)) /\ Len(K!CoversOf(bodies)) = Len(bodies)
         /\ \A i \in 1..Len(bodies) : K!CoversOf(bodies)[i] = bodies[i].covers
<1>1. Len(bodies) \in Nat /\ DOMAIN bodies = 1..Len(bodies)
      /\ \A i \in 1..Len(bodies) : bodies[i] \in Digest
  OBVIOUS
<1>2. \A i \in 1..Len(bodies) : bodies[i].covers \in Seq(Nat)
  BY <1>1 DEF Digest
<1>3. K!CoversOf(bodies) \in [1..Len(bodies) -> Seq(Nat)]
      /\ \A i \in 1..Len(bodies) : K!CoversOf(bodies)[i] = bodies[i].covers
  BY <1>1, <1>2 DEF K!CoversOf
<1> QED BY <1>1, <1>3

LEMMA SameCovers ==
  ASSUME NEW a \in Seq(Digest), NEW b \in Seq(Digest), Len(a) = Len(b),
         \A i \in 1..Len(a) : a[i].covers = b[i].covers
  PROVE  K!Covers(a) = K!Covers(b)
<1>1. PICK x \in Seq(Seq(Nat)) : x = K!CoversOf(a) /\ Len(x) = Len(a) /\ \A i \in 1..Len(a) : x[i] = a[i].covers
  BY CoversFacts
<1>2. PICK y \in Seq(Seq(Nat)) : y = K!CoversOf(b) /\ Len(y) = Len(b) /\ \A i \in 1..Len(b) : y[i] = b[i].covers
  BY CoversFacts
<1>3. Len(x) = Len(y) /\ \A i \in 1..Len(x) : x[i] = y[i]
  BY <1>1, <1>2
<1>4. x = y
  BY <1>3, SeqEqual
<1> QED BY <1>1, <1>2, <1>4 DEF K!Covers

LEMMA WiderGroups ==
  ASSUME NEW n \in Nat
  PROVE  Seq(1..n) \subseteq Seq(Nat) /\ Seq(Seq(1..n)) \subseteq Seq(Seq(Nat))
<1>1. 1..n \subseteq Nat
  OBVIOUS
<1>2. Seq(1..n) \subseteq Seq(Nat)
  BY <1>1
<1>3. Seq(Seq(1..n)) \subseteq Seq(Seq(Nat))
  BY <1>2
<1> QED BY <1>2, <1>3

LEMMA TotalType ==
  ASSUME NEW costs \in Seq(Int), NEW group \in Seq(1..Len(costs))
  PROVE  K!Total(costs, group) \in Int
<1>1. Picked(costs, group) \in Seq(Int)
  BY PickedFacts
<1>2. K!Total(costs, group) = SumOf(Picked(costs, group))
  BY SumHere, PickedHere DEF K!Total
<1> QED BY <1>1, <1>2, SumType

\* The chunks of the first pass stand for every message, in order.
LEMMA ChunksCover ==
  ASSUME NEW messages \in Seq(Int)
  PROVE  /\ K!TranscriptChunks(messages) \in Seq(Digest)
         /\ K!Covers(K!TranscriptChunks(messages)) = K!Positions(messages)
<1>1. PICK n \in Nat : n = Len(messages) /\ DOMAIN messages = 1..n
  OBVIOUS
<1>2. PICK gs \in Seq(Seq(1..n)) : gs = K!Groups(messages) /\ Flat(gs) = Upto(n)
  BY <1>1, GroupsCover
<1>3. Len(gs) \in Nat /\ DOMAIN gs = 1..Len(gs) /\ \A k \in 1..Len(gs) : gs[k] \in Seq(1..n)
  OBVIOUS
<1> DEFINE Chunk(k) == K!Body(gs[k], K!Elided(K!Total(messages, gs[k])))
           chunks == [k \in 1..Len(gs) |-> Chunk(k)]
<1>4. K!TranscriptChunks(messages) = chunks
  BY <1>2, <1>3 DEF K!TranscriptChunks
<1>5. ASSUME NEW k \in 1..Len(gs) PROVE Chunk(k) \in Digest /\ Chunk(k).covers = gs[k]
  <2>1. K!Total(messages, gs[k]) \in Int
    BY <1>1, <1>3, TotalType
  <2>2. K!Elided(K!Total(messages, gs[k])) \in Int
    BY <2>1, CompactorNumbers DEF K!Elided
  <2>3. gs[k] \in Seq(Nat)
    BY <1>3, WiderGroups
  <2> QED BY <2>2, <2>3, BodyFacts
<1> HIDE DEF Chunk
<1>6. chunks \in Seq(Digest) /\ Len(chunks) = Len(gs) /\ \A k \in 1..Len(gs) : chunks[k].covers = gs[k]
  <2>1. chunks \in [1..Len(gs) -> Digest] /\ \A k \in 1..Len(gs) : chunks[k].covers = gs[k]
    BY <1>5
  <2> HIDE DEF chunks
  <2> QED BY <1>3, <2>1, ListOf
<1> HIDE DEF chunks
<1>7. PICK cs \in Seq(Seq(Nat)) :
        cs = K!CoversOf(chunks) /\ Len(cs) = Len(gs) /\ \A k \in 1..Len(gs) : cs[k] = gs[k]
  BY <1>6, CoversFacts
<1>8. cs = gs
  <2>1. gs \in Seq(Seq(Nat))
    BY WiderGroups
  <2> QED BY <1>7, <2>1, SeqEqual
<1>9. K!Covers(chunks) = Upto(n)
  BY <1>2, <1>7, <1>8, FlatHere DEF K!Covers
<1>10. K!Positions(messages) = Upto(n)
  BY <1>1 DEF K!Positions, Upto
<1> QED BY <1>4, <1>6, <1>9, <1>10

\* A merge pass stands for what its parts stood for.
LEMMA MergesCover ==
  ASSUME NEW ps \in Seq(Digest)
  PROVE  K!GroupParts(ps) \in Seq(Digest) /\ K!Covers(K!GroupParts(ps)) = K!Covers(ps)
<1>1. PICK n \in Nat : n = Len(ps) /\ DOMAIN ps = 1..n
  OBVIOUS
<1> DEFINE framed == [i \in DOMAIN ps |-> ps[i].cost + MessageFrame]
<1>2. framed \in Seq(Int) /\ Len(framed) = n
  <2>1. \A i \in 1..n : ps[i].cost \in Int
    <3>1. \A i \in 1..n : ps[i] \in Digest
      BY <1>1
    <3> QED BY <3>1 DEF Digest
  <2>2. framed \in [1..n -> Int]
    BY <1>1, <2>1, CompactorNumbers
  <2> QED BY <2>2
<1>3. PICK c \in Seq(Seq(Nat)) : c = K!CoversOf(ps) /\ Len(c) = n
  BY <1>1, CoversFacts
<1> DEFINE Merged(g) == K!Body(Flat(Picked(c, g)), IF Len(g) = 1 THEN ps[g[1]].cost ELSE K!Total(framed, g))
<1>4. K!GroupParts(ps) = [k \in DOMAIN K!Groups(framed) |-> Merged(K!Groups(framed)[k])]
  BY <1>3, FlatHere, PickedHere DEF K!GroupParts
<1>5. ASSUME NEW g \in Seq(1..n) PROVE Merged(g) \in Digest /\ Merged(g).covers = Flat(Picked(c, g))
  <2>1. Flat(Picked(c, g)) \in Seq(Nat)
    BY <1>3, PickedFacts, FlatType
  <2>2. K!Total(framed, g) \in Int
    BY <1>2, TotalType
  <2>3. Len(g) = 1 => ps[g[1]].cost \in Int
    <3>1. Len(g) = 1 => g[1] \in 1..n
      <4>1. \A i \in 1..Len(g) : g[i] \in 1..n
        BY LenProperties
      <4> QED BY <4>1
    <3>2. Len(g) = 1 => ps[g[1]] \in Digest
      BY <1>1, <3>1
    <3> QED BY <3>2 DEF Digest
  <2>4. (IF Len(g) = 1 THEN ps[g[1]].cost ELSE K!Total(framed, g)) \in Int
    BY <2>2, <2>3
  <2> QED BY <2>1, <2>4, BodyFacts
<1> HIDE DEF Merged
<1>6. PICK gs \in Seq(Seq(1..n)) : gs = K!Groups(framed) /\ Flat(gs) = Upto(n)
  BY <1>2, GroupsCover
<1>7. Len(gs) \in Nat /\ DOMAIN gs = 1..Len(gs) /\ \A k \in 1..Len(gs) : gs[k] \in Seq(1..n)
  OBVIOUS
<1> HIDE DEF framed
<1> DEFINE merged == [k \in 1..Len(gs) |-> Merged(gs[k])]
           each == [k \in DOMAIN gs |-> Flat(Picked(c, gs[k]))]
<1>8. K!GroupParts(ps) = merged
  BY <1>4, <1>6, <1>7
<1>9. merged \in Seq(Digest) /\ Len(merged) = Len(gs)
      /\ \A k \in 1..Len(gs) : merged[k].covers = Flat(Picked(c, gs[k]))
  <2>1. merged \in [1..Len(gs) -> Digest]
        /\ \A k \in 1..Len(gs) : merged[k].covers = Flat(Picked(c, gs[k]))
    BY <1>5, <1>7
  <2> HIDE DEF merged
  <2> QED BY <1>7, <2>1, ListOf
<1> HIDE DEF merged
<1>10. PICK cs \in Seq(Seq(Nat)) :
         cs = K!CoversOf(merged) /\ Len(cs) = Len(gs) /\ \A k \in 1..Len(gs) : cs[k] = Flat(Picked(c, gs[k]))
  BY <1>9, CoversFacts
<1>11. cs = each
  <2>1. DOMAIN cs = 1..Len(cs)
    BY LenProperties
  <2>2. cs = [k \in 1..Len(gs) |-> cs[k]]
    BY <1>10, <2>1
  <2> QED BY <1>7, <1>10, <2>2
<1>12. Flat(each) = Flat(Picked(c, Flat(gs)))
  BY <1>3, FlatPicked
<1>13. Picked(c, Upto(n)) = c
  BY <1>3, PickedAll DEF Upto
<1>14. K!Covers(merged) = Flat(c)
  BY <1>6, <1>10, <1>11, <1>12, <1>13, FlatHere DEF K!Covers
<1>15. K!Covers(ps) = Flat(c)
  BY <1>3, FlatHere DEF K!Covers
<1> QED BY <1>8, <1>9, <1>14, <1>15

LEMMA TailFacts ==
  ASSUME NEW T, NEW s \in Seq(T), s # <<>>
  PROVE  /\ Tail(s) \in Seq(T) /\ Len(Tail(s)) = Len(s) - 1
         /\ \A i \in 1..(Len(s) - 1) : Tail(s)[i] = s[i + 1]
OBVIOUS

ChunkInv ==
  /\ older \in Seq(Int) /\ parts \in Seq(Digest) /\ todo \in Seq(Digest)
  /\ outcome # "failed" => K!Covers(parts \o todo) = K!Positions(older)

LEMMA ChunkInit == K!Init => ChunkInv
<1>1. SUFFICES ASSUME K!Init PROVE ChunkInv
  OBVIOUS
<1>2. older \in Seq(Int)
  <2>1. PICK n \in 1..MaxOlder : older \in [1..n -> MessageCosts]
    BY <1>1 DEF K!Init
  <2>2. n \in Nat
    BY <2>1, CompactorNumbers
  <2>3. older \in [1..n -> Int]
    BY <2>1, CompactorNumbers
  <2> QED BY <2>2, <2>3
<1>3. todo = K!TranscriptChunks(older) /\ parts = <<>>
  BY <1>1 DEF K!Init
<1>4. todo \in Seq(Digest) /\ K!Covers(todo) = K!Positions(older)
  BY <1>2, <1>3, ChunksCover
<1>5. parts \o todo = todo /\ parts \in Seq(Digest)
  <2>1. <<>> \o todo = todo
    BY <1>4, ConcatEmptySeq
  <2> QED BY <1>3, <2>1
<1> QED BY <1>2, <1>4, <1>5 DEF ChunkInv

LEMMA ChunkNext ==
  ASSUME ChunkInv, K!Next
  PROVE  ChunkInv'
<1>1. older \in Seq(Int) /\ parts \in Seq(Digest) /\ todo \in Seq(Digest)
  BY DEF ChunkInv
<1>2. ASSUME NEW reply \in ReplyCosts, K!Summarized(reply) PROVE ChunkInv'
  <2>1. /\ todo # <<>> /\ outcome = "working"
        /\ parts' = Append(parts, K!Body(Head(todo).covers, reply)) /\ todo' = Tail(todo)
        /\ older' = older /\ outcome' = outcome
    BY <1>2 DEF K!Summarized, K!Call
  <2>2. PICK m \in Nat, n \in Nat : m = Len(parts) /\ n = Len(todo) /\ n >= 1
    BY <1>1, <2>1
  <2>3. PICK t \in Seq(Digest) : t = todo' /\ Len(t) = n - 1 /\ \A i \in 1..(n - 1) : t[i] = todo[i + 1]
    <3>1. /\ Tail(todo) \in Seq(Digest) /\ Len(Tail(todo)) = Len(todo) - 1
          /\ \A i \in 1..(Len(todo) - 1) : Tail(todo)[i] = todo[i + 1]
      BY <1>1, <2>1, TailFacts
    <3> QED BY <2>1, <2>2, <3>1
  <2>4. Head(todo) = todo[1] /\ todo[1] \in Digest
    BY <1>1, <2>1, <2>2
  <2>5. PICK b \in Digest : b = K!Body(Head(todo).covers, reply) /\ b.covers = todo[1].covers
    <3>1. todo[1].covers \in Seq(Nat) /\ reply \in Int
      BY <2>4, CompactorNumbers DEF Digest
    <3> QED BY <2>4, <3>1, BodyFacts
  <2>6. PICK p \in Seq(Digest) : p = parts' /\ Len(p) = m + 1 /\ p[m + 1] = b
          /\ \A i \in 1..m : p[i] = parts[i]
    <3>1. /\ Append(parts, b) \in Seq(Digest) /\ Len(Append(parts, b)) = Len(parts) + 1
          /\ Append(parts, b)[Len(parts) + 1] = b
          /\ \A i \in 1..Len(parts) : Append(parts, b)[i] = parts[i]
      BY <1>1, <2>5, AppendFacts
    <3> QED BY <2>1, <2>2, <2>5, <3>1
  <2>7. PICK old \in Seq(Digest) : old = parts \o todo /\ Joins(old, parts, todo)
    BY <1>1, ConcatFacts
  <2>8. PICK new \in Seq(Digest) : new = p \o t /\ Joins(new, p, t)
    BY ConcatFacts
  <2>9. /\ Len(old) = m + n /\ \A i \in 1..m : old[i] = parts[i]
        /\ \A i \in 1..n : old[m + i] = todo[i]
    BY <2>2, <2>7 DEF Joins
  <2>10. /\ Len(new) = m + n /\ \A i \in 1..(m + 1) : new[i] = p[i]
         /\ \A i \in 1..(n - 1) : new[m + 1 + i] = t[i]
    BY <2>2, <2>3, <2>6, <2>8, SMTT(30) DEF Joins
  <2>11. ASSUME NEW i \in 1..(m + n) PROVE new[i].covers = old[i].covers
    <3>1. CASE i <= m
      <4>1. i \in 1..m /\ i \in 1..(m + 1)
        BY <3>1
      <4> QED BY <2>6, <2>9, <2>10, <4>1
    <3>2. CASE i = m + 1
      <4>1. 1 \in 1..n /\ m + 1 \in 1..(m + 1)
        BY <2>2
      <4>2. old[m + 1] = todo[1] /\ new[m + 1] = b
        BY <2>6, <2>9, <2>10, <4>1
      <4> QED BY <2>5, <3>2, <4>2
    <3>3. CASE i > m + 1
      <4>1. PICK j \in 1..(n - 1) : i = m + 1 + j
        <5>1. i - (m + 1) \in 1..(n - 1) /\ i = m + 1 + (i - (m + 1))
          BY <2>2, <3>3
        <5> QED BY <5>1
      <4>2. j + 1 \in 1..n /\ m + (j + 1) = i
        BY <2>2, <4>1
      <4>3. new[i] = t[j] /\ old[i] = todo[j + 1] /\ t[j] = todo[j + 1]
        <5>1. old[m + (j + 1)] = todo[j + 1]
          BY <2>9, <4>2
        <5> QED BY <2>3, <2>10, <4>1, <4>2, <5>1
      <4> QED BY <4>3
    <3>4. i <= m \/ i = m + 1 \/ i > m + 1
      OBVIOUS
    <3> QED BY <3>1, <3>2, <3>3, <3>4
  <2>12. K!Covers(new) = K!Covers(old)
    BY <2>9, <2>10, <2>11, SameCovers
  <2>13. K!Covers(parts' \o todo') = K!Positions(older')
    BY <2>1, <2>3, <2>6, <2>7, <2>8, <2>12 DEF ChunkInv
  <2> QED BY <1>1, <2>1, <2>3, <2>6, <2>13 DEF ChunkInv
<1>3. CASE K!CallFails \/ K!TooManyRounds
  BY <1>1, <1>3 DEF K!CallFails, K!TooManyRounds, ChunkInv
<1>4. CASE K!OnePart
  <2>1. UNCHANGED <<older, todo, parts>> /\ outcome = "working"
    BY <1>4 DEF K!OnePart, K!PassEnds
  <2> QED BY <1>1, <2>1 DEF ChunkInv
<1>5. CASE K!NextRound
  <2>1. /\ todo = <<>> /\ outcome = "working" /\ todo' = K!GroupParts(parts) /\ parts' = <<>>
        /\ older' = older /\ outcome' = outcome
    BY <1>5 DEF K!NextRound, K!PassEnds
  <2>2. todo' \in Seq(Digest) /\ K!Covers(todo') = K!Covers(parts)
    BY <1>1, <2>1, MergesCover
  <2>3. parts \o <<>> = parts /\ <<>> \o todo' = todo'
    BY <1>1, <2>2, ConcatEmptySeq
  <2>4. K!Covers(parts' \o todo') = K!Covers(parts \o todo)
    BY <2>1, <2>2, <2>3
  <2>5. parts' \in Seq(Digest)
    BY <2>1
  <2> QED BY <1>1, <2>1, <2>2, <2>4, <2>5 DEF ChunkInv
<1> QED BY <1>2, <1>3, <1>4, <1>5 DEF K!Next

LEMMA ChunkStutter == ChunkInv /\ UNCHANGED chunkVars => ChunkInv'
BY DEF ChunkInv, chunkVars

-----------------------------------------------------------------------------
(* mem: the in-memory stores keep the contract's log. *)

MemInv == rows \in [Sessions -> Seq(Rows)]

KeptView == [s \in Sessions |-> IF s \in DOMAIN kept THEN kept[s] ELSE NoData]

LEMMA MemInit == M!Init => MemInv /\ M!Log!Init
<1> SUFFICES ASSUME M!Init PROVE MemInv /\ M!Log!Init
  OBVIOUS
<1>1. MemInv
  <2>1. <<>> \in Seq(Rows)
    OBVIOUS
  <2> QED BY <2>1 DEF M!Init, MemInv
<1>2. M!Log!Init
  BY DEF M!Init, M!Log!Init
<1> QED BY <1>1, <1>2

LEMMA MemNext ==
  ASSUME MemInv, M!Next
  PROVE  MemInv' /\ M!Log!Next
<1>1. PICK s \in Sessions :
        \/ \E row \in Rows : M!AppendStep(s, row)
        \/ \E n \in Windows : M!LastN(s, n)
        \/ \E d \in Snapshots \cup {NoData} : M!Put(s, d) \/ M!UpdateData(s, d)
        \/ M!Get(s) \/ M!Exists(s)
  BY DEF M!Next
<1>2. ASSUME NEW row \in Rows, M!AppendStep(s, row) PROVE MemInv' /\ M!Log!AppendStep(s, row)
  <2>1. rows' = [rows EXCEPT ![s] = Append(@, row)] /\ UNCHANGED <<kept, answer>>
    BY <1>2 DEF M!AppendStep
  <2>2. MemInv'
    <3>1. Append(rows[s], row) \in Seq(Rows)
      BY AppendFacts DEF MemInv
    <3> QED BY <2>1, <3>1 DEF MemInv
  <2>3. M!Log!AppendStep(s, row)
    BY <2>1 DEF M!Log!AppendStep, M!Log!MayMake
  <2> QED BY <2>2, <2>3
<1>3. ASSUME NEW n \in Windows, M!LastN(s, n) PROVE MemInv' /\ M!Log!LastN(s, n)
  <2>1. UNCHANGED <<rows, kept>>
    BY <1>3 DEF M!LastN
  <2>2. answer' = M!Log!Newest(rows[s], n)
    <3>1. Len(rows[s]) \in Int /\ n \in Int
      BY StoresAssumption DEF MemInv
    <3>2. n >= Len(rows[s]) <=> Len(rows[s]) <= n
      BY <3>1
    <3>3. answer' = IF n <= 0 \/ Len(rows[s]) <= n THEN rows[s]
                    ELSE SubSeq(rows[s], Len(rows[s]) - n + 1, Len(rows[s]))
      BY <1>3 DEF M!LastN
    <3> QED BY <3>2, <3>3 DEF M!Log!Newest
  <2> QED BY <2>1, <2>2 DEF MemInv, M!Log!LastN, M!Log!Answers
<1>4. ASSUME NEW d \in Snapshots \cup {NoData}, M!Write(s, d) PROVE MemInv' /\ M!Log!UpdateData(s, d)
  <2>1. /\ kept' = [i \in DOMAIN kept \cup {s} |-> IF i = s THEN d ELSE kept[i]]
        /\ UNCHANGED <<rows, answer>>
    BY <1>4 DEF M!Write
  <2>2. DOMAIN kept' = DOMAIN kept \cup {s}
    BY <2>1
  <2>3. KeptView' = [KeptView EXCEPT ![s] = d]
    BY <2>1, <2>2 DEF KeptView
  <2>4. M!Log!UpdateData(s, d)
    BY <2>1, <2>2, <2>3 DEF M!Log!UpdateData, KeptView
  <2> QED BY <2>1, <2>4 DEF MemInv
<1>5. M!Get(s) => MemInv' /\ M!Log!Get(s)
  BY DEF M!Get, M!Log!Get, M!Log!Answers, MemInv
<1>6. M!Exists(s) => MemInv' /\ M!Log!Exists(s)
  BY DEF M!Exists, M!Log!Exists, M!Log!Answers, MemInv
<1> QED BY <1>1, <1>2, <1>3, <1>4, <1>5, <1>6 DEF M!Put, M!UpdateData, M!Log!Next

LEMMA MemStutter == UNCHANGED memVars => (MemInv <=> MemInv')
BY DEF MemInv, memVars

-----------------------------------------------------------------------------
(* sql: the inductive invariant.  Whoever holds the write lock is at a     *)
(* place of his transaction where the draft is the tables with his own     *)
(* changes in them; nothing else differs from what is committed.           *)

StepRow == [session : Sessions, row : Rows]

\* The draft of an append and of a delete, at the commit.
Appended(p) == op[p] \in StepRow /\ draft = [sessions |-> Q!Touched(sessions, op[p].session),
                                             steps |-> Append(steps, op[p])]
Dropped(p) == op[p].session \in Sessions
              /\ draft = [sessions |-> Q!WithoutSession(sessions, op[p].session),
                          steps |-> Q!WithoutSteps(steps, op[p].session)]

Drafts(p) ==
  /\ pc[p] \in {"touch", "insert"} => op[p] \in StepRow
  /\ pc[p] \in {"drop", "dropSteps"} => op[p].session \in Sessions
  /\ pc[p] \in {"insert", "dropSteps", "commit"} <=> writer = p
  /\ pc[p] = "insert" =>
       draft = [sessions |-> Q!Touched(sessions, op[p].session), steps |-> steps]
  /\ pc[p] = "dropSteps" =>
       draft = [sessions |-> Q!WithoutSession(sessions, op[p].session), steps |-> steps]
  /\ pc[p] = "commit" => Appended(p) \/ Dropped(p)

SqlPlaces == {"idle", "touch", "insert", "drop", "dropSteps", "commit"}

SqlInv ==
  /\ steps \in Seq(StepRow)
  /\ pc \in [Procs -> SqlPlaces] /\ op = [p \in Procs |-> op[p]]
  /\ \A p \in Procs : Drafts(p)

\* The log of a session, and its working data.
RowsIn(st, s) == Q!RowsOf(Only(st, [session : {s}, row : Rows]))
LogView == [s \in Sessions |-> RowsIn(steps, s)]
DataView == [s \in Sessions |-> IF s \in DOMAIN sessions THEN sessions[s] ELSE NoData]

LEMMA Views ==
  /\ [s \in Sessions |-> Q!RowsOf(Q!StepsOf(s))] = LogView
  /\ [s \in Sessions |-> Q!RowsOf(Q!StepsOf(s))]' = LogView'
BY DEF Q!StepsOf, Q!Only, Only, LogView, RowsIn, Q!RowsOf

LEMMA NoRows == Q!RowsOf(<<>>) = <<>>
BY DEF Q!RowsOf

LEMMA RowsFacts ==
  ASSUME NEW st \in Seq(StepRow), NEW s \in Sessions
  PROVE  /\ RowsIn(st, s) \in Seq(Rows)
         /\ RowsIn(<<>>, s) = <<>>
<1>1. PICK sel \in Seq(StepRow) : sel = Only(st, [session : {s}, row : Rows])
  BY OnlyType
<1>2. PICK n \in Nat : n = Len(sel) /\ DOMAIN sel = 1..n /\ \A i \in 1..n : sel[i] \in StepRow
  BY LenProperties
<1>3. [i \in DOMAIN sel |-> sel[i].row] \in [1..n -> Rows]
  BY <1>2 DEF StepRow
<1>4. RowsIn(st, s) = [i \in DOMAIN sel |-> sel[i].row]
  BY <1>1 DEF RowsIn, Q!RowsOf
<1>5. RowsIn(st, s) \in Seq(Rows)
  BY <1>3, <1>4
<1>6. RowsIn(<<>>, s) = <<>>
  <2>1. Only(<<>>, [session : {s}, row : Rows]) = <<>>
    BY OnlyEmpty
  <2> QED BY <2>1, NoRows DEF RowsIn
<1> QED BY <1>5, <1>6

(* A step goes to the end of its own session's log. *)
LEMMA RowsAppend ==
  ASSUME NEW st \in Seq(StepRow), NEW x \in StepRow, NEW s \in Sessions
  PROVE  RowsIn(Append(st, x), s) = IF x.session = s THEN Append(RowsIn(st, s), x.row) ELSE RowsIn(st, s)
<1> DEFINE keep == [session : {s}, row : Rows]
<1>1. PICK sel \in Seq(StepRow) : sel = Only(st, keep)
  BY OnlyType
<1>2. Only(Append(st, x), keep) = IF x \in keep THEN Append(sel, x) ELSE sel
  <2> HIDE DEF keep
  <2> QED BY <1>1, OnlyAppend
<1>3. x \in keep <=> x.session = s
  BY DEF StepRow
<1>4. CASE x.session = s
  <2>1. PICK longer \in Seq(StepRow) : longer = Append(sel, x)
    BY AppendFacts
  <2>2. PICK n \in Nat : n = Len(sel) /\ DOMAIN sel = 1..n
    BY LenProperties
  <2>3. /\ DOMAIN longer = 1..n + 1 /\ Len(longer) = n + 1 /\ longer[n + 1] = x
        /\ \A i \in 1..n : longer[i] = sel[i]
    <3>1. /\ Append(sel, x) \in Seq(StepRow) /\ Len(Append(sel, x)) = Len(sel) + 1
          /\ Append(sel, x)[Len(sel) + 1] = x
          /\ \A i \in 1..Len(sel) : Append(sel, x)[i] = sel[i]
      BY AppendFacts
    <3> QED BY <2>1, <2>2, <3>1, LenProperties
  <2>4. PICK rs \in Seq(Rows) : rs = RowsIn(st, s) /\ rs = [i \in DOMAIN sel |-> sel[i].row]
    BY <1>1, RowsFacts DEF RowsIn, Q!RowsOf
  <2>5. Len(rs) = n /\ \A i \in 1..n : rs[i] = sel[i].row
    BY <2>2, <2>4
  <2>6. PICK ls \in Seq(Rows) : ls = RowsIn(Append(st, x), s) /\ ls = [i \in DOMAIN longer |-> longer[i].row]
    <3>1. Append(st, x) \in Seq(StepRow)
      BY AppendFacts
    <3>2. Only(Append(st, x), keep) = longer
      BY <1>2, <1>3, <1>4, <2>1
    <3> QED BY <3>1, <3>2, RowsFacts DEF RowsIn, Q!RowsOf
  <2>7. Len(ls) = n + 1 /\ ls[n + 1] = x.row /\ \A i \in 1..n : ls[i] = sel[i].row
    BY <2>3, <2>6
  <2>8. PICK as \in Seq(Rows) : as = Append(rs, x.row) /\ Len(as) = n + 1 /\ as[n + 1] = x.row
                               /\ \A i \in 1..n : as[i] = rs[i]
    <3>1. x.row \in Rows
      BY DEF StepRow
    <3>2. /\ Append(rs, x.row) \in Seq(Rows) /\ Len(Append(rs, x.row)) = Len(rs) + 1
          /\ Append(rs, x.row)[Len(rs) + 1] = x.row
          /\ \A i \in 1..Len(rs) : Append(rs, x.row)[i] = rs[i]
      BY <3>1, AppendFacts
    <3> QED BY <2>5, <3>2
  <2>9. \A i \in 1..n + 1 : ls[i] = as[i]
    <3>1. ASSUME NEW i \in 1..n + 1 PROVE ls[i] = as[i]
      <4>1. CASE i = n + 1
        BY <2>7, <2>8, <4>1
      <4>2. CASE i # n + 1
        <5>1. i \in 1..n
          BY <4>2
        <5> QED BY <2>5, <2>7, <2>8, <5>1
      <4> QED BY <4>1, <4>2
    <3> QED BY <3>1
  <2>10. ls = as
    BY <2>7, <2>8, <2>9, SeqEqual
  <2> QED BY <1>4, <2>4, <2>6, <2>8, <2>10
<1>5. CASE x.session # s
  BY <1>1, <1>2, <1>3, <1>5 DEF RowsIn
<1> QED BY <1>4, <1>5

(* A session's steps go, the others' stay. *)
LEMMA RowsDelete ==
  ASSUME NEW st \in Seq(StepRow), NEW s \in Sessions, NEW t \in Sessions
  PROVE  /\ Q!WithoutSteps(st, s) \in Seq(StepRow)
         /\ RowsIn(Q!WithoutSteps(st, s), t) = IF t = s THEN <<>> ELSE RowsIn(st, t)
<1> DEFINE a == [session : Sessions \ {s}, row : Rows]
           b == [session : {t}, row : Rows]
<1>1. Q!WithoutSteps(st, s) = Only(st, a)
  BY DEF Q!WithoutSteps, Q!Only, Only
<1>2. Q!WithoutSteps(st, s) \in Seq(StepRow)
  BY <1>1, OnlyType
<1>3. Only(Only(st, a), b) = Only(st, a \cap b)
  <2> HIDE DEF a, b
  <2> QED BY OnlyOnly
<1>4. CASE t = s
  <2>1. \A x \in StepRow : x \notin a \cap b
    BY <1>4
  <2>2. Only(st, a \cap b) = <<>>
    <3> HIDE DEF a, b
    <3> QED BY <2>1, OnlyNothing
  <2>3. RowsIn(Q!WithoutSteps(st, s), t) = <<>>
    BY <1>1, <1>3, <2>2, NoRows DEF RowsIn
  <2> QED BY <1>2, <1>4, <2>3
<1>5. CASE t # s
  <2>1. \A x \in StepRow : x \in a \cap b <=> x \in b
    BY <1>5 DEF StepRow
  <2>2. Only(st, a \cap b) = Only(st, b)
    <3> HIDE DEF a, b
    <3> QED BY <2>1, OnlySame
  <2> QED BY <1>1, <1>2, <1>3, <1>5, <2>2 DEF RowsIn
<1> QED BY <1>4, <1>5

-----------------------------------------------------------------------------
(* sql: reading from the newest row backwards and turning the answer round *)
(* is reading the newest rows.                                             *)

LEMMA ReverseFacts ==
  ASSUME NEW T, NEW seq \in Seq(T)
  PROVE  /\ Q!Reverse(seq) \in Seq(T) /\ Len(Q!Reverse(seq)) = Len(seq)
         /\ \A i \in 1..Len(seq) : Q!Reverse(seq)[i] = seq[(Len(seq) - i) + 1]
<1>1. PICK n \in Nat : n = Len(seq) /\ \A i \in 1..n : seq[i] \in T
  BY LenProperties
<1>2. Q!Reverse(seq) = [i \in 1..n |-> seq[(n - i) + 1]]
  BY <1>1 DEF Q!Reverse
<1>3. \A i \in 1..n : (n - i) + 1 \in 1..n
  OBVIOUS
<1>4. Q!Reverse(seq) \in [1..n -> T]
  BY <1>1, <1>2, <1>3
<1>5. Q!Reverse(seq) \in Seq(T) /\ Len(Q!Reverse(seq)) = n
  BY <1>2, <1>4
<1> QED BY <1>1, <1>2, <1>5

LEMMA ReverseTwice ==
  ASSUME NEW T, NEW seq \in Seq(T)
  PROVE  Q!Reverse(Q!Reverse(seq)) = seq
<1>1. PICK n \in Nat : n = Len(seq)
  OBVIOUS
<1>2. PICK r \in Seq(T) : r = Q!Reverse(seq) /\ Len(r) = n /\ \A i \in 1..n : r[i] = seq[(n - i) + 1]
  BY <1>1, ReverseFacts
<1>3. PICK t \in Seq(T) : t = Q!Reverse(r) /\ Len(t) = n /\ \A i \in 1..n : t[i] = r[(n - i) + 1]
  <2>1. /\ Q!Reverse(r) \in Seq(T) /\ Len(Q!Reverse(r)) = Len(r)
        /\ \A i \in 1..Len(r) : Q!Reverse(r)[i] = r[(Len(r) - i) + 1]
    BY ReverseFacts
  <2> QED BY <1>2, <2>1
<1>4. ASSUME NEW i \in 1..n PROVE t[i] = seq[i]
  <2>1. (n - i) + 1 \in 1..n /\ (n - ((n - i) + 1)) + 1 = i
    OBVIOUS
  <2> QED BY <1>2, <1>3, <2>1
<1> QED BY <1>1, <1>2, <1>3, <1>4, SeqEqual

(* The first n of the reversed rows, reversed, are the last n rows. *)
LEMMA ReverseHead ==
  ASSUME NEW T, NEW seq \in Seq(T), NEW n \in Nat, n <= Len(seq)
  PROVE  Q!Reverse(Part(Q!Reverse(seq), 0, n)) = Part(seq, Len(seq) - n, Len(seq))
<1>1. PICK l \in Nat : l = Len(seq) /\ n <= l
  OBVIOUS
<1>2. PICK r \in Seq(T) : r = Q!Reverse(seq) /\ Len(r) = l /\ \A i \in 1..l : r[i] = seq[(l - i) + 1]
  BY <1>1, ReverseFacts
<1>3. PICK p \in Seq(T) : p = Part(r, 0, n) /\ Cuts(p, r, 0, n)
  <2>1. 0 \in Nat /\ 0 <= n /\ n <= Len(r)
    BY <1>1, <1>2
  <2> QED BY <2>1, PartFacts
<1>4. Len(p) = n /\ \A i \in 1..n : p[i] = r[i]
  BY <1>3 DEF Cuts
<1>5. PICK t \in Seq(T) : t = Q!Reverse(p) /\ Len(t) = n /\ \A i \in 1..n : t[i] = p[(n - i) + 1]
  <2>1. /\ Q!Reverse(p) \in Seq(T) /\ Len(Q!Reverse(p)) = Len(p)
        /\ \A i \in 1..Len(p) : Q!Reverse(p)[i] = p[(Len(p) - i) + 1]
    BY ReverseFacts
  <2> QED BY <1>4, <2>1
<1>6. PICK q \in Seq(T) : q = Part(seq, l - n, l) /\ Cuts(q, seq, l - n, l)
  <2>1. l - n \in Nat /\ l - n <= l /\ l <= Len(seq)
    BY <1>1
  <2> QED BY <1>1, <2>1, PartFacts
<1>7. Len(q) = n /\ \A i \in 1..n : q[i] = seq[(l - n) + i]
  <2>1. l - (l - n) = n
    BY <1>1
  <2> QED BY <1>6, <2>1 DEF Cuts
<1>8. ASSUME NEW i \in 1..n PROVE t[i] = q[i]
  <2>1. PICK j \in 1..n : j = (n - i) + 1 /\ j \in 1..l /\ (l - j) + 1 = (l - n) + i
    BY <1>1
  <2>2. t[i] = p[j] /\ p[j] = r[j]
    BY <1>4, <1>5, <2>1
  <2>3. r[j] = seq[(l - j) + 1]
    BY <1>2, <2>1
  <2> QED BY <1>7, <2>1, <2>2, <2>3
<1> QED BY <1>1, <1>2, <1>3, <1>5, <1>6, <1>7, <1>8, SeqEqual

LEMMA NewestRows ==
  ASSUME SqlInv, NEW s \in Sessions, NEW n \in Windows
  PROVE  Q!Reverse(Q!NewestFirst(s, n)) = Q!Log!Newest(LogView[s], n)
<1>1. PICK rs \in Seq(Rows) : rs = RowsIn(steps, s)
  BY RowsFacts DEF SqlInv
<1>2. Q!RowsOf(Q!StepsOf(s)) = rs /\ LogView[s] = rs
  BY <1>1 DEF Q!StepsOf, Q!Only, Only, RowsIn, LogView
<1>3. PICK l \in Nat : l = Len(rs)
  OBVIOUS
<1>4. n \in Int
  BY StoresAssumption
<1>5. PICK d \in Seq(Rows) : d = Q!Reverse(rs) /\ Len(d) = l
  BY <1>3, ReverseFacts
<1>6. Q!NewestFirst(s, n) = IF n <= 0 \/ n > l THEN d ELSE SubSeq(d, 1, n)
  BY <1>2, <1>5 DEF Q!NewestFirst
<1>7. Q!Log!Newest(rs, n) = IF n <= 0 \/ n >= l THEN rs ELSE SubSeq(rs, l - n + 1, l)
  BY <1>3 DEF Q!Log!Newest
<1>8. CASE n <= 0 \/ n > l
  <2>1. Q!NewestFirst(s, n) = d
    BY <1>6, <1>8
  <2>2. Q!Log!Newest(rs, n) = rs
    BY <1>3, <1>4, <1>7, <1>8
  <2> QED BY <1>2, <1>5, <2>1, <2>2, ReverseTwice
<1>9. CASE ~ (n <= 0 \/ n > l)
  <2>1. n \in Nat /\ n <= Len(rs) /\ n <= l
    BY <1>3, <1>4, <1>9
  <2>2. Q!NewestFirst(s, n) = Part(d, 0, n)
    <3>1. 0 + 1 = 1
      OBVIOUS
    <3> QED BY <1>6, <1>9, <3>1 DEF Part
  <2>3. Q!Reverse(Part(d, 0, n)) = Part(rs, l - n, l)
    BY <1>3, <1>5, <2>1, ReverseHead
  <2>4. Part(rs, l - n, l) = Q!Log!Newest(rs, n)
    <3>1. CASE n = l
      <4>1. l - n = 0 /\ 0 \in Nat /\ l <= Len(rs) /\ 0 <= l /\ Len(rs) = l
        BY <1>3, <3>1
      <4>2. PICK p \in Seq(Rows) : p = Part(rs, 0, l) /\ Cuts(p, rs, 0, l)
        BY <4>1, PartFacts
      <4>3. Len(p) = l /\ \A i \in 1..l : p[i] = rs[i]
        BY <4>2 DEF Cuts
      <4>4. p = rs
        BY <4>1, <4>3, SeqEqual
      <4>5. Q!Log!Newest(rs, n) = rs
        BY <1>7, <3>1
      <4> QED BY <4>1, <4>2, <4>4, <4>5
    <3>2. CASE n # l
      <4>1. ~ (n <= 0 \/ n >= l)
        BY <1>4, <1>9, <2>1, <3>2
      <4> QED BY <1>7, <4>1 DEF Part
    <3> QED BY <3>1, <3>2
  <2> QED BY <1>2, <2>2, <2>3, <2>4
<1> QED BY <1>8, <1>9

-----------------------------------------------------------------------------
(* sql: every step is one step of the log, or none. *)

LEMMA TouchedFacts ==
  ASSUME NEW table, NEW s \in Sessions
  PROVE  /\ DOMAIN Q!Touched(table, s) = DOMAIN table \cup {s}
         /\ \A t \in Sessions :
              (IF t \in DOMAIN Q!Touched(table, s) THEN Q!Touched(table, s)[t] ELSE NoData) =
              (IF t \in DOMAIN table THEN table[t] ELSE NoData)
BY DEF Q!Touched

LEMMA UpsertedFacts ==
  ASSUME NEW table, NEW s \in Sessions, NEW d
  PROVE  /\ DOMAIN Q!Upserted(table, s, d) = DOMAIN table \cup {s}
         /\ \A t \in Sessions :
              (IF t \in DOMAIN Q!Upserted(table, s, d) THEN Q!Upserted(table, s, d)[t] ELSE NoData) =
              (IF t = s THEN d ELSE IF t \in DOMAIN table THEN table[t] ELSE NoData)
BY DEF Q!Touched, Q!Upserted

LEMMA DroppedFacts ==
  ASSUME NEW table, NEW s \in Sessions
  PROVE  /\ DOMAIN Q!WithoutSession(table, s) = DOMAIN table \ {s}
         /\ \A t \in Sessions :
              (IF t \in DOMAIN Q!WithoutSession(table, s) THEN Q!WithoutSession(table, s)[t] ELSE NoData) =
              (IF t = s THEN NoData ELSE IF t \in DOMAIN table THEN table[t] ELSE NoData)
BY DEF Q!WithoutSession

LEMMA SqlInit == Q!Init => SqlInv /\ Q!Log!Init
<1> SUFFICES ASSUME Q!Init PROVE SqlInv /\ Q!Log!Init
  OBVIOUS
<1>1. SqlInv
  <2>1. <<>> \in Seq(StepRow)
    OBVIOUS
  <2>2. \A p \in Procs : pc[p] = "idle" /\ writer # p
    BY StoresAssumption DEF Q!Init
  <2>3. \A p \in Procs : Drafts(p)
    BY <2>2 DEF Drafts
  <2> QED BY <2>1, <2>3 DEF Q!Init, SqlInv, SqlPlaces
<1>2. Q!Log!Init
  <2>1. \A s \in Sessions : RowsIn(steps, s) = <<>>
    <3>1. steps = <<>> /\ <<>> \in Seq(StepRow)
      BY DEF Q!Init
    <3> QED BY <3>1, RowsFacts
  <2>2. LogView = [s \in Sessions |-> <<>>]
    BY <2>1 DEF LogView
  <2>3. sessions = <<>> /\ answer = <<>>
    BY DEF Q!Init
  <2>4. DataView = [s \in Sessions |-> NoData] /\ DOMAIN sessions = {}
    BY <2>3 DEF DataView
  <2> QED BY <2>2, <2>3, <2>4, Views DEF Q!Log!Init, DataView
<1> QED BY <1>1, <1>2

\* No table changes: nothing happens to the log.
LEMMA SqlQuiet ==
  ASSUME UNCHANGED <<sessions, steps, answer>>
  PROVE  UNCHANGED Q!Log!logVars
BY DEF Q!Log!logVars, Q!StepsOf, Q!RowsOf, Q!Only

\* The invariant while one process moves and the tables stay.
LEMMA SqlOneProc ==
  ASSUME SqlInv, NEW p \in Procs, NEW place \in SqlPlaces, NEW args,
         UNCHANGED <<sessions, steps>>,
         pc' = [pc EXCEPT ![p] = place], op' = [op EXCEPT ![p] = args],
         Drafts(p)',
         \A q \in Procs : q # p => (writer' = q <=> writer = q) /\ (writer = q => draft' = draft)
  PROVE  SqlInv'
<1>1. pc' \in [Procs -> SqlPlaces] /\ op' = [q \in Procs |-> op'[q]] /\ steps' \in Seq(StepRow)
  BY DEF SqlInv
<1>2. ASSUME NEW q \in Procs, q # p PROVE Drafts(q)'
  <2>1. pc'[q] = pc[q] /\ op'[q] = op[q]
    BY <1>2 DEF SqlInv
  <2>2. Drafts(q)
    BY DEF SqlInv
  <2>3. (writer' = q <=> writer = q) /\ (writer = q => draft' = draft)
    BY <1>2
  <2> QED BY <2>1, <2>2, <2>3 DEF Drafts, Appended, Dropped
<1> QED BY <1>1, <1>2 DEF SqlInv

LEMMA ProcFacts ==
  ASSUME SqlInv, NEW p \in Procs
  PROVE  /\ Drafts(p) /\ pc[p] \in SqlPlaces
         /\ \A v : /\ [pc EXCEPT ![p] = v][p] = v /\ [op EXCEPT ![p] = v][p] = v
                   /\ [op EXCEPT ![p] = op[p]] = op
                   /\ [pc EXCEPT ![p] = pc[p]] = pc
BY DEF SqlInv

(* The invariant's part of the steps of a transaction, up to its end. *)
LEMMA SqlWorks ==
  ASSUME SqlInv, NEW p \in Procs,
         \/ \E s \in Sessions, row \in Rows : Q!BeginAppend(p, s, row)
         \/ \E s \in Sessions : Q!BeginDelete(p, s)
         \/ Q!TouchSession(p) \/ Q!InsertStep(p) \/ Q!DropSession(p) \/ Q!DropSteps(p)
  PROVE  SqlInv' /\ UNCHANGED <<sessions, steps, answer>>
<1>1. Drafts(p) /\ Nobody # p
  BY ProcFacts, StoresAssumption
<1>2. ASSUME NEW s \in Sessions, NEW row \in Rows, Q!BeginAppend(p, s, row)
      PROVE  SqlInv' /\ UNCHANGED <<sessions, steps, answer>>
  <2> DEFINE args == [session |-> s, row |-> row]
  <2>1. /\ pc' = [pc EXCEPT ![p] = "touch"] /\ op' = [op EXCEPT ![p] = args] /\ pc[p] = "idle"
        /\ UNCHANGED <<sessions, steps, answer, writer, draft>>
    BY <1>2 DEF Q!BeginAppend, Q!Goto, Q!Idle
  <2>2. pc'[p] = "touch" /\ op'[p] = args /\ args \in StepRow
    BY <2>1, ProcFacts DEF StepRow
  <2>3. Drafts(p)'
    BY <1>1, <2>1, <2>2 DEF Drafts
  <2>4. "touch" \in SqlPlaces
    BY DEF SqlPlaces
  <2> HIDE DEF args
  <2> QED BY <2>1, <2>3, <2>4, SqlOneProc
<1>3. ASSUME NEW s \in Sessions, Q!BeginDelete(p, s)
      PROVE  SqlInv' /\ UNCHANGED <<sessions, steps, answer>>
  <2> DEFINE args == [session |-> s, row |-> Nobody]
  <2>1. /\ pc' = [pc EXCEPT ![p] = "drop"] /\ op' = [op EXCEPT ![p] = args] /\ pc[p] = "idle"
        /\ UNCHANGED <<sessions, steps, answer, writer, draft>>
    BY <1>3 DEF Q!BeginDelete, Q!Goto, Q!Idle, Q!tables
  <2>2. pc'[p] = "drop" /\ op'[p] = args /\ args.session \in Sessions
    BY <2>1, ProcFacts
  <2>3. Drafts(p)'
    BY <1>1, <2>1, <2>2 DEF Drafts
  <2>4. "drop" \in SqlPlaces
    BY DEF SqlPlaces
  <2> HIDE DEF args
  <2> QED BY <2>1, <2>3, <2>4, SqlOneProc
<1>4. CASE Q!TouchSession(p)
  <2>1. /\ pc' = [pc EXCEPT ![p] = "insert"] /\ op' = op /\ pc[p] = "touch" /\ writer = Nobody
        /\ writer' = p /\ UNCHANGED <<sessions, steps, answer>>
        /\ draft' = [sessions |-> Q!Touched(sessions, op[p].session), steps |-> steps]
    BY <1>4 DEF Q!TouchSession, Q!Goto, Q!tables
  <2>2. pc'[p] = "insert" /\ op' = [op EXCEPT ![p] = op[p]]
    BY <2>1, ProcFacts
  <2>3. Drafts(p)'
    BY <1>1, <2>1, <2>2 DEF Drafts
  <2>4. \A q \in Procs : q # p => (writer' = q <=> writer = q) /\ (writer = q => draft' = draft)
    BY <2>1, StoresAssumption
  <2>5. "insert" \in SqlPlaces
    BY DEF SqlPlaces
  <2> QED BY <2>1, <2>2, <2>3, <2>4, <2>5, SqlOneProc
<1>5. CASE Q!InsertStep(p)
  <2>1. /\ pc' = [pc EXCEPT ![p] = "commit"] /\ op' = op /\ pc[p] = "insert"
        /\ draft' = [draft EXCEPT !.steps = Append(@, op[p])]
        /\ UNCHANGED <<sessions, steps, answer, writer>>
    BY <1>5 DEF Q!InsertStep, Q!Goto, Q!tables
  <2>2. pc'[p] = "commit" /\ op' = [op EXCEPT ![p] = op[p]] /\ writer = p
    BY <1>1, <2>1, ProcFacts DEF Drafts
  <2>3. draft = [sessions |-> Q!Touched(sessions, op[p].session), steps |-> steps] /\ op[p] \in StepRow
    BY <1>1, <2>1 DEF Drafts
  <2>4. draft' = [sessions |-> Q!Touched(sessions, op[p].session), steps |-> Append(steps, op[p])]
    BY <2>1, <2>3
  <2>5. Appended(p)'
    BY <2>1, <2>3, <2>4 DEF Appended
  <2>6. Drafts(p)'
    BY <2>1, <2>2, <2>5 DEF Drafts
  <2>7. "commit" \in SqlPlaces
    BY DEF SqlPlaces
  <2> QED BY <2>1, <2>2, <2>6, <2>7, SqlOneProc
<1>6. CASE Q!DropSession(p)
  <2>1. /\ pc' = [pc EXCEPT ![p] = "dropSteps"] /\ op' = op /\ pc[p] = "drop" /\ writer = Nobody
        /\ writer' = p /\ UNCHANGED <<sessions, steps, answer>>
        /\ draft' = [sessions |-> Q!WithoutSession(sessions, op[p].session), steps |-> steps]
    BY <1>6 DEF Q!DropSession, Q!Goto, Q!tables
  <2>2. pc'[p] = "dropSteps" /\ op' = [op EXCEPT ![p] = op[p]]
    BY <2>1, ProcFacts
  <2>3. Drafts(p)'
    BY <1>1, <2>1, <2>2 DEF Drafts
  <2>4. \A q \in Procs : q # p => (writer' = q <=> writer = q) /\ (writer = q => draft' = draft)
    BY <2>1, StoresAssumption
  <2>5. "dropSteps" \in SqlPlaces
    BY DEF SqlPlaces
  <2> QED BY <2>1, <2>2, <2>3, <2>4, <2>5, SqlOneProc
<1>7. CASE Q!DropSteps(p)
  <2>1. /\ pc' = [pc EXCEPT ![p] = "commit"] /\ op' = op /\ pc[p] = "dropSteps"
        /\ draft' = [draft EXCEPT !.steps = Q!WithoutSteps(@, op[p].session)]
        /\ UNCHANGED <<sessions, steps, answer, writer>>
    BY <1>7 DEF Q!DropSteps, Q!Goto, Q!tables
  <2>2. pc'[p] = "commit" /\ op' = [op EXCEPT ![p] = op[p]] /\ writer = p
    BY <1>1, <2>1, ProcFacts DEF Drafts
  <2>3. /\ draft = [sessions |-> Q!WithoutSession(sessions, op[p].session), steps |-> steps]
        /\ op[p].session \in Sessions
    BY <1>1, <2>1 DEF Drafts
  <2>4. draft' = [sessions |-> Q!WithoutSession(sessions, op[p].session),
                  steps |-> Q!WithoutSteps(steps, op[p].session)]
    BY <2>1, <2>3
  <2>5. Dropped(p)'
    BY <2>1, <2>3, <2>4 DEF Dropped
  <2>6. Drafts(p)'
    BY <2>1, <2>2, <2>5 DEF Drafts
  <2>7. "commit" \in SqlPlaces
    BY DEF SqlPlaces
  <2> QED BY <2>1, <2>2, <2>6, <2>7, SqlOneProc
<1> QED BY <1>2, <1>3, <1>4, <1>5, <1>6, <1>7

(* A rollback leaves the tables alone, whatever its transaction had done. *)
LEMMA SqlRollsBack ==
  ASSUME SqlInv, NEW p \in Procs, Q!Rollback(p)
  PROVE  SqlInv' /\ UNCHANGED <<sessions, steps, answer>>
<1>1. Drafts(p) /\ Nobody # p
  BY ProcFacts, StoresAssumption
<1>2. /\ pc' = [pc EXCEPT ![p] = "idle"] /\ op' = [op EXCEPT ![p] = Q!NoOp]
      /\ UNCHANGED <<sessions, steps, answer>>
      /\ IF writer = p THEN writer' = Nobody /\ draft' = Q!NoTables ELSE UNCHANGED <<writer, draft>>
  BY DEF Q!Rollback, Q!Ended, Q!Released, Q!Goto
<1>3. pc'[p] = "idle" /\ writer' # p
  BY <1>1, <1>2, ProcFacts
<1>4. Drafts(p)'
  BY <1>3 DEF Drafts
<1>5. \A q \in Procs : q # p => (writer' = q <=> writer = q) /\ (writer = q => draft' = draft)
  BY <1>2, StoresAssumption
<1>6. "idle" \in SqlPlaces
  BY DEF SqlPlaces
<1> QED BY <1>2, <1>4, <1>5, <1>6, SqlOneProc

(* While no transaction holds the lock, the tables may change under all. *)
LEMMA SqlUnlocked ==
  ASSUME SqlInv, writer = Nobody, steps' \in Seq(StepRow), UNCHANGED <<writer, draft, pc, op>>
  PROVE  SqlInv'
<1>1. ASSUME NEW p \in Procs PROVE Drafts(p)'
  <2>1. Drafts(p) /\ writer # p
    BY ProcFacts, StoresAssumption
  <2>2. pc[p] \notin {"insert", "dropSteps", "commit"}
    BY <2>1 DEF Drafts
  <2> QED BY <2>1, <2>2 DEF Drafts
<1> QED BY <1>1 DEF SqlInv

(* A commit is the append or the delete it was begun as. *)
LEMMA SqlCommits ==
  ASSUME SqlInv, NEW p \in Procs, Q!Commit(p)
  PROVE  SqlInv' /\ Q!Log!Next
<1>1. Drafts(p) /\ Nobody # p /\ steps \in Seq(StepRow)
  BY ProcFacts, StoresAssumption DEF SqlInv
<1>2. /\ pc[p] = "commit" /\ sessions' = draft.sessions /\ steps' = draft.steps /\ answer' = answer
      /\ pc' = [pc EXCEPT ![p] = "idle"] /\ op' = [op EXCEPT ![p] = Q!NoOp]
      /\ IF writer = p THEN writer' = Nobody /\ draft' = Q!NoTables ELSE UNCHANGED <<writer, draft>>
  BY DEF Q!Commit, Q!Ended, Q!Released, Q!Goto
<1>3. writer = p /\ writer' = Nobody /\ (Appended(p) \/ Dropped(p))
  BY <1>1, <1>2 DEF Drafts
<1>4. ASSUME steps' \in Seq(StepRow) PROVE SqlInv'
  <2>1. ASSUME NEW q \in Procs PROVE Drafts(q)'
    <3>1. pc'[q] \notin {"insert", "dropSteps", "commit"} /\ writer' # q
      <4>1. CASE q = p
        <5>1. pc'[p] = "idle"
          BY <1>2, ProcFacts
        <5> QED BY <1>1, <1>3, <4>1, <5>1
      <4>2. CASE q # p
        <5>1. Drafts(q) /\ writer # q /\ pc'[q] = pc[q]
          BY <1>2, <1>3, <4>2 DEF SqlInv
        <5>2. pc[q] \notin {"insert", "dropSteps", "commit"}
          BY <5>1 DEF Drafts
        <5> QED BY <1>3, <5>1, <5>2, StoresAssumption
      <4> QED BY <4>1, <4>2
    <3>2. /\ pc'[q] = "touch" => op'[q] \in StepRow
          /\ pc'[q] = "drop" => op'[q].session \in Sessions
      <4>1. CASE q = p
        BY <1>2, <4>1, ProcFacts
      <4>2. CASE q # p
        <5>1. Drafts(q) /\ pc'[q] = pc[q] /\ op'[q] = op[q]
          BY <1>2, <4>2 DEF SqlInv
        <5> QED BY <5>1 DEF Drafts
      <4> QED BY <4>1, <4>2
    <3> QED BY <3>1, <3>2 DEF Drafts
  <2>2. pc' \in [Procs -> SqlPlaces] /\ op' = [q \in Procs |-> op'[q]]
    BY <1>2 DEF SqlInv, SqlPlaces
  <2> QED BY <1>4, <2>1, <2>2 DEF SqlInv
<1>5. CASE Appended(p)
  <2>1. PICK s \in Sessions, row \in Rows : op[p].session = s /\ op[p].row = row /\ op[p] \in StepRow
    BY <1>5 DEF Appended, StepRow
  <2>2. sessions' = Q!Touched(sessions, s) /\ steps' = Append(steps, op[p])
    BY <1>2, <1>5, <2>1 DEF Appended
  <2>3. steps' \in Seq(StepRow)
    BY <1>1, <2>1, <2>2, AppendFacts
  <2>4. \A t \in Sessions : RowsIn(steps', t) = IF s = t THEN Append(RowsIn(steps, t), row) ELSE RowsIn(steps, t)
    BY <1>1, <2>1, <2>2, RowsAppend
  <2>5. LogView' = [LogView EXCEPT ![s] = Append(@, row)]
    <3>1. LogView' = [t \in Sessions |-> RowsIn(steps', t)]
      BY DEF LogView, RowsIn, Q!RowsOf
    <3> QED BY <2>4, <3>1 DEF LogView
  <2>6. DataView' = DataView /\ DOMAIN sessions' = DOMAIN sessions \cup {s}
    BY <2>2, TouchedFacts DEF DataView
  <2>7. Q!Log!AppendStep(s, row)
    BY <1>2, <2>5, <2>6, Views DEF Q!Log!AppendStep, Q!Log!MayMake, DataView
  <2> QED BY <1>4, <2>3, <2>7 DEF Q!Log!Next
<1>6. CASE Dropped(p)
  <2>1. PICK s \in Sessions : op[p].session = s
    BY <1>6 DEF Dropped
  <2>2. sessions' = Q!WithoutSession(sessions, s) /\ steps' = Q!WithoutSteps(steps, s)
    BY <1>2, <1>6, <2>1 DEF Dropped
  <2>3. /\ steps' \in Seq(StepRow)
        /\ \A t \in Sessions : RowsIn(steps', t) = IF t = s THEN <<>> ELSE RowsIn(steps, t)
    BY <1>1, <2>2, RowsDelete
  <2>4. LogView' = [LogView EXCEPT ![s] = <<>>]
    <3>1. LogView' = [t \in Sessions |-> RowsIn(steps', t)]
      BY DEF LogView, RowsIn, Q!RowsOf
    <3> QED BY <2>3, <3>1 DEF LogView
  <2>5. DataView' = [DataView EXCEPT ![s] = NoData] /\ DOMAIN sessions' = DOMAIN sessions \ {s}
    <3>1. \A t \in Sessions :
            (IF t \in DOMAIN sessions' THEN sessions'[t] ELSE NoData) =
            (IF t = s THEN NoData ELSE IF t \in DOMAIN sessions THEN sessions[t] ELSE NoData)
      <4>1. \A t \in Sessions :
              (IF t \in DOMAIN Q!WithoutSession(sessions, s)
                 THEN Q!WithoutSession(sessions, s)[t] ELSE NoData) =
              (IF t = s THEN NoData ELSE IF t \in DOMAIN sessions THEN sessions[t] ELSE NoData)
        BY DroppedFacts
      <4> QED BY <2>2, <4>1
    <3>2. DataView' = [t \in Sessions |-> IF t = s THEN NoData ELSE DataView[t]]
      BY <3>1 DEF DataView
    <3>3. [DataView EXCEPT ![s] = NoData] = [t \in Sessions |-> IF t = s THEN NoData ELSE DataView[t]]
      BY DEF DataView
    <3>4. DOMAIN sessions' = DOMAIN sessions \ {s}
      BY <2>2, DroppedFacts
    <3> QED BY <3>2, <3>3, <3>4
  <2>6. Q!Log!Delete(s)
    BY <1>2, <2>4, <2>5, Views DEF Q!Log!Delete, DataView
  <2> QED BY <1>4, <2>3, <2>6 DEF Q!Log!Next
<1> QED BY <1>3, <1>5, <1>6

LEMMA SqlStatement ==
  ASSUME SqlInv, NEW p \in Procs, NEW s \in Sessions,
         \/ \E d \in Snapshots \cup {NoData} : Q!UpdateData(p, s, d)
         \/ \E n \in Windows : Q!LastN(p, s, n)
         \/ Q!Finalize(p, s) \/ Q!Get(p, s) \/ Q!Exists(p, s)
  PROVE  SqlInv' /\ Q!Log!Next
<1>1. steps \in Seq(StepRow)
  BY DEF SqlInv
<1>2. steps' = steps => LogView' = LogView
  BY DEF LogView, RowsIn, Q!RowsOf
<1>3. ASSUME NEW d \in Snapshots \cup {NoData}, Q!UpdateData(p, s, d) PROVE SqlInv' /\ Q!Log!Next
  <2>1. /\ writer = Nobody /\ sessions' = Q!Upserted(sessions, s, d)
        /\ UNCHANGED <<steps, writer, draft, pc, op, answer>>
    BY <1>3 DEF Q!UpdateData, Q!transactions
  <2>2. SqlInv'
    BY <1>1, <2>1, SqlUnlocked
  <2>3. DataView' = [DataView EXCEPT ![s] = d] /\ DOMAIN sessions' = DOMAIN sessions \cup {s}
    BY <2>1, UpsertedFacts DEF DataView
  <2>4. Q!Log!UpdateData(s, d)
    BY <1>2, <2>1, <2>3, Views DEF Q!Log!UpdateData, DataView
  <2> QED BY <2>2, <2>4 DEF Q!Log!Next
<1>4. CASE Q!Finalize(p, s)
  <2>1. /\ writer = Nobody /\ sessions' = Q!Touched(sessions, s)
        /\ UNCHANGED <<steps, writer, draft, pc, op, answer>>
    BY <1>4 DEF Q!Finalize, Q!transactions
  <2>2. SqlInv'
    BY <1>1, <2>1, SqlUnlocked
  <2>3. DataView' = DataView /\ DOMAIN sessions' = DOMAIN sessions \cup {s}
    BY <2>1, TouchedFacts DEF DataView
  <2>4. Q!Log!Finalize(s)
    BY <1>2, <2>1, <2>3, Views DEF Q!Log!Finalize, Q!Log!MayMake, DataView
  <2> QED BY <2>2, <2>4 DEF Q!Log!Next
<1>5. ASSUME UNCHANGED <<sessions, steps, writer, draft, pc, op>>
      PROVE  SqlInv' /\ LogView' = LogView /\ DataView' = DataView
  <2>1. SqlInv'
    BY <1>5 DEF SqlInv, Drafts, Appended, Dropped
  <2> QED BY <1>2, <1>5, <2>1 DEF DataView
<1>6. ASSUME NEW n \in Windows, Q!LastN(p, s, n) PROVE SqlInv' /\ Q!Log!Next
  <2>1. UNCHANGED <<sessions, steps, writer, draft, pc, op>> /\ answer' = Q!Reverse(Q!NewestFirst(s, n))
    BY <1>6 DEF Q!LastN, Q!tables, Q!transactions
  <2>2. answer' = Q!Log!Newest(LogView[s], n)
    BY <2>1, NewestRows
  <2>3. Q!Log!LastN(s, n)
    BY <1>5, <2>1, <2>2, Views DEF Q!Log!LastN, Q!Log!Answers, DataView
  <2> QED BY <1>5, <2>1, <2>3 DEF Q!Log!Next
<1>7. CASE Q!Get(p, s)
  <2>1. /\ UNCHANGED <<sessions, steps, writer, draft, pc, op>>
        /\ answer' = <<IF s \in DOMAIN sessions THEN sessions[s] ELSE NoData>>
    BY <1>7 DEF Q!Get, Q!tables, Q!transactions
  <2>2. Q!Log!Get(s)
    BY <1>5, <2>1, Views DEF Q!Log!Get, Q!Log!Answers, DataView
  <2> QED BY <1>5, <2>1, <2>2 DEF Q!Log!Next
<1>8. CASE Q!Exists(p, s)
  <2>1. UNCHANGED <<sessions, steps, writer, draft, pc, op>> /\ answer' = <<s \in DOMAIN sessions>>
    BY <1>8 DEF Q!Exists, Q!tables, Q!transactions
  <2>2. Q!Log!Exists(s)
    BY <1>5, <2>1, Views DEF Q!Log!Exists, Q!Log!Answers, DataView
  <2> QED BY <1>5, <2>1, <2>2 DEF Q!Log!Next
<1> QED BY <1>3, <1>4, <1>6, <1>7, <1>8

LEMMA SqlNext ==
  ASSUME SqlInv, Q!Next
  PROVE  SqlInv' /\ (Q!Log!Next \/ UNCHANGED Q!Log!logVars)
<1>1. PICK p \in Procs :
        \/ Q!TouchSession(p) \/ Q!InsertStep(p) \/ Q!DropSession(p) \/ Q!DropSteps(p)
        \/ Q!Commit(p) \/ Q!Rollback(p)
        \/ \E s \in Sessions :
             \/ \E row \in Rows : Q!BeginAppend(p, s, row)
             \/ \E d \in Snapshots \cup {NoData} : Q!UpdateData(p, s, d)
             \/ \E n \in Windows : Q!LastN(p, s, n)
             \/ Q!BeginDelete(p, s) \/ Q!Finalize(p, s) \/ Q!Get(p, s) \/ Q!Exists(p, s)
  BY DEF Q!Next
<1>2. ASSUME \/ \E s \in Sessions, row \in Rows : Q!BeginAppend(p, s, row)
             \/ \E s \in Sessions : Q!BeginDelete(p, s)
             \/ Q!TouchSession(p) \/ Q!InsertStep(p) \/ Q!DropSession(p) \/ Q!DropSteps(p)
      PROVE  SqlInv' /\ UNCHANGED Q!Log!logVars
  BY <1>2, SqlWorks, SqlQuiet
<1>3. CASE Q!Rollback(p)
  BY <1>3, SqlRollsBack, SqlQuiet
<1>4. CASE Q!Commit(p)
  BY <1>4, SqlCommits
<1>5. ASSUME NEW s \in Sessions,
             \/ \E d \in Snapshots \cup {NoData} : Q!UpdateData(p, s, d)
             \/ \E n \in Windows : Q!LastN(p, s, n)
             \/ Q!Finalize(p, s) \/ Q!Get(p, s) \/ Q!Exists(p, s)
      PROVE  SqlInv' /\ Q!Log!Next
  BY <1>5, SqlStatement
<1> QED BY <1>1, <1>2, <1>3, <1>4, <1>5

LEMMA SqlStutter == SqlInv /\ UNCHANGED <<sqlVars, pc>> => SqlInv'
BY DEF SqlInv, sqlVars, Drafts, Appended, Dropped

-----------------------------------------------------------------------------
(* The composition. *)

ServicesInv ==
  /\ service = "eval" => EvalInv
  /\ service = "compactor" => ChunkInv
  /\ service = "sql" => SqlInv
  /\ service = "mem" => MemInv
  /\ service = "budget" => BudgetInv

LEMMA InitServicesInv == Init => ServicesInv
BY EvalInit, ChunkInit, SqlInit, MemInit, BudgetInit DEF Init, ServicesInv

LEMMA ServicesNext ==
  ASSUME ServicesInv, Next
  PROVE  ServicesInv'
<1>1. CASE service = "eval" /\ E!Next /\ UNCHANGED evalRest
  <2>1. EvalInv' /\ service' = "eval"
    BY <1>1, EvalNext DEF ServicesInv, evalRest
  <2> QED BY <2>1 DEF ServicesInv
<1>2. CASE service = "compactor" /\ K!Next /\ UNCHANGED chunkRest
  <2>1. ChunkInv' /\ service' = "compactor"
    BY <1>2, ChunkNext DEF ServicesInv, chunkRest
  <2> QED BY <2>1 DEF ServicesInv
<1>3. CASE service = "sql" /\ Q!Next /\ UNCHANGED sqlRest
  <2>1. SqlInv' /\ service' = "sql"
    BY <1>3, SqlNext DEF ServicesInv, sqlRest
  <2> QED BY <2>1 DEF ServicesInv
<1>4. CASE service = "mem" /\ M!Next /\ UNCHANGED memRest
  <2>1. MemInv' /\ service' = "mem"
    BY <1>4, MemNext DEF ServicesInv, memRest
  <2> QED BY <2>1 DEF ServicesInv
<1>5. CASE service = "budget" /\ B!Next /\ UNCHANGED budgetRest
  <2>1. BudgetInv' /\ service' = "budget"
    BY <1>5, BudgetNext DEF ServicesInv, budgetRest
  <2> QED BY <2>1 DEF ServicesInv
<1> QED BY <1>1, <1>2, <1>3, <1>4, <1>5 DEF Next

LEMMA ServicesStutter ==
  ASSUME ServicesInv, UNCHANGED vars
  PROVE  ServicesInv'
<1>1. UNCHANGED <<service, pc>> /\ UNCHANGED evalVars /\ UNCHANGED sqlVars /\ UNCHANGED memVars
      /\ UNCHANGED chunkVars /\ UNCHANGED budgetVars
  BY DEF vars
<1>2. (EvalInv => EvalInv') /\ (SqlInv => SqlInv')
  BY <1>1, EvalStutter, SqlStutter
<1>3. (MemInv => MemInv') /\ (BudgetInv => BudgetInv') /\ (ChunkInv => ChunkInv')
  BY <1>1, MemStutter, BudgetStutter, ChunkStutter
<1> QED BY <1>1, <1>2, <1>3 DEF ServicesInv

LEMMA ServicesInvariant == Spec => []ServicesInv
<1>1. ServicesInv /\ [Next]_vars => ServicesInv'
  BY ServicesNext, ServicesStutter
<1> QED BY <1>1, InitServicesInv, PTL DEF Spec

(* A completed run's verdicts are those its cases earned: one result for every
   case listed, in order, passed only on an answer that every mark of the judge
   leaves at the threshold or above, and a summary that counts them (RunSuite,
   judgeCase, computeSummary); for any suites, rubrics and number of callers. *)
THEOREM VerdictsAreEarned == Spec => []VerdictsEarned
<1>1. ServicesInv => VerdictsEarned
  BY EvalEarned DEF ServicesInv, VerdictsEarned
<1> QED BY <1>1, ServicesInvariant, PTL

(* A RunSuite that is back, with a run or an error, has closed the record it
   opened, whatever failed in between (RunSuite). *)
THEOREM RunsAreClosed == Spec => []NoRunLeftRunning
<1>1. ServicesInv => NoRunLeftRunning
  BY EvalEarned DEF ServicesInv, NoRunLeftRunning
<1> QED BY <1>1, ServicesInvariant, PTL

(* A summary has no silent hole: until a compaction fails, the calls made and to
   be made stand for every older message, once and in order, however they are
   chunked, grouped and regrouped (summarize, transcriptChunks, fold); for any
   number of messages of any size, any allowance and any replies. *)
THEOREM SummariesAreWhole == Spec => []NoSilentHole
<1>1. ServicesInv => NoSilentHole
  BY DEF ServicesInv, ChunkInv, NoSilentHole, K!NoSilentHole
<1> QED BY <1>1, ServicesInvariant, PTL

(* Both stores implement the log of the store contracts, step by step: every
   call of theirs is one atomic operation on it or none at all, with the same
   answer, however the transactions of the SQL store interleave and whichever
   of them roll back; for any processes, sessions, rows and windows. *)
THEOREM StoresImplementLog == Spec => StoresKeepLog
<1>1. Init => (service = "sql" => Q!Log!Init) /\ (service = "mem" => M!Log!Init)
  BY SqlInit, MemInit DEF Init
<1>2. ASSUME ServicesInv, [Next]_vars, service = "sql", ~UNCHANGED vars
      PROVE  Q!Log!Next \/ UNCHANGED Q!Log!logVars
  <2>1. Q!Next
    BY <1>2 DEF Next
  <2> QED BY <1>2, <2>1, SqlNext DEF ServicesInv
<1>3. ASSUME ServicesInv, [Next]_vars, service = "mem", ~UNCHANGED vars
      PROVE  M!Log!Next
  <2>1. M!Next
    BY <1>3 DEF Next
  <2> QED BY <1>3, <2>1, MemNext DEF ServicesInv
<1>4. ServicesInv /\ [Next]_vars => [service = "sql" => Q!Log!Next \/ UNCHANGED Q!Log!logVars]_vars
  BY <1>2
<1>5. ServicesInv /\ [Next]_vars => [service = "mem" => M!Log!Next \/ UNCHANGED M!Log!logVars]_vars
  BY <1>3
<1>6. Spec => (service = "sql" => Q!Log!Init) /\ (service = "mem" => M!Log!Init)
  BY <1>1, PTL DEF Spec
<1>7. Spec => [][service = "sql" => Q!Log!Next \/ UNCHANGED Q!Log!logVars]_vars
  BY <1>4, ServicesInvariant, PTL DEF Spec
<1>8. Spec => [][service = "mem" => M!Log!Next \/ UNCHANGED M!Log!logVars]_vars
  BY <1>5, ServicesInvariant, PTL DEF Spec
<1> QED BY <1>6, <1>7, <1>8, PTL DEF StoresKeepLog

(* What is sent fits the budget, or is reported as over it with nothing left
   to drop but the system prompt and the latest turn (ContextBudget.fit); for any
   budget, any costs and histories of any length. *)
THEOREM PromptFits == Spec => []FitsOrOver
<1>1. ServicesInv => FitsOrOver
  BY BudgetPromises DEF ServicesInv, FitsOrOver
<1> QED BY <1>1, ServicesInvariant, PTL

(* The size that is reported is the size of what is sent, or a marker's one
   token more: it never tells less than was sent (ContextBudget.fit, budgetDropMarker). *)
THEOREM SizeIsHonest == Spec => []TokensHonest
<1>1. ServicesInv => TokensHonest
  BY BudgetPromises DEF ServicesInv, TokensHonest
<1> QED BY <1>1, ServicesInvariant, PTL

(* Nothing is dropped that there was room for beside a marker, results of a
   dropped script aside: no cut that fits with one, the whole prompt included,
   keeps more than ContextBudget.fit's walk from the newest message back. *)
THEOREM NothingDroppedInVain == Spec => []DropsLeast
<1>1. ServicesInv => DropsLeast
  BY BudgetPromises DEF ServicesInv, DropsLeast
<1> QED BY <1>1, ServicesInvariant, PTL

(* No result is sent without the script it answers, unless it is the message
   that comes last and is never dropped (ContextBudget.fit). *)
THEOREM ResultsAreAccompanied == Spec => []NoStrandedResult
<1>1. ServicesInv => NoStrandedResult
  BY BudgetPromises DEF ServicesInv, NoStrandedResult
<1> QED BY <1>1, ServicesInvariant, PTL
=============================================================================
