---------------------------- MODULE Lists_proofs ----------------------------
(***************************************************************************)
(* Induction over numbers and sequences, with a set in place of the        *)
(* predicate, and what it gives for the operators of Lists.                *)
(***************************************************************************)
EXTENDS Lists, FiniteSetTheorems, WellFoundedInduction, SequenceTheorems, TLAPS

-----------------------------------------------------------------------------
(* Induction. *)

Below == {pair \in Nat \X Nat : pair[1] < pair[2]}

LEMMA BelowWellFounded == IsWellFoundedOn(Below, Nat)
BY NatLessThanWellFounded DEF OpToRel, Below

LEMMA SmallestExists ==
  ASSUME NEW T, T \subseteq Nat, T # {}
  PROVE  \E x \in T : \A y \in T : x <= y
<1>1. PICK x \in T : \A y \in T : ~(<<y, x>> \in Below)
  BY BelowWellFounded, WFMin
<1>2. ASSUME NEW y \in T PROVE x <= y
  <2>1. <<y, x>> \in Nat \X Nat /\ <<y, x>> \notin Below
    BY <1>1
  <2>2. ~(y < x)
    BY <2>1 DEF Below
  <2> QED BY <2>2
<1> QED BY <1>2

LEMMA LargestExists ==
  ASSUME NEW n \in Nat, NEW T, T \subseteq 0..n, T # {}
  PROVE  \E x \in T : \A y \in T : y <= x
<1> DEFINE S == {n - x : x \in T}
<1>1. S \subseteq Nat /\ S # {}
  <2>1. PICK x \in T : TRUE
    OBVIOUS
  <2>2. \A y \in T : n - y \in Nat
    OBVIOUS
  <2> QED BY <2>1, <2>2
<1>2. PICK z \in S : \A y \in S : z <= y
  BY <1>1, SmallestExists
<1>3. PICK x \in T : z = n - x
  BY <1>2
<1>4. \A y \in T : n - x <= n - y
  BY <1>2, <1>3
<1> QED BY <1>3, <1>4

LEMMA NumberInduction ==
  ASSUME NEW T, 0 \in T, \A n \in Nat : n \in T => n + 1 \in T
  PROVE  Nat \subseteq T
<1>1. SUFFICES ASSUME Nat \ T # {} PROVE FALSE
  OBVIOUS
<1>2. PICK x \in Nat \ T : \A y \in Nat \ T : x <= y
  BY <1>1, SmallestExists
<1>3. x # 0
  BY <1>2
<1>4. x - 1 \in Nat /\ x - 1 \in T
  BY <1>2, <1>3
<1> QED BY <1>2, <1>4

(* Up to a bound. *)
LEMMA IntervalInduction ==
  ASSUME NEW N \in Nat, NEW T, 0 \in T, \A n \in 1..N : n - 1 \in T => n \in T
  PROVE  0..N \subseteq T
<1> DEFINE P == {n \in Nat : n <= N => n \in T}
<1>1. 0 \in P
  OBVIOUS
<1>2. ASSUME NEW n \in Nat, n \in P PROVE n + 1 \in P
  <2>1. CASE n + 1 <= N
    <3>1. n + 1 \in 1..N /\ (n + 1) - 1 = n /\ n \in T
      BY <1>2, <2>1
    <3> QED BY <3>1
  <2> QED BY <2>1
<1> HIDE DEF P
<1>3. Nat \subseteq P
  BY <1>1, <1>2, NumberInduction
<1> QED BY <1>3 DEF P

LEMMA SequenceInduction ==
  ASSUME NEW T, NEW P, <<>> \in P,
         \A s \in Seq(T), x \in T : s \in P => Append(s, x) \in P
  PROVE  Seq(T) \subseteq P
<1> DEFINE Q == {n \in Nat : \A s \in Seq(T) : Len(s) = n => s \in P}
<1>1. 0 \in Q
  <2>1. ASSUME NEW s \in Seq(T), Len(s) = 0 PROVE s = <<>>
    BY <2>1
  <2> QED BY <2>1
<1>2. ASSUME NEW n \in Nat, n \in Q PROVE n + 1 \in Q
  <2>1. SUFFICES ASSUME NEW s \in Seq(T), Len(s) = n + 1 PROVE s \in P
    OBVIOUS
  <2> DEFINE front == SubSeq(s, 1, n)
  <2>2. front \in Seq(T) /\ Len(front) = n /\ s[n + 1] \in T
    BY <2>1
  <2>3. s = Append(front, s[n + 1])
    BY <2>1
  <2>4. front \in P
    BY <1>2, <2>2
  <2> HIDE DEF front
  <2> QED BY <2>2, <2>3, <2>4
<1> HIDE DEF Q
<1>3. Nat \subseteq Q
  BY <1>1, <1>2, NumberInduction
<1> QED BY <1>3 DEF Q

(* A function that each value makes of the one before exists. *)
Rules(N, T) == [1..N -> [T -> T]]

Recursion(f, N, T, first, next) ==
  f \in [0..N -> T] /\ f[0] = first /\ \A i \in 1..N : f[i] = next[i][f[i - 1]]

LEMMA RecursionExists ==
  ASSUME NEW N \in Nat, NEW T, NEW first \in T, NEW next \in Rules(N, T)
  PROVE  \E f : Recursion(f, N, T, first, next)
<1> USE DEF Rules
<1> DEFINE Upto(f, n) == f[0] = first /\ \A i \in 1..n : f[i] = next[i][f[i - 1]]
           Q == {n \in Nat : n <= N => \E f \in [0..n -> T] : Upto(f, n)}
<1>1. 0 \in Q
  <2>1. [i \in 0..0 |-> first] \in [0..0 -> T] /\ Upto([i \in 0..0 |-> first], 0)
    OBVIOUS
  <2> QED BY <2>1
<1>2. ASSUME NEW n \in Nat, n \in Q PROVE n + 1 \in Q
  <2>1. SUFFICES ASSUME n + 1 <= N PROVE \E f \in [0..n + 1 -> T] : Upto(f, n + 1)
    OBVIOUS
  <2>2. PICK f \in [0..n -> T] : Upto(f, n)
    BY <1>2, <2>1
  <2> DEFINE g == [i \in 0..n + 1 |-> IF i = n + 1 THEN next[n + 1][f[n]] ELSE f[i]]
  <2>3. f[n] \in T /\ n + 1 \in 1..N /\ next[n + 1][f[n]] \in T
    BY <2>1, <2>2
  <2>4. g \in [0..n + 1 -> T]
    BY <2>2, <2>3
  <2>5. g[0] = first
    BY <2>2
  <2>6. ASSUME NEW i \in 1..n + 1 PROVE g[i] = next[i][g[i - 1]]
    <3>1. CASE i = n + 1
      <4>1. g[i] = next[n + 1][f[n]] /\ g[i - 1] = f[n]
        BY <3>1
      <4> QED BY <3>1, <4>1
    <3>2. CASE i # n + 1
      <4>1. i \in 1..n /\ g[i] = f[i] /\ g[i - 1] = f[i - 1]
        BY <3>2
      <4> QED BY <2>2, <4>1
    <3> QED BY <3>1, <3>2
  <2> HIDE DEF g
  <2> QED BY <2>4, <2>5, <2>6
<1> HIDE DEF Q
<1>3. N \in Q
  BY <1>1, <1>2, NumberInduction
<1>4. PICK f \in [0..N -> T] : Upto(f, N)
  BY <1>3 DEF Q
<1> QED BY <1>4 DEF Recursion

-----------------------------------------------------------------------------
(* Only: the elements of a sequence that are in a set. *)

\* kept is the function that Only is the last value of.
Keeping(kept, seq, keep) ==
  kept = [i \in 0..Len(seq) |->
            IF i = 0 THEN <<>>
            ELSE IF seq[i] \in keep THEN Append(kept[i - 1], seq[i]) ELSE kept[i - 1]]

\* The equation, index by index.
Steps(kept, seq, keep) ==
  /\ kept[0] = <<>>
  /\ \A i \in 1..Len(seq) :
       kept[i] = IF seq[i] \in keep THEN Append(kept[i - 1], seq[i]) ELSE kept[i - 1]

LEMMA KeepingSteps ==
  ASSUME NEW T, NEW seq \in Seq(T), NEW keep, NEW kept
  PROVE  Keeping(kept, seq, keep) <=>
           kept = [i \in 0..Len(seq) |-> kept[i]] /\ Steps(kept, seq, keep)
<1> DEFINE N == Len(seq)
           Body(i) == IF i = 0 THEN <<>>
                      ELSE IF seq[i] \in keep THEN Append(kept[i - 1], seq[i]) ELSE kept[i - 1]
<1>1. N \in Nat
  OBVIOUS
<1>2. Keeping(kept, seq, keep) <=> kept = [i \in 0..N |-> Body(i)]
  BY DEF Keeping
<1>3. Steps(kept, seq, keep) <=> \A i \in 0..N : kept[i] = Body(i)
  <2>1. Body(0) = <<>> /\ \A i \in 1..N :
          Body(i) = IF seq[i] \in keep THEN Append(kept[i - 1], seq[i]) ELSE kept[i - 1]
    BY <1>1
  <2> HIDE DEF Body
  <2>2. 0..N = {0} \cup 1..N
    BY <1>1
  <2> QED BY <2>1, <2>2 DEF Steps
<1> HIDE DEF Body, N
<1> QED BY <1>2, <1>3 DEF N

LEMMA KeepingExists ==
  ASSUME NEW T, NEW seq \in Seq(T), NEW keep
  PROVE  \E kept \in [0..Len(seq) -> Seq(T)] : Steps(kept, seq, keep)
<1> DEFINE next == [i \in 1..Len(seq) |-> [o \in Seq(T) |->
                      IF seq[i] \in keep THEN Append(o, seq[i]) ELSE o]]
<1>1. Len(seq) \in Nat /\ <<>> \in Seq(T)
  OBVIOUS
<1>2. next \in Rules(Len(seq), Seq(T))
  <2>1. ASSUME NEW i \in 1..Len(seq), NEW o \in Seq(T)
        PROVE  (IF seq[i] \in keep THEN Append(o, seq[i]) ELSE o) \in Seq(T)
    OBVIOUS
  <2> QED BY <2>1 DEF Rules
<1>3. ASSUME NEW i \in 1..Len(seq), NEW o \in Seq(T)
      PROVE  next[i][o] = IF seq[i] \in keep THEN Append(o, seq[i]) ELSE o
  OBVIOUS
<1> HIDE DEF next
<1>4. PICK f : Recursion(f, Len(seq), Seq(T), <<>>, next)
  BY <1>1, <1>2, RecursionExists
<1>5. ASSUME NEW i \in 1..Len(seq)
      PROVE  f[i] = IF seq[i] \in keep THEN Append(f[i - 1], seq[i]) ELSE f[i - 1]
  <2>1. i - 1 \in 0..Len(seq)
    BY <1>1
  <2>2. f[i - 1] \in Seq(T) /\ f[i] = next[i][f[i - 1]]
    BY <1>4, <2>1 DEF Recursion
  <2> QED BY <1>3, <2>2
<1> QED BY <1>4, <1>5 DEF Recursion, Steps

LEMMA StepsUnique ==
  ASSUME NEW T, NEW seq \in Seq(T), NEW keep, NEW f, NEW g,
         Steps(f, seq, keep), Steps(g, seq, keep)
  PROVE  \A i \in 0..Len(seq) : f[i] = g[i]
<1> DEFINE P == {i \in 0..Len(seq) : f[i] = g[i]}
<1>0. Len(seq) \in Nat
  OBVIOUS
<1>1. 0 \in P
  BY DEF Steps
<1>2. ASSUME NEW i \in 1..Len(seq), i - 1 \in P PROVE i \in P
  BY <1>2 DEF Steps
<1> HIDE DEF P
<1>3. 0..Len(seq) \subseteq P
  BY <1>0, <1>1, <1>2, IntervalInduction
<1> QED BY <1>3 DEF P

LEMMA OnlyIsLast ==
  ASSUME NEW T, NEW seq \in Seq(T), NEW keep, NEW kept, Steps(kept, seq, keep)
  PROVE  Only(seq, keep) = kept[Len(seq)]
<1> DEFINE Choice == CHOOSE f : Keeping(f, seq, keep)
           known == [i \in 0..Len(seq) |-> kept[i]]
<1>1. Keeping(known, seq, keep)
  <2>1. Len(seq) \in Nat /\ \A i \in 0..Len(seq) : known[i] = kept[i]
    OBVIOUS
  <2> HIDE DEF known
  <2>2. Steps(known, seq, keep)
    BY <2>1 DEF Steps
  <2>3. known = [i \in 0..Len(seq) |-> known[i]]
    BY DEF known
  <2> QED BY <2>2, <2>3, KeepingSteps
<1>2. Keeping(Choice, seq, keep)
  BY <1>1
<1>3. Only(seq, keep) = Choice[Len(seq)]
  BY DEF Only, Keeping
<1> HIDE DEF Choice
<1>4. Steps(Choice, seq, keep)
  BY <1>2, KeepingSteps
<1>5. Choice[Len(seq)] = kept[Len(seq)]
  <2>1. Len(seq) \in 0..Len(seq)
    OBVIOUS
  <2> QED BY <1>4, <2>1, StepsUnique
<1> QED BY <1>3, <1>5

LEMMA OnlyType ==
  ASSUME NEW T, NEW seq \in Seq(T), NEW keep
  PROVE  Only(seq, keep) \in Seq(T)
<1>1. PICK kept \in [0..Len(seq) -> Seq(T)] : Steps(kept, seq, keep)
  BY KeepingExists
<1> QED BY <1>1, OnlyIsLast

LEMMA OnlyEmpty == ASSUME NEW keep PROVE Only(<<>>, keep) = <<>>
<1> DEFINE none == [i \in 0..0 |-> <<>>]
<1>1. <<>> \in Seq({}) /\ Len(<<>>) = 0
  OBVIOUS
<1>2. Steps(none, <<>>, keep)
  BY DEF Steps
<1>3. Only(<<>>, keep) = none[0]
  BY <1>1, <1>2, OnlyIsLast
<1> QED BY <1>3

LEMMA OnlyAppend ==
  ASSUME NEW T, NEW seq \in Seq(T), NEW x \in T, NEW keep
  PROVE  Only(Append(seq, x), keep) =
           IF x \in keep THEN Append(Only(seq, keep), x) ELSE Only(seq, keep)
<1> DEFINE longer == Append(seq, x)
           N == Len(seq)
<1>1. /\ longer \in Seq(T) /\ Len(longer) = N + 1 /\ longer[N + 1] = x /\ N \in Nat
      /\ \A i \in 1..N : longer[i] = seq[i]
  OBVIOUS
<1> HIDE DEF longer
<1>2. PICK kept \in [0..Len(longer) -> Seq(T)] : Steps(kept, longer, keep)
  BY <1>1, KeepingExists
<1>3. Steps(kept, seq, keep)
  BY <1>1, <1>2 DEF Steps
<1>4. Only(longer, keep) = kept[N + 1] /\ Only(seq, keep) = kept[N]
  BY <1>1, <1>2, <1>3, OnlyIsLast
<1>5. kept[N + 1] = IF x \in keep THEN Append(kept[N], x) ELSE kept[N]
  BY <1>1, <1>2 DEF Steps
<1> QED BY <1>4, <1>5 DEF longer

LEMMA AppendFacts ==
  ASSUME NEW T, NEW s \in Seq(T), NEW x \in T
  PROVE  /\ Append(s, x) \in Seq(T) /\ Len(s) \in Nat /\ Len(Append(s, x)) = Len(s) + 1
         /\ Append(s, x)[Len(s) + 1] = x
         /\ \A i \in 1..Len(s) : Append(s, x)[i] = s[i]
OBVIOUS

\* It has the elements that seq and keep have in common.
LEMMA ElementsAppend ==
  ASSUME NEW T, NEW s \in Seq(T), NEW x \in T
  PROVE  Elements(Append(s, x)) = Elements(s) \cup {x}
<1>1. PICK t \in Seq(T) : t = Append(s, x)
  BY AppendFacts
<1>2. /\ Len(s) \in Nat /\ Len(t) = Len(s) + 1
      /\ t[Len(s) + 1] = x /\ \A i \in 1..Len(s) : t[i] = s[i]
  BY <1>1, AppendFacts
<1>3. DOMAIN s = 1..Len(s) /\ DOMAIN t = (1..Len(s)) \cup {Len(s) + 1}
  BY <1>2
<1> QED BY <1>1, <1>2, <1>3 DEF Elements

LEMMA OnlyElements ==
  ASSUME NEW T, NEW seq \in Seq(T), NEW keep
  PROVE  Elements(Only(seq, keep)) = Elements(seq) \cap keep
<1> DEFINE P == {s \in Seq(T) : Elements(Only(s, keep)) = Elements(s) \cap keep}
<1>1. <<>> \in P
  <2>1. Elements(<<>>) = {}
    BY DEF Elements
  <2> QED BY <2>1, OnlyEmpty
<1>2. ASSUME NEW s \in Seq(T), NEW x \in T, s \in P PROVE Append(s, x) \in P
  <2>1. Only(s, keep) \in Seq(T) /\ Append(s, x) \in Seq(T)
    BY OnlyType
  <2>2. Elements(Only(s, keep)) = Elements(s) \cap keep
    BY <1>2
  <2>3. Elements(Append(s, x)) = Elements(s) \cup {x}
    BY ElementsAppend
  <2>4. CASE x \in keep
    <3>1. Only(Append(s, x), keep) = Append(Only(s, keep), x)
      BY <2>4, OnlyAppend
    <3>2. Elements(Only(Append(s, x), keep)) = Elements(Only(s, keep)) \cup {x}
      BY <2>1, <3>1, ElementsAppend
    <3> QED BY <2>1, <2>2, <2>3, <2>4, <3>2
  <2>5. CASE x \notin keep
    <3>1. Only(Append(s, x), keep) = Only(s, keep)
      BY <2>5, OnlyAppend
    <3> QED BY <2>1, <2>2, <2>3, <2>5, <3>1
  <2> QED BY <2>4, <2>5
<1> HIDE DEF P
<1>3. Seq(T) \subseteq P
  BY <1>1, <1>2, SequenceInduction
<1> QED BY <1>3 DEF P

\* What is kept of an increasing sequence increases.
Increasing(s) == \A i, j \in 1..Len(s) : i < j => s[i] < s[j]

LEMMA IncreasingAppend ==
  ASSUME NEW s \in Seq(Int), NEW x \in Int
  PROVE  Increasing(Append(s, x)) <=> Increasing(s) /\ \A i \in 1..Len(s) : s[i] < x
<1>1. PICK t : t = Append(s, x)
  OBVIOUS
<1>2. /\ Len(s) \in Nat /\ Len(t) = Len(s) + 1
      /\ t[Len(s) + 1] = x /\ \A i \in 1..Len(s) : t[i] = s[i]
  BY <1>1, AppendFacts
<1>3. \A i \in 1..Len(s) : i \in 1..Len(t) /\ i < Len(s) + 1 /\ Len(s) + 1 \in 1..Len(t)
  BY <1>2
<1>4. ASSUME Increasing(t) PROVE Increasing(s) /\ \A i \in 1..Len(s) : s[i] < x
  <2>1. ASSUME NEW i \in 1..Len(s) PROVE s[i] < x
    <3>1. t[i] < t[Len(s) + 1]
      BY <1>3, <1>4 DEF Increasing
    <3> QED BY <1>2, <3>1
  <2>2. ASSUME NEW i \in 1..Len(s), NEW j \in 1..Len(s), i < j PROVE s[i] < s[j]
    <3>1. t[i] < t[j]
      BY <1>3, <1>4, <2>2 DEF Increasing
    <3> QED BY <1>2, <3>1
  <2> QED BY <2>1, <2>2 DEF Increasing
<1>5. ASSUME Increasing(s), \A i \in 1..Len(s) : s[i] < x PROVE Increasing(t)
  <2>1. ASSUME NEW i \in 1..Len(t), NEW j \in 1..Len(t), i < j PROVE t[i] < t[j]
    <3>1. i \in 1..Len(s) /\ (j = Len(s) + 1 \/ j \in 1..Len(s))
      BY <1>2, <2>1
    <3> QED BY <1>2, <1>5, <2>1, <3>1 DEF Increasing
  <2> QED BY <2>1 DEF Increasing
<1> QED BY <1>1, <1>4, <1>5

LEMMA OnlyIncreasing ==
  ASSUME NEW seq \in Seq(Int), NEW keep, Increasing(seq)
  PROVE  Increasing(Only(seq, keep))
<1> DEFINE P == {s \in Seq(Int) : Increasing(s) => Increasing(Only(s, keep))}
<1>1. <<>> \in P
  <2>1. Increasing(<<>>)
    BY DEF Increasing
  <2> QED BY <2>1, OnlyEmpty
<1>2. ASSUME NEW s \in Seq(Int), NEW x \in Int, s \in P PROVE Append(s, x) \in P
  <2>1. PICK longer : longer = Append(s, x)
    OBVIOUS
  <2>2. longer \in Seq(Int)
    BY <2>1, AppendFacts
  <2>3. SUFFICES ASSUME Increasing(longer) PROVE Increasing(Only(longer, keep))
    BY <2>1, <2>2
  <2>4. Increasing(s) /\ \A i \in 1..Len(s) : s[i] < x
    BY <2>1, <2>3, IncreasingAppend
  <2>5. PICK o : o = Only(s, keep)
    OBVIOUS
  <2>6. o \in Seq(Int) /\ Increasing(o)
    BY <1>2, <2>4, <2>5, OnlyType
  <2>7. \A i \in 1..Len(o) : o[i] < x
    <3>1. Elements(o) = Elements(s) \cap keep
      BY <2>5, OnlyElements
    <3>2. ASSUME NEW i \in 1..Len(o) PROVE o[i] < x
      <4>1. i \in DOMAIN o /\ o[i] \in Elements(o)
        BY <2>6 DEF Elements
      <4>3. o[i] \in Elements(s)
        BY <3>1, <4>1
      <4>2. PICK j \in 1..Len(s) : o[i] = s[j]
        BY <4>3 DEF Elements
      <4> QED BY <2>4, <4>2
    <3> QED BY <3>2
  <2>8. Increasing(Append(o, x))
    BY <2>6, <2>7, IncreasingAppend
  <2>9. Only(longer, keep) = Append(o, x) \/ Only(longer, keep) = o
    BY <2>1, <2>5, OnlyAppend, ZenonT(60)
  <2> QED BY <2>6, <2>8, <2>9
<1> HIDE DEF P
<1>3. Seq(Int) \subseteq P
  BY <1>1, <1>2, SequenceInduction
<1> QED BY <1>3 DEF P

-----------------------------------------------------------------------------
(* SumOf: the sum of a sequence of numbers. *)

Adding(sum, nums) ==
  sum = [i \in 0..Len(nums) |-> IF i = 0 THEN 0 ELSE sum[i - 1] + nums[i]]

Sums(sum, nums) ==
  /\ sum[0] = 0
  /\ \A i \in 1..Len(nums) : sum[i] = sum[i - 1] + nums[i]

LEMMA AddingSums ==
  ASSUME NEW nums \in Seq(Int), NEW sum
  PROVE  Adding(sum, nums) <=> sum = [i \in 0..Len(nums) |-> sum[i]] /\ Sums(sum, nums)
<1> DEFINE N == Len(nums)
           Body(i) == IF i = 0 THEN 0 ELSE sum[i - 1] + nums[i]
<1>1. N \in Nat
  OBVIOUS
<1>2. Adding(sum, nums) <=> sum = [i \in 0..N |-> Body(i)]
  BY DEF Adding
<1>3. Sums(sum, nums) <=> \A i \in 0..N : sum[i] = Body(i)
  <2>1. Body(0) = 0 /\ \A i \in 1..N : Body(i) = sum[i - 1] + nums[i]
    BY <1>1
  <2> HIDE DEF Body
  <2>2. 0..N = {0} \cup 1..N
    BY <1>1
  <2> QED BY <2>1, <2>2 DEF Sums
<1> HIDE DEF Body, N
<1> QED BY <1>2, <1>3 DEF N

LEMMA SumsExist ==
  ASSUME NEW nums \in Seq(Int)
  PROVE  \E sum \in [0..Len(nums) -> Int] : Sums(sum, nums)
<1> DEFINE next == [i \in 1..Len(nums) |-> [v \in Int |-> v + nums[i]]]
<1>1. Len(nums) \in Nat /\ 0 \in Int
  OBVIOUS
<1>2. next \in Rules(Len(nums), Int)
  <2>1. ASSUME NEW i \in 1..Len(nums), NEW v \in Int PROVE v + nums[i] \in Int
    OBVIOUS
  <2> QED BY <2>1 DEF Rules
<1>3. ASSUME NEW i \in 1..Len(nums), NEW v \in Int PROVE next[i][v] = v + nums[i]
  OBVIOUS
<1> HIDE DEF next
<1>4. PICK f : Recursion(f, Len(nums), Int, 0, next)
  BY <1>1, <1>2, RecursionExists
<1>5. ASSUME NEW i \in 1..Len(nums) PROVE f[i] = f[i - 1] + nums[i]
  <2>1. i - 1 \in 0..Len(nums)
    BY <1>1
  <2>2. f[i - 1] \in Int /\ f[i] = next[i][f[i - 1]]
    BY <1>4, <2>1 DEF Recursion
  <2> QED BY <1>3, <2>2
<1> QED BY <1>4, <1>5 DEF Recursion, Sums

LEMMA SumsUnique ==
  ASSUME NEW nums \in Seq(Int), NEW f, NEW g, Sums(f, nums), Sums(g, nums)
  PROVE  \A i \in 0..Len(nums) : f[i] = g[i]
<1> DEFINE P == {i \in 0..Len(nums) : f[i] = g[i]}
<1>0. Len(nums) \in Nat
  OBVIOUS
<1>1. 0 \in P
  BY DEF Sums
<1>2. ASSUME NEW i \in 1..Len(nums), i - 1 \in P PROVE i \in P
  BY <1>2 DEF Sums
<1> HIDE DEF P
<1>3. 0..Len(nums) \subseteq P
  BY <1>0, <1>1, <1>2, IntervalInduction
<1> QED BY <1>3 DEF P

LEMMA SumOfIsLast ==
  ASSUME NEW nums \in Seq(Int), NEW sum, Sums(sum, nums)
  PROVE  SumOf(nums) = sum[Len(nums)]
<1> DEFINE Choice == CHOOSE f : Adding(f, nums)
           known == [i \in 0..Len(nums) |-> sum[i]]
<1>1. Adding(known, nums)
  <2>1. Len(nums) \in Nat /\ \A i \in 0..Len(nums) : known[i] = sum[i]
    OBVIOUS
  <2> HIDE DEF known
  <2>2. Sums(known, nums)
    BY <2>1 DEF Sums
  <2>3. known = [i \in 0..Len(nums) |-> known[i]]
    BY DEF known
  <2> QED BY <2>2, <2>3, AddingSums
<1>2. Adding(Choice, nums)
  BY <1>1
<1>3. SumOf(nums) = Choice[Len(nums)]
  BY DEF SumOf, Adding
<1> HIDE DEF Choice
<1>4. Sums(Choice, nums)
  BY <1>2, AddingSums
<1>5. Choice[Len(nums)] = sum[Len(nums)]
  <2>1. Len(nums) \in 0..Len(nums)
    OBVIOUS
  <2> QED BY <1>4, <2>1, SumsUnique
<1> QED BY <1>3, <1>5

LEMMA SumType ==
  ASSUME NEW nums \in Seq(Int)
  PROVE  SumOf(nums) \in Int
<1>1. PICK sum \in [0..Len(nums) -> Int] : Sums(sum, nums)
  BY SumsExist
<1> QED BY <1>1, SumOfIsLast

LEMMA SumEmpty == SumOf(<<>>) = 0
<1> DEFINE none == [i \in 0..0 |-> 0]
<1>1. <<>> \in Seq(Int) /\ Len(<<>>) = 0
  OBVIOUS
<1>2. Sums(none, <<>>)
  BY DEF Sums
<1>3. SumOf(<<>>) = none[0]
  BY <1>1, <1>2, SumOfIsLast
<1> QED BY <1>3

LEMMA SumAppend ==
  ASSUME NEW nums \in Seq(Int), NEW x \in Int
  PROVE  SumOf(Append(nums, x)) = SumOf(nums) + x
<1> DEFINE longer == Append(nums, x)
           N == Len(nums)
<1>1. /\ longer \in Seq(Int) /\ Len(longer) = N + 1 /\ longer[N + 1] = x /\ N \in Nat
      /\ \A i \in 1..N : longer[i] = nums[i]
  BY AppendFacts
<1> HIDE DEF longer
<1>2. PICK sum \in [0..Len(longer) -> Int] : Sums(sum, longer)
  BY <1>1, SumsExist
<1>3. Sums(sum, nums)
  BY <1>1, <1>2 DEF Sums
<1>4. SumOf(longer) = sum[N + 1] /\ SumOf(nums) = sum[N]
  BY <1>1, <1>2, <1>3, SumOfIsLast
<1>5. sum[N + 1] = sum[N] + x
  BY <1>1, <1>2 DEF Sums
<1> QED BY <1>4, <1>5 DEF longer

LEMMA SumConcat ==
  ASSUME NEW a \in Seq(Int), NEW b \in Seq(Int)
  PROVE  SumOf(a \o b) = SumOf(a) + SumOf(b)
<1> DEFINE P == {s \in Seq(Int) : SumOf(a \o s) = SumOf(a) + SumOf(s)}
<1>1. <<>> \in P
  <2>1. a \o <<>> = a /\ <<>> \in Seq(Int)
    OBVIOUS
  <2> QED BY <2>1, SumEmpty, SumType
<1>2. ASSUME NEW s \in Seq(Int), NEW x \in Int, s \in P PROVE Append(s, x) \in P
  <2>1. a \o Append(s, x) = Append(a \o s, x)
    OBVIOUS
  <2>2. Append(s, x) \in Seq(Int) /\ a \o s \in Seq(Int)
    OBVIOUS
  <2>3. SumOf(Append(a \o s, x)) = SumOf(a \o s) + x
    BY <2>2, SumAppend
  <2>4. SumOf(Append(s, x)) = SumOf(s) + x
    BY SumAppend
  <2>5. SumOf(a \o s) = SumOf(a) + SumOf(s)
    BY <1>2
  <2>6. SumOf(a) \in Int /\ SumOf(s) \in Int
    BY SumType
  <2>7. PICK u \in Int, v \in Int : u = SumOf(a) /\ v = SumOf(s)
    BY <2>6
  <2>8. SumOf(a \o Append(s, x)) = SumOf(a) + SumOf(Append(s, x))
    BY <2>1, <2>3, <2>4, <2>5, <2>7
  <2> QED BY <2>2, <2>8
<1> HIDE DEF P
<1>3. Seq(Int) \subseteq P
  BY <1>1, <1>2, SequenceInduction
<1> QED BY <1>3 DEF P

LEMMA SumNotNegative ==
  ASSUME NEW nums \in Seq(Nat)
  PROVE  SumOf(nums) \in Nat
<1> DEFINE P == {s \in Seq(Nat) : SumOf(s) \in Nat}
<1>1. <<>> \in P
  BY SumEmpty
<1>2. ASSUME NEW s \in Seq(Nat), NEW x \in Nat, s \in P PROVE Append(s, x) \in P
  <2>1. s \in Seq(Int) /\ x \in Int /\ Append(s, x) \in Seq(Nat)
    OBVIOUS
  <2>2. SumOf(Append(s, x)) = SumOf(s) + x
    BY <2>1, SumAppend
  <2>3. SumOf(s) \in Nat
    BY <1>2
  <2> QED BY <2>1, <2>2, <2>3
<1> HIDE DEF P
<1>3. Seq(Nat) \subseteq P
  BY <1>1, <1>2, SequenceInduction
<1> QED BY <1>3 DEF P

-----------------------------------------------------------------------------
(* Parts of a sequence, and two sequences joined. *)

\* What is left of s without its first m elements and those after the n-th.
Part(s, m, n) == SubSeq(s, m + 1, n)

Cuts(p, s, m, n) == Len(p) = n - m /\ \A i \in 1..(n - m) : p[i] = s[m + i]

Joins(c, a, b) ==
    /\ Len(c) = Len(a) + Len(b)
    /\ \A i \in 1..Len(a) : c[i] = a[i]
    /\ \A i \in 1..Len(b) : c[Len(a) + i] = b[i]

LEMMA PartFacts ==
    ASSUME NEW S, NEW s \in Seq(S), NEW m \in Nat, NEW n \in Nat, m <= n, n <= Len(s)
    PROVE  Part(s, m, n) \in Seq(S) /\ Cuts(Part(s, m, n), s, m, n)
<1>1. Len(s) \in Nat /\ \A i \in 1..Len(s) : s[i] \in S
    BY LenProperties
<1>2. m + 1 \in Int /\ n \in Int /\ \A i \in (m + 1)..n : s[i] \in S
    BY <1>1
<1> DEFINE p == SubSeq(s, m + 1, n)
<1>3. /\ p \in Seq(S)
      /\ Len(p) = IF m + 1 <= n THEN n - (m + 1) + 1 ELSE 0
      /\ \A i \in 1..(n - (m + 1) + 1) : p[i] = s[(m + 1) + i - 1]
    BY <1>2, SubSeqProperties
<1>4. p = Part(s, m, n)
    BY DEF Part
<1> HIDE DEF p
<1>5. Len(p) = n - m
    BY <1>3
<1>6. ASSUME NEW i \in 1..(n - m) PROVE p[i] = s[m + i]
    <2>1. i \in 1..(n - (m + 1) + 1) /\ (m + 1) + i - 1 = m + i
        OBVIOUS
    <2> QED BY <1>3, <2>1
<1>7. Cuts(p, s, m, n)
    BY <1>5, <1>6 DEF Cuts
<1> QED BY <1>3, <1>4, <1>7

LEMMA ConcatFacts ==
    ASSUME NEW S, NEW a \in Seq(S), NEW b \in Seq(S)
    PROVE  a \o b \in Seq(S) /\ Joins(a \o b, a, b)
<1>1. Len(a) \in Nat /\ Len(b) \in Nat
    OBVIOUS
<1> DEFINE c == a \o b
<1>2. /\ c \in Seq(S) /\ Len(c) = Len(a) + Len(b)
      /\ \A i \in 1..(Len(a) + Len(b)) : c[i] = IF i <= Len(a) THEN a[i] ELSE b[i - Len(a)]
    BY ConcatProperties
<1> HIDE DEF c
<1>3. ASSUME NEW i \in 1..Len(a) PROVE c[i] = a[i]
    BY <1>1, <1>2
<1>4. ASSUME NEW i \in 1..Len(b) PROVE c[Len(a) + i] = b[i]
    <2>1. Len(a) + i \in 1..(Len(a) + Len(b)) /\ ~(Len(a) + i <= Len(a)) /\ (Len(a) + i) - Len(a) = i
        BY <1>1
    <2> QED BY <1>2, <2>1
<1>5. Joins(c, a, b)
    BY <1>2, <1>3, <1>4 DEF Joins
<1> QED BY <1>2, <1>5 DEF c

(* The two facts above determine the sequence. *)
LEMMA CutsUnique ==
    ASSUME NEW S, NEW s, NEW m \in Nat, NEW n \in Nat, NEW p \in Seq(S), NEW q \in Seq(S),
           Cuts(p, s, m, n), Cuts(q, s, m, n)
    PROVE  p = q
<1>1. Len(p) = Len(q) /\ \A i \in 1..Len(p) : p[i] = q[i]
    BY DEF Cuts
<1> QED BY <1>1, SeqEqual

LEMMA JoinsUnique ==
    ASSUME NEW S, NEW a \in Seq(S), NEW b \in Seq(S), NEW c \in Seq(S), Joins(c, a, b)
    PROVE  c = a \o b
<1>1. PICK d \in Seq(S) : d = a \o b /\ Joins(d, a, b)
    BY ConcatFacts
<1>2. Len(a) \in Nat /\ Len(b) \in Nat /\ Len(c) = Len(a) + Len(b) /\ Len(d) = Len(a) + Len(b)
    BY <1>1 DEF Joins
<1>3. ASSUME NEW i \in 1..Len(c) PROVE c[i] = d[i]
    <2>1. CASE i <= Len(a)
        BY <1>1, <1>2, <2>1 DEF Joins
    <2>2. CASE ~(i <= Len(a))
        <3>1. PICK j \in 1..Len(b) : i = Len(a) + j
            <4>1. i - Len(a) \in 1..Len(b) /\ i = Len(a) + (i - Len(a))
                BY <1>2, <2>2
            <4> QED BY <4>1
        <3> QED BY <1>1, <3>1 DEF Joins
    <2> QED BY <2>1, <2>2
<1>4. c = d
    BY <1>2, <1>3, SeqEqual
<1> QED BY <1>1, <1>4

LEMMA PartsMakeWhole ==
    ASSUME NEW S, NEW s \in Seq(S), NEW m \in Nat, m <= Len(s)
    PROVE  s = Part(s, 0, m) \o Part(s, m, Len(s))
<1>1. Len(s) \in Nat /\ 0 \in Nat /\ 0 <= m /\ m <= Len(s) /\ Len(s) <= Len(s)
    OBVIOUS
<1>2. PICK a \in Seq(S) : a = Part(s, 0, m) /\ Cuts(a, s, 0, m)
    BY <1>1, PartFacts
<1>3. PICK b \in Seq(S) : b = Part(s, m, Len(s)) /\ Cuts(b, s, m, Len(s))
    BY <1>1, PartFacts
<1>4. Joins(s, a, b)
    <2>1. Len(a) = m /\ \A i \in 1..m : a[i] = s[i]
        BY <1>2 DEF Cuts
    <2>2. Len(b) = Len(s) - m /\ \A i \in 1..(Len(s) - m) : b[i] = s[m + i]
        BY <1>3 DEF Cuts
    <2>3. Len(s) = Len(a) + Len(b)
        BY <1>1, <2>1, <2>2
    <2> QED BY <2>1, <2>2, <2>3 DEF Joins
<1>5. s = a \o b
    BY <1>2, <1>3, <1>4, JoinsUnique
<1> QED BY <1>2, <1>3, <1>5

LEMMA PartLater ==
    ASSUME NEW S, NEW s \in Seq(S), NEW m \in Nat, NEW k \in Nat, m + k <= Len(s)
    PROVE  Part(Part(s, m, Len(s)), k, Len(s) - m) = Part(s, m + k, Len(s))
<1>1. /\ Len(s) \in Nat /\ Len(s) <= Len(s) /\ m <= Len(s)
      /\ m + k \in Nat /\ m + k <= Len(s)
    OBVIOUS
<1>2. PICK p \in Seq(S) : p = Part(s, m, Len(s)) /\ Cuts(p, s, m, Len(s))
    BY <1>1, PartFacts
<1>3. PICK q \in Seq(S) : q = Part(s, m + k, Len(s)) /\ Cuts(q, s, m + k, Len(s))
    BY <1>1, PartFacts
<1>4. PICK l \in Nat : l = Len(s) - m /\ k <= l /\ l <= Len(p)
    <2>1. Len(p) = Len(s) - m
        BY <1>2 DEF Cuts
    <2>2. PICK w \in Nat : w = Len(s)
        BY <1>1
    <2> QED BY <1>1, <2>1, <2>2
<1>5. PICK r \in Seq(S) : r = Part(p, k, l) /\ Cuts(r, p, k, l)
    BY <1>2, <1>4, PartFacts
<1>6. Cuts(r, s, m + k, Len(s))
    <2>1. Len(r) = Len(s) - (m + k)
        <3>1. Len(r) = l - k
            BY <1>5 DEF Cuts
        <3> QED BY <1>1, <1>4, <3>1
    <2>2. ASSUME NEW i \in 1..(Len(s) - (m + k)) PROVE r[i] = s[(m + k) + i]
        <3>1. /\ i \in 1..(l - k) /\ k + i \in 1..(Len(s) - m)
              /\ m + (k + i) = (m + k) + i
            BY <1>1, <1>4
        <3> QED BY <1>2, <1>5, <3>1 DEF Cuts
    <2> QED BY <2>1, <2>2 DEF Cuts
<1>7. r = q
    BY <1>1, <1>3, <1>5, <1>6, CutsUnique
<1> QED BY <1>2, <1>3, <1>4, <1>5, <1>7

(* Two parts that meet, and a part of one element. *)
Splits(s, a, b, c) == Part(s, a, c) = Part(s, a, b) \o Part(s, b, c)

LEMMA PartSplit ==
    ASSUME NEW S, NEW s \in Seq(S), NEW a \in Nat, NEW b \in Nat, NEW c \in Nat,
           a <= b, b <= c, c <= Len(s)
    PROVE  Splits(s, a, b, c)
<1>1. Len(s) \in Nat /\ a <= c /\ b <= Len(s)
    OBVIOUS
<1>2. PICK p \in Seq(S) : p = Part(s, a, c) /\ Cuts(p, s, a, c)
    BY <1>1, PartFacts
<1>3. PICK q \in Seq(S) : q = Part(s, a, b) /\ Cuts(q, s, a, b)
    BY <1>1, PartFacts
<1>4. PICK r \in Seq(S) : r = Part(s, b, c) /\ Cuts(r, s, b, c)
    BY <1>1, PartFacts
<1>5. Joins(p, q, r)
    <2>1. Len(p) = c - a /\ \A i \in 1..(c - a) : p[i] = s[a + i]
        BY <1>2 DEF Cuts
    <2>2. Len(q) = b - a /\ \A i \in 1..(b - a) : q[i] = s[a + i]
        BY <1>3 DEF Cuts
    <2>3. Len(r) = c - b /\ \A i \in 1..(c - b) : r[i] = s[b + i]
        BY <1>4 DEF Cuts
    <2>4. Len(p) = Len(q) + Len(r)
        BY <2>1, <2>2, <2>3
    <2>5. ASSUME NEW i \in 1..Len(q) PROVE p[i] = q[i]
        <3>1. i \in 1..(b - a) /\ i \in 1..(c - a)
            BY <2>2
        <3> QED BY <2>1, <2>2, <3>1
    <2>6. ASSUME NEW i \in 1..Len(r) PROVE p[Len(q) + i] = r[i]
        <3>1. /\ i \in 1..(c - b) /\ (b - a) + i \in 1..(c - a)
              /\ a + ((b - a) + i) = b + i
            BY <2>3
        <3>2. p[(b - a) + i] = s[b + i]
            BY <2>1, <3>1
        <3> QED BY <2>2, <2>3, <3>1, <3>2
    <2> QED BY <2>4, <2>5, <2>6 DEF Joins
<1>6. p = q \o r
    BY <1>2, <1>3, <1>4, <1>5, JoinsUnique
<1> QED BY <1>2, <1>3, <1>4, <1>6 DEF Splits

LEMMA PartOne ==
    ASSUME NEW S, NEW s \in Seq(S), NEW k \in Nat, k + 1 <= Len(s)
    PROVE  Part(s, k, k + 1) = <<s[k + 1]>>
<1>1. k + 1 \in Nat /\ k <= k + 1 /\ Len(s) \in Nat
    OBVIOUS
<1>2. PICK p \in Seq(S) : p = Part(s, k, k + 1) /\ Cuts(p, s, k, k + 1)
    BY <1>1, PartFacts
<1>3. Len(p) = 1 /\ p[1] = s[k + 1]
    <2>1. (k + 1) - k = 1 /\ 1 \in 1..1
        OBVIOUS
    <2> QED BY <1>2, <2>1 DEF Cuts
<1>4. p = <<p[1]>>
    BY <1>3
<1> QED BY <1>2, <1>3, <1>4

LEMMA PartNone ==
    ASSUME NEW S, NEW s \in Seq(S), NEW k \in Nat, k <= Len(s)
    PROVE  Part(s, k, k) = <<>>
<1>1. k \in Int /\ k + 1 \in Int /\ k < k + 1
    OBVIOUS
<1> QED BY <1>1, SubSeqEmpty DEF Part
-----------------------------------------------------------------------------
(* How many are kept, and how little a sum can be.                         *)

LEMMA OnlyCount ==
  ASSUME NEW T, NEW seq \in Seq(T), NEW keep
  PROVE  /\ Len(Only(seq, keep)) = Cardinality({i \in 1..Len(seq) : seq[i] \in keep})
         /\ Len(Only(seq, keep)) <= Len(seq)
<1> DEFINE Found(s) == {i \in 1..Len(s) : s[i] \in keep}
           P == {s \in Seq(T) : Len(Only(s, keep)) = Cardinality(Found(s))
                                /\ Len(Only(s, keep)) <= Len(s) /\ IsFiniteSet(Found(s))}
<1>1. <<>> \in P
  <2>1. <<>> \in Seq(T) /\ Len(<<>>) = 0 /\ Found(<<>>) = {}
    OBVIOUS
  <2> QED BY <2>1, OnlyEmpty, FS_EmptySet
<1>2. ASSUME NEW s \in Seq(T), NEW x \in T, s \in P
      PROVE  Append(s, x) \in P
  <2>1. PICK n \in Nat : n = Len(s)
    OBVIOUS
  <2>2. PICK t \in Seq(T) : t = Append(s, x)
    BY AppendFacts
  <2>3. Len(t) = n + 1 /\ t[n + 1] = x /\ \A i \in 1..n : t[i] = s[i]
    <3>1. /\ Len(Append(s, x)) = Len(s) + 1 /\ Append(s, x)[Len(s) + 1] = x
          /\ \A i \in 1..Len(s) : Append(s, x)[i] = s[i]
      BY AppendFacts
    <3> QED BY <2>1, <2>2, <3>1
  <2>4. PICK k \in Nat : k = Len(Only(s, keep)) /\ k <= n
    <3>1. Only(s, keep) \in Seq(T)
      BY OnlyType
    <3>2. Len(Only(s, keep)) \in Nat
      BY <3>1
    <3>3. Len(Only(s, keep)) <= n
      BY <1>2, <2>1
    <3> QED BY <3>2, <3>3
  <2>5. PICK F : F = Found(s) /\ Cardinality(F) = k /\ IsFiniteSet(F)
    BY <1>2, <2>4
  <2>8. ASSUME Len(Only(t, keep)) = Cardinality(Found(t)), Len(Only(t, keep)) <= Len(t),
               IsFiniteSet(Found(t))
        PROVE  Append(s, x) \in P
    <3> HIDE DEF Found
    <3> QED BY <2>2, <2>8
  <2>6. CASE x \in keep
    <3>1. Found(t) = F \cup {n + 1} /\ n + 1 \notin F
      BY <2>1, <2>3, <2>5, <2>6
    <3>2. Cardinality(Found(t)) = k + 1 /\ IsFiniteSet(Found(t))
      <4> HIDE DEF Found
      <4>1. Cardinality(F \cup {n + 1}) = k + 1 /\ IsFiniteSet(F \cup {n + 1})
        BY <2>5, <3>1, FS_AddElement
      <4> QED BY <3>1, <4>1
    <3>3. Len(Only(t, keep)) = k + 1
      <4>1. Only(t, keep) = Append(Only(s, keep), x) /\ Only(s, keep) \in Seq(T)
        BY <2>2, <2>6, OnlyAppend, OnlyType
      <4> QED BY <2>4, <4>1
    <3>4. Len(Only(t, keep)) <= Len(t)
      BY <2>3, <2>4, <3>3
    <3> HIDE DEF Found
    <3> QED BY <2>8, <3>2, <3>3, <3>4
  <2>7. CASE ~ x \in keep
    <3>1. Found(t) = F
      BY <2>1, <2>3, <2>5, <2>7
    <3>2. Only(t, keep) = Only(s, keep)
      BY <2>2, <2>7, OnlyAppend
    <3>3. Len(Only(t, keep)) <= Len(t) /\ Len(Only(t, keep)) = k
      BY <2>3, <2>4, <3>2
    <3> HIDE DEF Found
    <3> QED BY <2>5, <2>8, <3>1, <3>3
  <2> QED BY <2>6, <2>7
<1>3. Seq(T) \subseteq P
  <2> HIDE DEF P
  <2> QED BY <1>1, <1>2, SequenceInduction
<1> QED BY <1>3

LEMMA SumAtLeast ==
  ASSUME NEW m \in Nat, NEW nums \in Seq(Nat), \A i \in 1..Len(nums) : m <= nums[i]
  PROVE  m * Len(nums) <= SumOf(nums)
<1> DEFINE P == {s \in Seq(Nat) : (\A i \in 1..Len(s) : m <= s[i]) => m * Len(s) <= SumOf(s)}
<1>1. <<>> \in P
  <2>1. <<>> \in Seq(Nat) /\ Len(<<>>) = 0 /\ m * 0 = 0
    OBVIOUS
  <2> QED BY <2>1, SumEmpty
<1>2. ASSUME NEW s \in Seq(Nat), NEW x \in Nat, s \in P
      PROVE  Append(s, x) \in P
  <2>1. PICK t \in Seq(Nat) : t = Append(s, x)
    BY AppendFacts
  <2>2. PICK n \in Nat : n = Len(s) /\ Len(t) = n + 1 /\ t[n + 1] = x
                         /\ \A i \in 1..n : t[i] = s[i]
    <3>1. /\ Len(s) \in Nat /\ Len(Append(s, x)) = Len(s) + 1 /\ Append(s, x)[Len(s) + 1] = x
          /\ \A i \in 1..Len(s) : Append(s, x)[i] = s[i]
      BY AppendFacts
    <3> QED BY <2>1, <3>1
  <2>3. ASSUME \A i \in 1..Len(t) : m <= t[i]
        PROVE  m * Len(t) <= SumOf(t)
    <3>1. (\A i \in 1..Len(s) : m <= s[i]) /\ m <= x
      <4>1. 1..Len(t) = 1..n + 1 /\ n + 1 \in 1..n + 1 /\ \A i \in 1..n : i \in 1..n + 1
        BY <2>2
      <4> QED BY <2>2, <2>3, <4>1
    <3>2. PICK u \in Int : u = SumOf(s) /\ m * n <= u
      <4>1. s \in Seq(Int)
        OBVIOUS
      <4> QED BY <1>2, <2>2, <3>1, <4>1, SumType
    <3>3. SumOf(t) = u + x
      <4>1. s \in Seq(Int) /\ x \in Int
        OBVIOUS
      <4> QED BY <2>1, <3>2, <4>1, SumAppend
    <3>4. m * (n + 1) = m * n + m
      OBVIOUS
    <3>5. m * (n + 1) <= u + x
      BY <3>1, <3>2, <3>4
    <3> QED BY <2>2, <3>3, <3>5
  <2> QED BY <2>1, <2>3
<1>3. Seq(Nat) \subseteq P
  <2> HIDE DEF P
  <2> QED BY <1>1, <1>2, SequenceInduction
<1> QED BY <1>3
-----------------------------------------------------------------------------
(* Keeping twice, keeping the same, keeping nothing.                       *)

LEMMA OnlyOnly ==
  ASSUME NEW T, NEW seq \in Seq(T), NEW a, NEW b
  PROVE  Only(Only(seq, a), b) = Only(seq, a \cap b)
<1> DEFINE P == {s \in Seq(T) : Only(Only(s, a), b) = Only(s, a \cap b)}
<1>1. <<>> \in P
  <2>1. <<>> \in Seq(T)
    OBVIOUS
  <2> QED BY <2>1, OnlyEmpty
<1>2. ASSUME NEW s \in Seq(T), NEW x \in T, s \in P
      PROVE  Append(s, x) \in P
  <2>1. PICK k \in Seq(T) : k = Only(s, a)
    BY OnlyType
  <2>2. Only(k, b) = Only(s, a \cap b)
    BY <1>2, <2>1
  <2>3. Only(Append(s, x), a) = IF x \in a THEN Append(k, x) ELSE k
    BY <2>1, OnlyAppend
  <2>4. Only(Append(s, x), a \cap b) =
          IF x \in a \cap b THEN Append(Only(k, b), x) ELSE Only(k, b)
    <3>1. Only(Append(s, x), a \cap b) =
            IF x \in a \cap b THEN Append(Only(s, a \cap b), x) ELSE Only(s, a \cap b)
      BY OnlyAppend
    <3> QED BY <2>2, <3>1
  <2>5. Only(Append(k, x), b) = IF x \in b THEN Append(Only(k, b), x) ELSE Only(k, b)
    BY OnlyAppend
  <2>6. Only(Only(Append(s, x), a), b) = Only(Append(s, x), a \cap b)
    <3>1. CASE x \in a /\ x \in b
      BY <2>3, <2>4, <2>5, <3>1, Zenon
    <3>2. CASE x \in a /\ x \notin b
      BY <2>3, <2>4, <2>5, <3>2, Zenon
    <3>3. CASE x \notin a
      BY <2>3, <2>4, <3>3, Zenon
    <3> QED BY <3>1, <3>2, <3>3
  <2>7. Append(s, x) \in Seq(T)
    BY AppendFacts
  <2> QED BY <2>6, <2>7
<1>3. Seq(T) \subseteq P
  <2> HIDE DEF P
  <2> QED BY <1>1, <1>2, SequenceInduction
<1> QED BY <1>3

LEMMA OnlySame ==
  ASSUME NEW T, NEW seq \in Seq(T), NEW a, NEW b, \A x \in T : x \in a <=> x \in b
  PROVE  Only(seq, a) = Only(seq, b)
<1> DEFINE P == {s \in Seq(T) : Only(s, a) = Only(s, b)}
<1>1. <<>> \in P
  <2>1. <<>> \in Seq(T)
    OBVIOUS
  <2> QED BY <2>1, OnlyEmpty
<1>2. ASSUME NEW s \in Seq(T), NEW x \in T, s \in P
      PROVE  Append(s, x) \in P
  <2>1. Only(s, a) = Only(s, b)
    BY <1>2
  <2>2. Only(Append(s, x), a) = IF x \in a THEN Append(Only(s, a), x) ELSE Only(s, a)
    BY OnlyAppend
  <2>3. Only(Append(s, x), b) = IF x \in b THEN Append(Only(s, b), x) ELSE Only(s, b)
    BY OnlyAppend
  <2>4. Only(Append(s, x), a) = Only(Append(s, x), b)
    <3>1. CASE x \in a
      <4>1. x \in b
        BY <3>1
      <4> QED BY <2>1, <2>2, <2>3, <3>1, <4>1
    <3>2. CASE x \notin a
      <4>1. x \notin b
        BY <3>2
      <4> QED BY <2>1, <2>2, <2>3, <3>2, <4>1
    <3> QED BY <3>1, <3>2
  <2>5. Append(s, x) \in Seq(T)
    BY AppendFacts
  <2> QED BY <2>4, <2>5
<1>3. Seq(T) \subseteq P
  <2> HIDE DEF P
  <2> QED BY <1>1, <1>2, SequenceInduction
<1> QED BY <1>3

LEMMA OnlyNothing ==
  ASSUME NEW T, NEW seq \in Seq(T), NEW keep, \A x \in T : x \notin keep
  PROVE  Only(seq, keep) = <<>>
<1> DEFINE P == {s \in Seq(T) : Only(s, keep) = <<>>}
<1>1. <<>> \in P
  <2>1. <<>> \in Seq(T)
    OBVIOUS
  <2> QED BY <2>1, OnlyEmpty
<1>2. ASSUME NEW s \in Seq(T), NEW x \in T, s \in P
      PROVE  Append(s, x) \in P
  <2>1. Only(Append(s, x), keep) = IF x \in keep THEN Append(Only(s, keep), x) ELSE Only(s, keep)
    BY OnlyAppend
  <2>2. Only(Append(s, x), keep) = <<>>
    BY <1>2, <2>1
  <2>3. Append(s, x) \in Seq(T)
    BY AppendFacts
  <2> QED BY <2>2, <2>3
<1>3. Seq(T) \subseteq P
  <2> HIDE DEF P
  <2> QED BY <1>1, <1>2, SequenceInduction
<1> QED BY <1>3

-----------------------------------------------------------------------------
(* Flat: sequences, one after the other; Picked: what is at given places. *)

Both(s, t) == s \o t

Joining(joined, seqs) ==
  joined = [i \in 0..Len(seqs) |-> IF i = 0 THEN <<>> ELSE Both(joined[i - 1], seqs[i])]

Joined(joined, seqs) ==
  /\ joined[0] = <<>>
  /\ \A i \in 1..Len(seqs) : joined[i] = Both(joined[i - 1], seqs[i])

LEMMA JoiningJoined ==
  ASSUME NEW T, NEW seqs \in Seq(T), NEW joined
  PROVE  Joining(joined, seqs) <=> joined = [i \in 0..Len(seqs) |-> joined[i]] /\ Joined(joined, seqs)
<1> DEFINE N == Len(seqs)
           Body(i) == IF i = 0 THEN <<>> ELSE Both(joined[i - 1], seqs[i])
<1>1. N \in Nat
  OBVIOUS
<1>2. Joining(joined, seqs) <=> joined = [i \in 0..N |-> Body(i)]
  BY DEF Joining
<1>3. Joined(joined, seqs) <=> \A i \in 0..N : joined[i] = Body(i)
  <2>1. Body(0) = <<>> /\ \A i \in 1..N : Body(i) = Both(joined[i - 1], seqs[i])
    BY <1>1
  <2> HIDE DEF Body
  <2>2. 0..N = {0} \cup 1..N
    BY <1>1
  <2> QED BY <2>1, <2>2 DEF Joined
<1> HIDE DEF Body, N
<1> QED BY <1>2, <1>3 DEF N

LEMMA JoinedExists ==
  ASSUME NEW T, NEW seqs \in Seq(Seq(T))
  PROVE  \E joined \in [0..Len(seqs) -> Seq(T)] : Joined(joined, seqs)
<1> DEFINE next == [i \in 1..Len(seqs) |-> [s \in Seq(T) |-> Both(s, seqs[i])]]
<1>1. Len(seqs) \in Nat /\ <<>> \in Seq(T) /\ \A i \in 1..Len(seqs) : seqs[i] \in Seq(T)
  OBVIOUS
<1>2. next \in Rules(Len(seqs), Seq(T))
  <2>1. ASSUME NEW i \in 1..Len(seqs), NEW s \in Seq(T) PROVE Both(s, seqs[i]) \in Seq(T)
    BY <1>1, ConcatFacts DEF Both
  <2> QED BY <2>1 DEF Rules
<1>3. ASSUME NEW i \in 1..Len(seqs), NEW s \in Seq(T) PROVE next[i][s] = Both(s, seqs[i])
  OBVIOUS
<1> HIDE DEF next
<1>4. PICK f : Recursion(f, Len(seqs), Seq(T), <<>>, next)
  BY <1>1, <1>2, RecursionExists
<1>5. ASSUME NEW i \in 1..Len(seqs) PROVE f[i] = Both(f[i - 1], seqs[i])
  <2>1. i - 1 \in 0..Len(seqs)
    BY <1>1
  <2>2. f[i - 1] \in Seq(T) /\ f[i] = next[i][f[i - 1]]
    BY <1>4, <2>1 DEF Recursion
  <2> QED BY <1>3, <2>2
<1> QED BY <1>4, <1>5 DEF Recursion, Joined

LEMMA JoinedUnique ==
  ASSUME NEW T, NEW seqs \in Seq(T), NEW f, NEW g, Joined(f, seqs), Joined(g, seqs)
  PROVE  \A i \in 0..Len(seqs) : f[i] = g[i]
<1> DEFINE P == {i \in 0..Len(seqs) : f[i] = g[i]}
<1>0. Len(seqs) \in Nat
  OBVIOUS
<1>1. 0 \in P
  BY <1>0 DEF Joined
<1>2. ASSUME NEW i \in 1..Len(seqs), i - 1 \in P PROVE i \in P
  BY <1>0, <1>2 DEF Joined
<1> HIDE DEF P
<1>3. 0..Len(seqs) \subseteq P
  BY <1>0, <1>1, <1>2, IntervalInduction
<1> QED BY <1>3 DEF P

LEMMA FlatIsLast ==
  ASSUME NEW T, NEW seqs \in Seq(T), NEW joined, Joined(joined, seqs)
  PROVE  Flat(seqs) = joined[Len(seqs)]
<1> DEFINE Choice == CHOOSE f : Joining(f, seqs)
           known == [i \in 0..Len(seqs) |-> joined[i]]
<1>1. Joining(known, seqs)
  <2>1. Len(seqs) \in Nat /\ \A i \in 0..Len(seqs) : known[i] = joined[i]
    OBVIOUS
  <2> HIDE DEF known
  <2>2. Joined(known, seqs)
    BY <2>1 DEF Joined
  <2>3. known = [i \in 0..Len(seqs) |-> known[i]]
    BY DEF known
  <2> QED BY <2>2, <2>3, JoiningJoined
<1>2. Joining(Choice, seqs)
  BY <1>1
<1>3. Flat(seqs) = Choice[Len(seqs)]
  BY DEF Flat, Joining, Both
<1> HIDE DEF Choice
<1>4. Joined(Choice, seqs)
  BY <1>2, JoiningJoined
<1>5. Choice[Len(seqs)] = joined[Len(seqs)]
  <2>1. Len(seqs) \in 0..Len(seqs)
    OBVIOUS
  <2> QED BY <1>4, <2>1, JoinedUnique
<1> QED BY <1>3, <1>5

LEMMA FlatType ==
  ASSUME NEW T, NEW seqs \in Seq(Seq(T))
  PROVE  Flat(seqs) \in Seq(T)
<1>1. PICK joined \in [0..Len(seqs) -> Seq(T)] : Joined(joined, seqs)
  BY JoinedExists
<1>2. Len(seqs) \in 0..Len(seqs)
  OBVIOUS
<1> QED BY <1>1, <1>2, FlatIsLast

LEMMA FlatEmpty == Flat(<<>>) = <<>>
<1> DEFINE none == [i \in 0..0 |-> <<>>]
<1>1. <<>> \in Seq(Nat) /\ Len(<<>>) = 0
  OBVIOUS
<1>2. Joined(none, <<>>)
  BY DEF Joined
<1>3. Flat(<<>>) = none[0]
  BY <1>1, <1>2, FlatIsLast
<1> QED BY <1>3

LEMMA FlatAppend ==
  ASSUME NEW T, NEW seqs \in Seq(Seq(T)), NEW s \in Seq(T)
  PROVE  Flat(Append(seqs, s)) = Flat(seqs) \o s
<1> DEFINE longer == Append(seqs, s)
           N == Len(seqs)
<1>1. /\ longer \in Seq(Seq(T)) /\ Len(longer) = N + 1 /\ longer[N + 1] = s /\ N \in Nat
      /\ \A i \in 1..N : longer[i] = seqs[i]
  BY AppendFacts
<1> HIDE DEF longer
<1>2. PICK joined \in [0..Len(longer) -> Seq(T)] : Joined(joined, longer)
  BY <1>1, JoinedExists
<1>3. Joined(joined, seqs)
  BY <1>1, <1>2 DEF Joined
<1>4. Flat(longer) = joined[N + 1] /\ Flat(seqs) = joined[N]
  BY <1>1, <1>2, <1>3, FlatIsLast
<1>5. joined[N + 1] = Both(joined[N], s)
  BY <1>1, <1>2 DEF Joined
<1> QED BY <1>4, <1>5 DEF longer, Both

\* Flat of two joined is the two Flats joined.
LEMMA FlatConcat ==
  ASSUME NEW T, NEW a \in Seq(Seq(T)), NEW b \in Seq(Seq(T))
  PROVE  Flat(a \o b) = Flat(a) \o Flat(b)
<1> DEFINE P == {s \in Seq(Seq(T)) : Flat(a \o s) = Flat(a) \o Flat(s)}
<1>0. Flat(a) \in Seq(T)
  BY FlatType
<1>1. <<>> \in P
  <2>1. a \o <<>> = a /\ <<>> \in Seq(Seq(T))
    OBVIOUS
  <2>2. Flat(a) \o <<>> = Flat(a)
    BY <1>0
  <2> QED BY <2>1, <2>2, FlatEmpty
<1>2. ASSUME NEW s \in Seq(Seq(T)), NEW x \in Seq(T), s \in P PROVE Append(s, x) \in P
  <2>1. a \o Append(s, x) = Append(a \o s, x)
    OBVIOUS
  <2>2. Append(s, x) \in Seq(Seq(T)) /\ a \o s \in Seq(Seq(T))
    OBVIOUS
  <2>3. Flat(Append(a \o s, x)) = Flat(a \o s) \o x
    BY <2>2, FlatAppend
  <2>4. Flat(Append(s, x)) = Flat(s) \o x
    BY FlatAppend
  <2>5. Flat(a \o s) = Flat(a) \o Flat(s)
    BY <1>2
  <2>6. Flat(s) \in Seq(T)
    BY FlatType
  <2>7. (Flat(a) \o Flat(s)) \o x = Flat(a) \o (Flat(s) \o x)
    BY <1>0, <2>6, ConcatAssociative, SMTT(30)
  <2> QED BY <2>1, <2>2, <2>3, <2>4, <2>5, <2>7
<1> HIDE DEF P
<1>3. Seq(Seq(T)) \subseteq P
  BY <1>1, <1>2, SequenceInduction
<1> QED BY <1>3 DEF P

LEMMA PickedFacts ==
  ASSUME NEW T, NEW c \in Seq(T), NEW g \in Seq(1..Len(c))
  PROVE  /\ Picked(c, g) \in Seq(T) /\ Len(Picked(c, g)) = Len(g)
         /\ \A i \in 1..Len(g) : Picked(c, g)[i] = c[g[i]]
<1>1. Len(g) \in Nat /\ DOMAIN g = 1..Len(g) /\ \A i \in 1..Len(g) : g[i] \in 1..Len(c)
  OBVIOUS
<1>2. \A i \in 1..Len(g) : c[g[i]] \in T
  BY <1>1
<1>3. Picked(c, g) \in [1..Len(g) -> T] /\ \A i \in 1..Len(g) : Picked(c, g)[i] = c[g[i]]
  BY <1>1, <1>2 DEF Picked
<1> QED BY <1>1, <1>3

LEMMA PickedConcat ==
  ASSUME NEW T, NEW c \in Seq(T), NEW a \in Seq(1..Len(c)), NEW b \in Seq(1..Len(c))
  PROVE  Picked(c, a \o b) = Picked(c, a) \o Picked(c, b)
<1>1. PICK ab \in Seq(1..Len(c)) : ab = a \o b /\ Joins(ab, a, b)
  BY ConcatFacts
<1>2. PICK p \in Seq(T) : p = Picked(c, a) /\ Len(p) = Len(a) /\ \A i \in 1..Len(a) : p[i] = c[a[i]]
  BY PickedFacts
<1>3. PICK q \in Seq(T) : q = Picked(c, b) /\ Len(q) = Len(b) /\ \A i \in 1..Len(b) : q[i] = c[b[i]]
  BY PickedFacts
<1>4. PICK r \in Seq(T) : r = Picked(c, ab) /\ Len(r) = Len(ab) /\ \A i \in 1..Len(ab) : r[i] = c[ab[i]]
  BY PickedFacts
<1>5. PICK m \in Nat, n \in Nat : m = Len(a) /\ n = Len(b)
  OBVIOUS
<1>6. /\ Len(ab) = m + n /\ \A i \in 1..m : ab[i] = a[i]
      /\ \A i \in 1..n : ab[m + i] = b[i]
  BY <1>1, <1>5 DEF Joins
<1>7. ASSUME NEW i \in 1..m PROVE r[i] = p[i]
  <2>1. i \in 1..Len(ab)
    BY <1>6
  <2> QED BY <1>2, <1>4, <1>5, <1>6, <2>1
<1>8. ASSUME NEW i \in 1..n PROVE r[m + i] = q[i]
  <2>1. m + i \in 1..Len(ab)
    BY <1>6
  <2> QED BY <1>3, <1>4, <1>5, <1>6, <2>1
<1>9. Joins(r, p, q)
  BY <1>2, <1>3, <1>4, <1>5, <1>6, <1>7, <1>8 DEF Joins
<1>10. r = p \o q
  BY <1>9, JoinsUnique
<1> QED BY <1>1, <1>2, <1>3, <1>4, <1>10

\* Whether what the groups name is joined group by group or at once.
LEMMA FlatPicked ==
  ASSUME NEW T, NEW c \in Seq(Seq(T)), NEW groups \in Seq(Seq(1..Len(c)))
  PROVE  Flat([k \in DOMAIN groups |-> Flat(Picked(c, groups[k]))]) = Flat(Picked(c, Flat(groups)))
<1> DEFINE G == Seq(1..Len(c))
           F(g) == Flat(Picked(c, g))
           Each(gs) == [k \in DOMAIN gs |-> F(gs[k])]
           P == {gs \in Seq(G) : Each(gs) \in Seq(Seq(T)) /\ Flat(Each(gs)) = F(Flat(gs))}
<1>1. ASSUME NEW g \in G PROVE Picked(c, g) \in Seq(Seq(T)) /\ F(g) \in Seq(T)
  BY PickedFacts, FlatType
<1>2. <<>> \in P
  <2>1. Each(<<>>) = <<>>
    OBVIOUS
  <2>2. Picked(c, <<>>) = <<>>
    BY DEF Picked
  <2> QED BY <2>1, <2>2, FlatEmpty
<1>3. ASSUME NEW gs \in Seq(G), NEW g \in G, gs \in P PROVE Append(gs, g) \in P
  <2>1. Each(Append(gs, g)) = Append(Each(gs), F(g))
    <3>1. PICK ts \in Seq(G) : ts = Append(gs, g)
      BY AppendFacts
    <3>2. /\ Len(gs) \in Nat /\ Len(ts) = Len(gs) + 1 /\ ts[Len(gs) + 1] = g
          /\ \A i \in 1..Len(gs) : ts[i] = gs[i]
      BY <3>1, AppendFacts
    <3>3. PICK es \in Seq(Seq(T)) : es = Each(gs)
      BY <1>3
    <3>4. Len(es) = Len(gs) /\ \A i \in 1..Len(gs) : es[i] = F(gs[i])
      <4> HIDE DEF F
      <4>1. es = [k \in 1..Len(gs) |-> F(gs[k])]
        BY <3>3
      <4> QED BY <3>2, <3>3, <4>1
    <3>5. PICK fs \in Seq(Seq(T)) : fs = Append(es, F(g))
      BY <1>1, AppendFacts
    <3>6. /\ Len(fs) = Len(gs) + 1 /\ fs[Len(gs) + 1] = F(g)
          /\ \A i \in 1..Len(gs) : fs[i] = es[i]
      BY <1>1, <3>4, <3>5, AppendFacts
    <3> HIDE DEF F
    <3>7. DOMAIN ts = (1..Len(gs)) \cup {Len(gs) + 1} /\ DOMAIN fs = (1..Len(gs)) \cup {Len(gs) + 1}
      <4>1. DOMAIN ts = 1..Len(ts) /\ DOMAIN fs = 1..Len(fs)
        BY LenProperties
      <4>2. 1..(Len(gs) + 1) = (1..Len(gs)) \cup {Len(gs) + 1}
        BY <3>2
      <4> QED BY <3>2, <3>6, <4>1, <4>2
    <3>8. \A i \in DOMAIN ts : fs[i] = F(ts[i])
      BY <3>2, <3>4, <3>6, <3>7
    <3>9. fs = [k \in DOMAIN ts |-> F(ts[k])]
      BY <3>7, <3>8
    <3> QED BY <3>1, <3>3, <3>5, <3>9
  <2>2. Flat(gs) \in G /\ Flat(Append(gs, g)) = Flat(gs) \o g
    BY FlatType, FlatAppend
  <2>3. Picked(c, Flat(gs) \o g) = Picked(c, Flat(gs)) \o Picked(c, g)
    BY <2>2, PickedConcat
  <2>4. F(Flat(gs) \o g) = F(Flat(gs)) \o F(g)
    BY <1>1, <2>2, <2>3, FlatConcat
  <2>5. Flat(Append(Each(gs), F(g))) = Flat(Each(gs)) \o F(g)
    BY <1>1, <1>3, FlatAppend
  <2>6. Append(Each(gs), F(g)) \in Seq(Seq(T))
    BY <1>1, <1>3, AppendFacts
  <2>7. Append(gs, g) \in Seq(G)
    BY AppendFacts
  <2>8. Flat(Each(gs)) = F(Flat(gs))
    BY <1>3
  <2> HIDE DEF F, Each, G
  <2> QED BY <2>1, <2>2, <2>4, <2>5, <2>6, <2>7, <2>8
<1> HIDE DEF P
<1>4. Seq(G) \subseteq P
  BY <1>2, <1>3, SequenceInduction
<1> QED BY <1>4 DEF P

\* Picking every place in turn picks the whole.
LEMMA PickedAll ==
  ASSUME NEW T, NEW c \in Seq(T)
  PROVE  Picked(c, [i \in 1..Len(c) |-> i]) = c
<1> DEFINE every == [i \in 1..Len(c) |-> i]
<1>1. every \in Seq(1..Len(c)) /\ Len(every) = Len(c) /\ \A i \in 1..Len(c) : every[i] = i
  OBVIOUS
<1> HIDE DEF every
<1>2. /\ Picked(c, every) \in Seq(T) /\ Len(Picked(c, every)) = Len(every)
      /\ \A i \in 1..Len(every) : Picked(c, every)[i] = c[every[i]]
  BY <1>1, PickedFacts
<1>3. Len(Picked(c, every)) = Len(c) /\ \A i \in 1..Len(c) : Picked(c, every)[i] = c[i]
  BY <1>1, <1>2
<1>4. Picked(c, every) = c
  BY <1>2, <1>3, SeqEqual
<1> QED BY <1>4 DEF every
=============================================================================
