------------------------------- MODULE Lists -------------------------------
(***************************************************************************)
(* Operators on sequences that the components share.  They are written as  *)
(* recursive functions, and take sets and sequences only, so that          *)
(* Lists_proofs can prove what they compute for every input.               *)
(***************************************************************************)
EXTENDS Integers, Sequences

(* What occurs in seq. *)
Elements(seq) == {seq[i] : i \in DOMAIN seq}

(* The elements of seq that are in keep, in their order. *)
Only(seq, keep) ==
  LET kept[i \in 0..Len(seq)] ==
        IF i = 0 THEN <<>>
        ELSE IF seq[i] \in keep THEN Append(kept[i - 1], seq[i]) ELSE kept[i - 1]
  IN kept[Len(seq)]

(* The sum of a sequence of numbers. *)
SumOf(nums) ==
  LET sum[i \in 0..Len(nums)] == IF i = 0 THEN 0 ELSE sum[i - 1] + nums[i]
  IN sum[Len(nums)]

(* Sequences, one after the other. *)
Flat(seqs) ==
  LET joined[i \in 0..Len(seqs)] == IF i = 0 THEN <<>> ELSE joined[i - 1] \o seqs[i]
  IN joined[Len(seqs)]

(* What seq has at the given places. *)
Picked(seq, places) == [i \in DOMAIN places |-> seq[places[i]]]
=============================================================================
