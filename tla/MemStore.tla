---------------------------- MODULE MemStore ----------------------------
(***************************************************************************)
(* agentloopmem: the in-memory StepStore and SessionStore, whose methods   *)
(* each run under a mutex.  The finalize summaries and the clock are left  *)
(* out: nothing the loop calls reads them.                                 *)
(***************************************************************************)
EXTENDS Integers, Sequences

CONSTANTS Sessions, Rows, Snapshots, Windows, NoData,
  MaxRows       \* bound: the longest trace of a session

VARIABLES
  rows,         \* session -> its steps in insertion order
  kept,         \* the sessions map: id -> data
  answer        \* the last answer given to a caller

vars == <<rows, kept, answer>>

Init == rows = [s \in Sessions |-> <<>>] /\ kept = <<>> /\ answer = <<>>

AppendStep(s, row) ==
  /\ Len(rows[s]) < MaxRows
  /\ rows' = [rows EXCEPT ![s] = Append(@, row)]
  /\ UNCHANGED <<kept, answer>>

LastN(s, n) ==
  /\ answer' = LET all == rows[s] IN
               IF n <= 0 \/ Len(all) <= n THEN all ELSE SubSeq(all, Len(all) - n + 1, Len(all))
  /\ UNCHANGED <<rows, kept>>

(* Put seeds a session, and UpdateData writes its data, making one if there
   is none: of a session's fields only the data is in this model. *)
Write(s, d) ==
  /\ kept' = [i \in DOMAIN kept \cup {s} |-> IF i = s THEN d ELSE kept[i]]
  /\ UNCHANGED <<rows, answer>>

Put(s, d) == Write(s, d)
UpdateData(s, d) == Write(s, d)

Get(s) ==
  /\ answer' = <<IF s \in DOMAIN kept THEN kept[s] ELSE NoData>>
  /\ UNCHANGED <<rows, kept>>

Exists(s) ==
  /\ answer' = <<s \in DOMAIN kept>>
  /\ UNCHANGED <<rows, kept>>

Next ==
  \E s \in Sessions :
    \/ \E row \in Rows : AppendStep(s, row)
    \/ \E n \in Windows : LastN(s, n)
    \/ \E d \in Snapshots \cup {NoData} : Put(s, d) \/ UpdateData(s, d)
    \/ Get(s) \/ Exists(s)

Spec == Init /\ [][Next]_vars

-----------------------------------------------------------------------------
Log == INSTANCE SessionLog WITH
  log <- rows,
  data <- [s \in Sessions |-> IF s \in DOMAIN kept THEN kept[s] ELSE NoData],
  known <- DOMAIN kept

(* The in-memory stores keep the same contract as the database, so a test
   that runs on them says something about it (agentloopmem). *)
ImplementsLog == Log!Spec
=============================================================================
