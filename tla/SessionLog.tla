--------------------------- MODULE SessionLog ---------------------------
(***************************************************************************)
(* What agentlooptest's contracts ask of a session store: a trace per      *)
(* session that grows by appends alone and is read back in order, and the  *)
(* latest snapshot of the working data.                                    *)
(*                                                                         *)
(* Whether Append and Finalize bring a session into being is left open, as *)
(* the contract leaves it; Delete is agentloopsql's.                       *)
(***************************************************************************)
EXTENDS Integers, Sequences

CONSTANTS
  Sessions, Rows, Snapshots,
  Windows,      \* the values of n LastN is asked with
  NoData        \* the working data of a session that has none

VARIABLES
  log,          \* session -> its trace, oldest first
  data,         \* session -> the latest snapshot
  known,        \* the sessions that exist
  answer        \* the last answer the store gave

logVars == <<log, data, known, answer>>

MayMake(s) == known' \in {known, known \cup {s}}

(* The most recent n rows, oldest first; all of them when n is not positive. *)
Newest(rows, n) ==
  IF n <= 0 \/ n >= Len(rows) THEN rows ELSE SubSeq(rows, Len(rows) - n + 1, Len(rows))

Init ==
  /\ log = [s \in Sessions |-> <<>>] /\ data = [s \in Sessions |-> NoData]
  /\ known = {} /\ answer = <<>>

AppendStep(s, row) ==
  /\ log' = [log EXCEPT ![s] = Append(@, row)]
  /\ MayMake(s)
  /\ UNCHANGED <<data, answer>>

UpdateData(s, d) ==
  /\ data' = [data EXCEPT ![s] = d] /\ known' = known \cup {s}
  /\ UNCHANGED <<log, answer>>

Finalize(s) == MayMake(s) /\ UNCHANGED <<log, data, answer>>

Delete(s) ==
  /\ log' = [log EXCEPT ![s] = <<>>] /\ data' = [data EXCEPT ![s] = NoData]
  /\ known' = known \ {s}
  /\ UNCHANGED answer

(* Reading a store, an unknown session included, changes nothing in it. *)
Answers(reply) == answer' = reply /\ UNCHANGED <<log, data, known>>

LastN(s, n) == Answers(Newest(log[s], n))
Get(s) == Answers(<<data[s]>>)
Exists(s) == Answers(<<s \in known>>)

Next ==
  \E s \in Sessions :
    \/ \E row \in Rows : AppendStep(s, row)
    \/ \E d \in Snapshots \cup {NoData} : UpdateData(s, d)
    \/ \E n \in Windows : LastN(s, n)
    \/ Finalize(s) \/ Delete(s) \/ Get(s) \/ Exists(s)

Spec == Init /\ [][Next]_logVars
=============================================================================
