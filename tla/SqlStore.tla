---------------------------- MODULE SqlStore ----------------------------
(***************************************************************************)
(* agentloopsql.Store: sessions and steps in one SQLite file that several  *)
(* processes have open.                                                    *)
(*                                                                         *)
(* A Store holds one connection, so a process does one thing at a time.    *)
(* Append and Delete are transactions of several statements; the first     *)
(* statement that writes takes SQLite's write lock, and nothing is seen    *)
(* by others until the commit.  A transaction ends without a trace when a  *)
(* statement fails, the busy timeout or the caller's context runs out, or  *)
(* the process dies.  Grants and timestamps are in TerminalSessions.       *)
(***************************************************************************)
EXTENDS Integers, Sequences, SequencesExt, Lists

CONSTANTS
  Procs,        \* processes with the file open
  Sessions, Rows, Snapshots, Windows, NoData,
  Nobody,       \* the holder of a free write lock
  MaxRows       \* bound: rows ever appended, so the traces stay short

VARIABLES
  sessions,     \* the sessions table: id -> data
  steps,        \* the steps table in the order of its autoincrement id
  appended,     \* rows appended so far
  writer,       \* the process whose transaction holds the write lock
  draft,        \* the tables as that transaction sees them
  pc, op,       \* process -> its place in a transaction, and the arguments
  answer        \* the last answer given to a caller

tables == <<sessions, steps, appended>>
transactions == <<writer, draft, pc, op>>
vars == <<sessions, steps, appended, writer, draft, pc, op, answer>>

NoTables == [sessions |-> <<>>, steps |-> <<>>]
NoOp == [session |-> Nobody, row |-> Nobody]

Init ==
  /\ sessions = <<>> /\ steps = <<>> /\ appended = 0
  /\ writer = Nobody /\ draft = NoTables
  /\ pc = [p \in Procs |-> "idle"] /\ op = [p \in Procs |-> NoOp]
  /\ answer = <<>>

Goto(p, label) == pc' = [pc EXCEPT ![p] = label]
Idle(p) == pc[p] = "idle"

(* INSERT ... ON CONFLICT(id) DO UPDATE: the row is there afterwards, and of
   a row that was there only the named columns change. *)
Touched(table, s) ==
  [i \in DOMAIN table \cup {s} |-> IF i \in DOMAIN table THEN table[i] ELSE NoData]

Upserted(table, s, d) == [Touched(table, s) EXCEPT ![s] = d]

WithoutSession(table, s) == [i \in DOMAIN table \ {s} |-> table[i]]
WithoutSteps(table, s) == Only(table, [session : Sessions \ {s}, row : Rows])

-----------------------------------------------------------------------------
(* Append: touch the session, insert the step, commit. *)
BeginAppend(p, s, row) ==
  /\ Idle(p) /\ appended < MaxRows
  /\ op' = [op EXCEPT ![p] = [session |-> s, row |-> row]]
  /\ appended' = appended + 1
  /\ Goto(p, "touch")
  /\ UNCHANGED <<sessions, steps, writer, draft, answer>>

(* A slip: the transaction reads the tables without the write lock. *)
TouchSessionUnlocked(p) ==
  /\ pc[p] = "touch"
  /\ writer' = p
  /\ draft' = [sessions |-> Touched(sessions, op[p].session), steps |-> steps]
  /\ Goto(p, "insert")
  /\ UNCHANGED <<tables, op, answer>>

TouchSession(p) ==
  /\ pc[p] = "touch" /\ writer = Nobody
  /\ writer' = p
  /\ draft' = [sessions |-> Touched(sessions, op[p].session), steps |-> steps]
  /\ Goto(p, "insert")
  /\ UNCHANGED <<tables, op, answer>>

InsertStep(p) ==
  /\ pc[p] = "insert"
  /\ draft' = [draft EXCEPT !.steps = Append(@, op[p])]
  /\ Goto(p, "commit")
  /\ UNCHANGED <<tables, writer, op, answer>>

(* Delete: the session, then its steps whether or not there was one. *)
BeginDelete(p, s) ==
  /\ Idle(p)
  /\ op' = [op EXCEPT ![p] = [session |-> s, row |-> Nobody]]
  /\ Goto(p, "drop")
  /\ UNCHANGED <<tables, writer, draft, answer>>

DropSession(p) ==
  /\ pc[p] = "drop" /\ writer = Nobody
  /\ writer' = p
  /\ draft' = [sessions |-> WithoutSession(sessions, op[p].session), steps |-> steps]
  /\ Goto(p, "dropSteps")
  /\ UNCHANGED <<tables, op, answer>>

DropSteps(p) ==
  /\ pc[p] = "dropSteps"
  /\ draft' = [draft EXCEPT !.steps = WithoutSteps(@, op[p].session)]
  /\ Goto(p, "commit")
  /\ UNCHANGED <<tables, writer, op, answer>>

Ended(p) ==
  /\ op' = [op EXCEPT ![p] = NoOp]
  /\ Goto(p, "idle")
  /\ UNCHANGED <<appended, answer>>

Released(p) ==
  IF writer = p THEN writer' = Nobody /\ draft' = NoTables ELSE UNCHANGED <<writer, draft>>

Commit(p) ==
  /\ pc[p] = "commit"
  /\ sessions' = draft.sessions /\ steps' = draft.steps
  /\ Released(p) /\ Ended(p)

Rollback(p) == ~Idle(p) /\ Released(p) /\ Ended(p) /\ UNCHANGED <<sessions, steps>>

-----------------------------------------------------------------------------
(* The single statements. *)
UpdateData(p, s, d) ==
  /\ Idle(p) /\ writer = Nobody
  /\ sessions' = Upserted(sessions, s, d)
  /\ UNCHANGED <<steps, appended, transactions, answer>>

Finalize(p, s) ==
  /\ Idle(p) /\ writer = Nobody
  /\ sessions' = Touched(sessions, s)
  /\ UNCHANGED <<steps, appended, transactions, answer>>

StepsOf(s) == Only(steps, [session : {s}, row : Rows])
RowsOf(selected) == [i \in DOMAIN selected |-> selected[i].row]

(* ORDER BY id DESC LIMIT n, reversed; a negative limit is none. *)
NewestFirst(s, n) ==
  LET descending == Reverse(RowsOf(StepsOf(s))) IN
  IF n <= 0 \/ n > Len(descending) THEN descending ELSE SubSeq(descending, 1, n)

LastN(p, s, n) ==
  /\ Idle(p)
  /\ answer' = Reverse(NewestFirst(s, n))
  /\ UNCHANGED <<tables, transactions>>

(* No row is a zero Session without data, and not an error. *)
Get(p, s) ==
  /\ Idle(p)
  /\ answer' = <<IF s \in DOMAIN sessions THEN sessions[s] ELSE NoData>>
  /\ UNCHANGED <<tables, transactions>>

Exists(p, s) ==
  /\ Idle(p)
  /\ answer' = <<s \in DOMAIN sessions>>
  /\ UNCHANGED <<tables, transactions>>

Next ==
  \E p \in Procs :
    \/ TouchSession(p) \/ InsertStep(p) \/ DropSession(p) \/ DropSteps(p)
    \/ Commit(p) \/ Rollback(p)
    \/ \E s \in Sessions :
         \/ \E row \in Rows : BeginAppend(p, s, row)
         \/ \E d \in Snapshots \cup {NoData} : UpdateData(p, s, d)
         \/ \E n \in Windows : LastN(p, s, n)
         \/ BeginDelete(p, s) \/ Finalize(p, s) \/ Get(p, s) \/ Exists(p, s)

Spec == Init /\ [][Next]_vars

-----------------------------------------------------------------------------
Log == INSTANCE SessionLog WITH
  log <- [s \in Sessions |-> RowsOf(StepsOf(s))],
  data <- [s \in Sessions |-> IF s \in DOMAIN sessions THEN sessions[s] ELSE NoData],
  known <- DOMAIN sessions

(* Whatever the processes do at once and wherever one of them dies, every
   transaction is one step of the contract's log or nothing at all, and
   every read is answered from it, in order (Append, LastN, Delete). *)
ImplementsLog == Log!Spec
=============================================================================
