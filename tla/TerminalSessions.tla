--------------------------- MODULE TerminalSessions --------------------------
(***************************************************************************)
(* The command-line client over its session database: agentloop run and    *)
(* agentloop chat processes that start, take turns, ask for permission and  *)
(* end or are killed, and agentloop sessions rm and revoke beside them.    *)
(* Approvals are memoised in the process and persisted for the session;    *)
(* --continue resumes the session with the latest updated_at text.         *)
(***************************************************************************)
EXTENDS Integers, Sequences, FiniteSets

CONSTANTS
    Procs,      \* run and chat processes
    Sessions,   \* session ids
    Questions,  \* what a capability may ask permission for
    NoSession,  \* no session named, none held
    NoQuestion, \* nothing being asked
    Instants,   \* what the clock shows (bound)
    MaxSteps    \* rows of a session are counted up to this (bound)

ASSUME TerminalAssumption ==
    /\ NoSession \notin Sessions /\ NoQuestion \notin Questions
    /\ Instants \subseteq Nat /\ Instants # {} /\ MaxSteps \in Nat

VARIABLES
    pc,         \* [Procs -> where the process is]
    mode,       \* [Procs -> terminalPrompter.mode]
    interactive,\* [Procs -> it is a chat, which takes turn after turn]
    session,    \* [Procs -> session.id, None before and after]
    durable,    \* [Procs -> the prompter has a store: not --ephemeral]
    memo,       \* [Procs -> [Questions -> terminalPrompter.remembered]]
    question,   \* [Procs -> the question a script waits with]
    rows,       \* sessions table: [id -> updated_at] for the ids with a row
    steps,      \* steps table: [Sessions -> how many rows]
    grants,     \* session_grants table: <<id, question>>
    now,        \* the clock
    used,       \* ids that have been generated or named
    yesBy,      \* <<process, question>> the user approved while it ran (history)
    yesIn,      \* <<id, question>> the user approved in that session (history)
    standing,   \* <<id, question>> approved since the id's last rm or revoke (history)
    given       \* <<process, id, question>> a running process told a script is approved (history)

client == <<mode, interactive, session, durable>>
tables == <<rows, steps, grants>>
history == <<yesBy, yesIn, standing, given>>
vars == <<pc, client, memo, question, tables, now, used, history>>

Unknown == "unknown"
Forgotten == [q \in Questions |-> Unknown]

Init ==
    /\ pc = [p \in Procs |-> "off"]
    /\ mode = [p \in Procs |-> "deny"]
    /\ interactive = [p \in Procs |-> FALSE]
    /\ session = [p \in Procs |-> NoSession]
    /\ durable = [p \in Procs |-> FALSE]
    /\ memo = [p \in Procs |-> Forgotten]
    /\ question = [p \in Procs |-> NoQuestion]
    /\ rows = [s \in {} |-> 0]
    /\ steps = [s \in Sessions |-> 0]
    /\ grants = {}
    /\ now \in Instants
    /\ used = {}
    /\ yesBy = {} /\ yesIn = {} /\ standing = {} /\ given = {}

-----------------------------------------------------------------------------
(* Timestamps.  Four instants a second stand for the nanoseconds; the       *)
(* layout writes them as binary digits and, like RFC3339Nano, leaves        *)
(* trailing zeros out, and the point with them.                            *)

SecondOf(t) == t \div 4

Point == 0
Zulu == 3   \* "Z" sorts after every digit, "." before
Fraction == <<<<>>, <<Point, 1, 2>>, <<Point, 2>>, <<Point, 2, 2>>>>

Stamp(t) == <<SecondOf(t)>> \o Fraction[(t % 4) + 1] \o <<Zulu>>

TextLess(a, b) ==
    \E i \in DOMAIN a \cap DOMAIN b : a[i] < b[i] /\ \A j \in 1..(i - 1) : a[j] = b[j]

\* Slip: the oldest session is the one resumed.
MostRecentOldest(table) ==
    {s \in DOMAIN table : \A t \in DOMAIN table : ~TextLess(Stamp(table[t]), Stamp(table[s]))}

\* MostRecent, up to the choice between equal stamps.
MostRecent(table) ==
    {s \in DOMAIN table : \A t \in DOMAIN table : ~TextLess(Stamp(table[s]), Stamp(table[t]))}

Touch(s) == rows' = [t \in DOMAIN rows \cup {s} |-> IF t = s THEN now ELSE rows[t]]

-----------------------------------------------------------------------------
(* Starting.                                                               *)

Options == [named: Sessions \cup {NoSession}, resume: BOOLEAN, ephemeral: BOOLEAN,
            approve: {"", "prompt", "auto", "deny"}, terminal: BOOLEAN, chat: BOOLEAN]

\* options.resolve and resolveApprovalMode: what is rejected.
Rejected(o) ==
    \/ o.named # NoSession /\ o.resume
    \/ o.resume /\ o.ephemeral
    \/ o.approve = "prompt" /\ ~o.terminal

ApprovalMode(o) ==
    IF o.approve # "" THEN o.approve ELSE IF o.terminal THEN "prompt" ELSE "deny"

\* resolveStores: with nothing to continue the process ends; the session named, the latest one, or a new one.
Resolve(o) ==
    IF o.named # NoSession THEN {o.named}
    ELSE IF o.resume THEN MostRecent(rows)
    ELSE Sessions \ used

Start(p) ==
    /\ pc[p] = "off"
    /\ \E o \in Options :
          /\ ~Rejected(o)
          /\ \E s \in Resolve(o) :
                /\ session' = [session EXCEPT ![p] = s]
                /\ used' = used \cup {s}
          /\ mode' = [mode EXCEPT ![p] = ApprovalMode(o)]
          /\ durable' = [durable EXCEPT ![p] = ~o.ephemeral]
          /\ interactive' = [interactive EXCEPT ![p] = o.chat]
    /\ pc' = [pc EXCEPT ![p] = "idle"]
    /\ UNCHANGED <<memo, question, tables, now, yesBy, yesIn, standing, given>>

\* chat's /new.
NewSession(p) ==
    /\ pc[p] = "idle" /\ interactive[p]
    /\ \E s \in Sessions \ used :
          /\ session' = [session EXCEPT ![p] = s]
          /\ used' = used \cup {s}
    /\ UNCHANGED <<pc, mode, interactive, durable, memo, question, tables, now, history>>

-----------------------------------------------------------------------------
(* A turn.                                                                 *)

CountRow(s) == steps' = [steps EXCEPT ![s] = IF @ < MaxSteps THEN @ + 1 ELSE @]

\* Slip: the session row is only written when the Run ends.
AppendStepUntouched(p) ==
    IF durable[p] THEN CountRow(session[p]) /\ UNCHANGED rows ELSE UNCHANGED <<steps, rows>>

\* Store.Append: the step and its session's row in one transaction.
AppendStep(p) ==
    IF durable[p] THEN CountRow(session[p]) /\ Touch(session[p]) ELSE UNCHANGED <<steps, rows>>

\* Loop.Run begins with the user's row.
BeginTurn(p) ==
    /\ pc[p] = "idle"
    /\ AppendStep(p)
    /\ pc' = [pc EXCEPT ![p] = "turn"]
    /\ UNCHANGED <<client, memo, question, grants, now, used, history>>

\* A further row of the Run.
TakeStep(p) ==
    /\ pc[p] = "turn"
    /\ AppendStep(p)
    /\ UNCHANGED <<pc, client, memo, question, grants, now, used, history>>

\* The process ends, and what it knew with it.
Gone(p) ==
    /\ pc' = [pc EXCEPT ![p] = "off"]
    /\ mode' = [mode EXCEPT ![p] = "deny"]
    /\ interactive' = [interactive EXCEPT ![p] = FALSE]
    /\ session' = [session EXCEPT ![p] = NoSession]
    /\ durable' = [durable EXCEPT ![p] = FALSE]
    /\ memo' = [memo EXCEPT ![p] = Forgotten]
    /\ question' = [question EXCEPT ![p] = NoQuestion]
    /\ yesBy' = {y \in yesBy : y[1] # p}
    /\ given' = {g \in given : g[1] # p}

\* The Run returns, after Finalize, which may fail: the session's row is upserted.
EndTurn(p) ==
    /\ pc[p] = "turn"
    /\ IF durable[p] THEN Touch(session[p]) \/ UNCHANGED rows ELSE UNCHANGED rows
    /\ IF interactive[p] THEN pc' = [pc EXCEPT ![p] = "idle"] /\ UNCHANGED <<client, memo, question, yesBy, given>>
       ELSE Gone(p)
    /\ UNCHANGED <<steps, grants, now, used, yesIn, standing>>

-----------------------------------------------------------------------------
(* terminalPrompter.confirm.                                               *)

Hand(p, q, answer) ==
    given' = IF answer /\ mode[p] = "prompt" THEN given \cup {<<p, session[p], q>>} ELSE given

\* A script asks; auto and deny answer, and so does the memo.
Confirm(p, q) ==
    /\ pc[p] = "turn"
    /\ mode[p] = "prompt" /\ memo[p][q] = Unknown
    /\ question' = [question EXCEPT ![p] = q]
    /\ pc' = [pc EXCEPT ![p] = IF durable[p] THEN "lookup" ELSE "ask"]
    /\ UNCHANGED <<client, memo, tables, now, used, history>>

Recall(p, q) ==
    /\ pc[p] = "turn"
    /\ mode[p] = "prompt" /\ memo[p][q] # Unknown
    /\ Hand(p, q, memo[p][q] = "yes")
    /\ UNCHANGED <<pc, client, memo, question, tables, now, used, yesBy, yesIn, standing>>

\* Store.IsGranted: there is a row of the session and the question.
IsGranted(s, q) == <<s, q>> \in grants

\* Slip: a lookup that fails counts as an approval.
LookupTrusting(p) ==
    /\ pc[p] = "lookup"
    /\ Hand(p, question[p], TRUE)
    /\ pc' = [pc EXCEPT ![p] = "turn"]
    /\ question' = [question EXCEPT ![p] = NoQuestion]
    /\ UNCHANGED <<client, memo, tables, now, used, yesBy, yesIn, standing>>

\* A row approves; a failed lookup, like a missing row, asks.
Lookup(p) ==
    /\ pc[p] = "lookup"
    /\ \/ /\ IsGranted(session[p], question[p])
          /\ Hand(p, question[p], TRUE)
          /\ pc' = [pc EXCEPT ![p] = "turn"]
          /\ question' = [question EXCEPT ![p] = NoQuestion]
       \/ /\ pc' = [pc EXCEPT ![p] = "ask"]
          /\ UNCHANGED <<question, given>>
    /\ UNCHANGED <<client, memo, tables, now, used, yesBy, yesIn, standing>>

\* The user answers; the answer is memoised, and an approval goes on to the store.
Answer(p) ==
    /\ pc[p] = "ask"
    /\ \E answer \in BOOLEAN :
          /\ memo' = [memo EXCEPT ![p][question[p]] = IF answer THEN "yes" ELSE "no"]
          /\ yesBy' = IF answer THEN yesBy \cup {<<p, question[p]>>} ELSE yesBy
          /\ yesIn' = IF answer THEN yesIn \cup {<<session[p], question[p]>>} ELSE yesIn
          /\ standing' = IF answer THEN standing \cup {<<session[p], question[p]>>} ELSE standing
          /\ Hand(p, question[p], answer)
          /\ IF answer /\ durable[p]
             THEN pc' = [pc EXCEPT ![p] = "record"] /\ UNCHANGED question
             ELSE /\ pc' = [pc EXCEPT ![p] = "turn"]
                  /\ question' = [question EXCEPT ![p] = NoQuestion]
    /\ UNCHANGED <<client, tables, now, used>>

\* Standard input ends: the question fails, and is neither remembered nor answered.
InputEnds(p) ==
    /\ pc[p] = "ask"
    /\ pc' = [pc EXCEPT ![p] = "turn"]
    /\ question' = [question EXCEPT ![p] = NoQuestion]
    /\ UNCHANGED <<client, memo, tables, now, used, history>>

\* Store.Grant, once or again; or its failure.
Grant(s, q) == grants' \in {grants, grants \cup {<<s, q>>}}

Record(p) ==
    /\ pc[p] = "record"
    /\ Grant(session[p], question[p])
    /\ pc' = [pc EXCEPT ![p] = "turn"]
    /\ question' = [question EXCEPT ![p] = NoQuestion]
    /\ UNCHANGED <<client, memo, rows, steps, now, used, history>>

\* /exit, the end of the input, or a signal at any time.
Leave(p) ==
    /\ pc[p] # "off"
    /\ Gone(p)
    /\ UNCHANGED <<tables, now, used, yesIn, standing>>

-----------------------------------------------------------------------------
(* agentloop sessions, from another terminal.                              *)

\* Approvals of s whose Grant is still to come: no statement can reach them.
InFlight(s) == {<<s, question[p]>> : p \in {x \in Procs : pc[x] = "record" /\ session[x] = s}}

WithoutSession(set, s) == {g \in set : g[1] # s}

\* Slip: only the session and its steps are deleted.
DeleteKeepsGrants(s) ==
    /\ rows' = [t \in DOMAIN rows \ {s} |-> rows[t]]
    /\ steps' = [steps EXCEPT ![s] = 0]
    /\ standing' = WithoutSession(standing, s) \cup InFlight(s)
    /\ UNCHANGED <<pc, client, memo, question, grants, now, used, yesBy, yesIn, given>>

\* Store.Delete: one transaction over the three tables, whether or not the
\* session has a row.
Delete(s) ==
    /\ rows' = [t \in DOMAIN rows \ {s} |-> rows[t]]
    /\ steps' = [steps EXCEPT ![s] = 0]
    /\ grants' = WithoutSession(grants, s)
    /\ standing' = WithoutSession(standing, s) \cup InFlight(s)
    /\ UNCHANGED <<pc, client, memo, question, now, used, yesBy, yesIn, given>>

Revoke(s) ==
    /\ grants' = WithoutSession(grants, s)
    /\ standing' = WithoutSession(standing, s) \cup InFlight(s)
    /\ UNCHANGED <<pc, client, memo, question, rows, steps, now, used, yesBy, yesIn, given>>

Tick ==
    /\ now' \in {t \in Instants : t > now}
    /\ UNCHANGED <<pc, client, memo, question, tables, used, history>>

Process(p) ==
    \/ Start(p) \/ NewSession(p)
    \/ BeginTurn(p) \/ TakeStep(p) \/ EndTurn(p) \/ Leave(p)
    \/ \E q \in Questions : Confirm(p, q) \/ Recall(p, q)
    \/ Lookup(p) \/ Answer(p) \/ InputEnds(p) \/ Record(p)

Next ==
    \/ \E p \in Procs : Process(p)
    \/ \E s \in Sessions : Delete(s) \/ Revoke(s)
    \/ Tick

Spec == Init /\ [][Next]_vars

-----------------------------------------------------------------------------
\* Type invariant of the processes and the tables.
TypeOK ==
    /\ pc \in [Procs -> {"off", "idle", "turn", "lookup", "ask", "record"}]
    /\ mode \in [Procs -> {"prompt", "auto", "deny"}]
    /\ interactive \in [Procs -> BOOLEAN] /\ durable \in [Procs -> BOOLEAN]
    /\ session \in [Procs -> Sessions \cup {NoSession}]
    /\ memo \in [Procs -> [Questions -> {Unknown, "yes", "no"}]]
    /\ question \in [Procs -> Questions \cup {NoQuestion}]
    /\ DOMAIN rows \subseteq Sessions /\ \A s \in DOMAIN rows : rows[s] \in 0..now
    /\ steps \in [Sessions -> 0..MaxSteps]
    /\ grants \subseteq Sessions \X Questions
    /\ \A p \in Procs : (session[p] = NoSession) = (pc[p] = "off")

\* A script is told "approved" only if the user said so to that very question,
\* in this process or in this session: no failed lookup, refusal, end of input
\* or restart turns into an approval (prompt.go, recall and remember).
ApprovalWasGiven ==
    \A g \in given : <<g[1], g[3]>> \in yesBy \/ <<g[2], g[3]>> \in yesIn

\* A persisted approval is newer than the last rm or revoke of its session, or
\* was on its way to the store then: nothing pre-approves a later session of
\* the same id (sessions.go, Delete: "a stale grant is worse than orphaned").
GrantsAreStanding == grants \subseteq standing

\* No step is stored for a session that is not listed, after any mix of
\* deletions and Runs still going (sqlite.go, Append: "or vice versa").
NoOrphanSteps == \A s \in Sessions : steps[s] > 0 => s \in DOMAIN rows

\* --continue never resumes a session that was last touched in an earlier
\* second than another one (MostRecent).
ContinuesLatest ==
    \A s \in MostRecent(rows), t \in DOMAIN rows : SecondOf(rows[t]) <= SecondOf(rows[s])

-----------------------------------------------------------------------------
\* options.go: "an approval must not carry across that boundary into a session
\* the user meant to start clean".  The memo is not keyed by session.
ApprovalStaysInSession == \A g \in given : <<g[2], g[3]>> \in yesIn

\* sqlite.go: the stamps sort "lexicographically the same way [they sort]
\* chronologically".  Trailing zeros are left out, so within a second they do not.
ContinuesExactlyLatest ==
    \A s \in MostRecent(rows), t \in DOMAIN rows : rows[t] <= rows[s]
=============================================================================
