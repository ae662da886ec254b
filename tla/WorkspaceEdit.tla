--------------------------- MODULE WorkspaceEdit ---------------------------
(***************************************************************************)
(* The workspace pack's mutations: a script's writes and edits of a file,  *)
(* while others change it.                                                 *)
(*                                                                         *)
(* A file is a sequence of symbols, as are the text an edit is to find and *)
(* what it puts there, which may hold or make that text anew.  A write or  *)
(* an edit reads, asks for permission and writes as separate steps; the    *)
(* user may take his time over the question, with an editor open.          *)
(***************************************************************************)
EXTENDS Integers, Sequences, Lists

CONSTANTS
  Files,          \* the paths of the tree
  Symbols,        \* what a text is made of
  MaxText,        \* bound: the longest file
  Finds,          \* what edits look for: no empty text, which is refused
  Replacements    \* what they put in its place

Contents == UNION {[1..n -> Symbols] : n \in 0..MaxText}
NoCall == [op |-> "none", file |-> "", find |-> <<>>, with |-> <<>>, all |-> FALSE, text |-> <<>>]

VARIABLES
  disk,         \* file -> its text
  policy,       \* what the policy says of mutations
  approver,     \* whether there is someone to ask
  pc,           \* where the current mutation is
  call,         \* its arguments
  before,       \* the file as editFile read it; for writeFile, as it was (history)
  opened,       \* the current call has opened, and so truncated, the file
  meddled       \* someone else has written the file meanwhile (history)

vars == <<disk, policy, approver, pc, call, before, opened, meddled>>
callVars == <<call, before, opened, meddled>>
configVars == <<policy, approver>>

Init ==
  /\ disk \in [Files -> Contents]
  /\ policy \in {"allows", "denies", "fails"} /\ approver \in BOOLEAN
  /\ pc = "idle" /\ call = NoCall /\ before = <<>> /\ opened = FALSE /\ meddled = FALSE

-----------------------------------------------------------------------------
(* Where find begins in text.  strings.Count counts occurrences that do not
   overlap: more than one when two of them are apart. *)
Occurrences(text, find) ==
  {i \in 1..(Len(text) - Len(find) + 1) : SubSeq(text, i, i + Len(find) - 1) = find}

Ambiguous(text, find) ==
  \E i, j \in Occurrences(text, find) : i + Len(find) <= j

First(text, find) ==
  CHOOSE i \in Occurrences(text, find) : \A j \in Occurrences(text, find) : i <= j

(* text with the occurrence of find at i replaced. *)
ReplaceAt(text, find, with, i) ==
  SubSeq(text, 1, i - 1) \o with \o SubSeq(text, i + Len(find), Len(text))

(* strings.ReplaceAll takes occurrences from the left, none of them twice. *)
Starts(text, find) ==
  LET taken[i \in 0..Len(text)] ==
        IF i = 0 THEN {}
        ELSE taken[i - 1] \cup {j \in Occurrences(text, find) \cap {i} :
                                  \A k \in taken[i - 1] : k + Len(find) <= j}
  IN taken[Len(text)]

ReplaceAll(text, find, with) ==
  Flat([i \in 1..Len(text) |->
          IF i \in Starts(text, find) THEN with
          ELSE IF \E j \in Starts(text, find) : j < i /\ i < j + Len(find) THEN <<>>
          ELSE <<text[i]>>])

Replace(text, find, with, all) ==
  IF all THEN ReplaceAll(text, find, with)
  ELSE ReplaceAt(text, find, with, First(text, find))

-----------------------------------------------------------------------------
(* Mutation.  authorize asks the policy, then the user. *)

Authorize ==
  pc' = CASE policy = "allows" -> "write"
          [] policy = "denies" /\ approver -> "ask"
          [] OTHER -> "threw"

Begin(c) ==
  /\ call' = c
  /\ before' = disk[c.file]
  /\ opened' = FALSE /\ meddled' = FALSE
  /\ UNCHANGED <<disk, configVars>>

(* A path outside the root, or a directory, is refused before all else. *)
WriteFile ==
  /\ pc = "idle"
  /\ \E f \in Files, text \in Contents :
       Begin([NoCall EXCEPT !.op = "write", !.file = f, !.text = text])
  /\ Authorize \/ pc' = "threw"

Edit(f, find, with, all) ==
  [NoCall EXCEPT !.op = "edit", !.file = f, !.find = find, !.with = with, !.all = all]

(* A slip: the ambiguity of the text to find is not looked at. *)
EditFileAnyway ==
  /\ pc = "idle"
  /\ \E f \in Files, find \in Finds, with \in Replacements, all \in BOOLEAN :
       /\ Begin(Edit(f, find, with, all))
       /\ Occurrences(disk[f], find) # {}
       /\ Len(Replace(disk[f], find, with, all)) <= MaxText
       /\ Authorize

(* It is refused too when the file cannot be read. *)
EditFile ==
  /\ pc = "idle"
  /\ \E f \in Files, find \in Finds, with \in Replacements, all \in BOOLEAN :
       /\ Begin(Edit(f, find, with, all))
       /\ \/ pc' = "threw"
          \/ /\ Occurrences(disk[f], find) # {}
             /\ Ambiguous(disk[f], find) => all
             /\ Len(Replace(disk[f], find, with, all)) <= MaxText
             /\ Authorize

Answer ==
  /\ pc = "ask"
  /\ pc' \in {"write", "threw"}
  /\ UNCHANGED <<disk, configVars, callVars>>

(* Root.WriteFile opens the file, which empties it, or cannot. *)
Open ==
  /\ pc = "write"
  /\ \/ /\ pc' = "fill"
        /\ disk' = [disk EXCEPT ![call.file] = <<>>]
        /\ opened' = TRUE
     \/ /\ pc' = "threw"
        /\ UNCHANGED <<disk, opened>>
  /\ UNCHANGED <<configVars, call, before, meddled>>

Goal == IF call.op = "write" THEN call.text
        ELSE Replace(before, call.find, call.with, call.all)

(* What the first n symbols written from the start make of the file. *)
Overlaid(n, now) == SubSeq(Goal, 1, n) \o SubSeq(now, n + 1, Len(now))

(* It then writes what was given, or what was read and edited; all of it, or
   less than that when the write fails. *)
Fill ==
  /\ pc = "fill"
  /\ \E n \in 0..Len(Goal) :
       /\ disk' = [disk EXCEPT ![call.file] = Overlaid(n, @)]
       /\ pc' \in (IF n = Len(Goal) THEN {"done"} ELSE {"threw"})
  /\ UNCHANGED <<configVars, callVars>>

CallEnds ==
  /\ pc \in {"done", "threw"}
  /\ pc' = "idle"
  /\ call' = NoCall /\ before' = <<>> /\ opened' = FALSE /\ meddled' = FALSE
  /\ UNCHANGED <<disk, configVars>>

(* The user's editor, a command, another agent. *)
OthersWrite ==
  /\ \E f \in Files, text \in Contents :
       /\ disk' = [disk EXCEPT ![f] = text]
       /\ meddled' = (meddled \/ f = call.file)
  /\ UNCHANGED <<configVars, pc, call, before, opened>>

Next == WriteFile \/ EditFile \/ Answer \/ Open \/ Fill \/ CallEnds \/ OthersWrite

Spec == Init /\ [][Next]_vars

-----------------------------------------------------------------------------
(* Unless someone else writes the file meanwhile: a call that was refused,
   found its text missing or ambiguous, or could not open the file leaves it
   as it was; a write that returns has written what it was given, and an edit
   the text it read with the find text replaced: at its one occurrence, which
   no other follows, or from the left wherever it occurred (editFile). *)
EditIsExact ==
  LET now == disk[call.file] IN
  /\ pc = "threw" /\ ~opened /\ ~meddled => now = before
  /\ pc = "done" /\ ~meddled =>
       CASE call.op = "write" -> now = call.text
         [] call.op = "edit" /\ call.all -> now = ReplaceAll(before, call.find, call.with)
         [] call.op = "edit" /\ ~call.all ->
              \E i \in Occurrences(before, call.find) :
                /\ now = ReplaceAt(before, call.find, call.with, i)
                /\ \A j \in Occurrences(before, call.find) :
                     j < i + Len(call.find) /\ i < j + Len(call.find)

-----------------------------------------------------------------------------
(* Two claims that this code does not keep. *)

(* The help text: find must occur exactly once, or nothing is written.  The
   count is of the text read before the user was asked, and passes over an
   occurrence that overlaps the one before it. *)
EditsExactlyOnce ==
  [][opened' /\ ~opened /\ call.op = "edit" /\ ~call.all =>
       \E i \in Occurrences(disk[call.file], call.find) :
         Occurrences(disk[call.file], call.find) = {i}]_vars

(* A mutation that throws has changed nothing.  A write that fails half way
   has: the file was emptied when it was opened. *)
ThrownIsUntouched == pc = "threw" /\ ~meddled => disk[call.file] = before
=============================================================================
