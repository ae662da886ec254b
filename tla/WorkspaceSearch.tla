------------------------- MODULE WorkspaceSearch -------------------------
(***************************************************************************)
(* The workspace pack's reads and searches: readFile, glob and grep.       *)
(*                                                                         *)
(* A file is a sequence of lines, a directory tree the sequence of its     *)
(* files in walk order; some directories and files cannot be read.  The    *)
(* operators are functions of the disk; the state is one disk, and a step  *)
(* is a change of one file or of what can be read.                         *)
(***************************************************************************)
EXTENDS Lists

CONSTANTS
  Lines,          \* the lines a file may hold
  Binary,         \* those with a NUL byte
  Tree,           \* the paths of the tree in walk order, each a sequence of names
  SkipDirs,       \* directory names never descended into
  Unreadables,    \* what may not be readable at a time: sets of paths, <<>> the root
  Patterns,       \* the globs scripts use, each a sequence of segments
  MaxLines,       \* bound: the longest file
  MaxFileLines,   \* the size cap of readFile and grep, in lines
  MaxResults,     \* the cap of glob and grep
  MaxWalkFiles    \* the files a walk visits before it gives up

TreeFiles == 1..Len(Tree)
Contents == UNION {[1..n -> Lines] : n \in 0..MaxLines}

VARIABLES
  disk,         \* file -> its lines
  barred        \* the directories and files that cannot be read

vars == <<disk, barred>>

Init == disk \in [TreeFiles -> Contents] /\ barred \in Unreadables

-----------------------------------------------------------------------------
(* readFile: over the cap the text is cut first, and the window then taken
   from what is left. *)
Cut(text) == IF Len(text) > MaxFileLines THEN SubSeq(text, 1, MaxFileLines) ELSE text

SliceLines(text, offset, limit) ==
  LET start == IF offset > 0 THEN offset ELSE 1
      end == IF limit > 0 THEN start + limit - 1 ELSE Len(text)
  IN SubSeq(text, start, IF end > Len(text) THEN Len(text) ELSE end)

ReadFile(f, offset, limit) ==
  [text |-> SliceLines(Cut(disk[f]), offset, limit), truncated |-> Len(disk[f]) > MaxFileLines]

(* matchSegments over suffixes: "**" spans any number of segments, "*" one. *)
MatchSegments(pat, seg) ==
  LET match[i \in 1..(Len(pat) + 1), j \in 1..(Len(seg) + 1)] ==
        IF i > Len(pat) THEN j > Len(seg)
        ELSE IF pat[i] = "**" THEN \E k \in j..(Len(seg) + 1) : match[i + 1, k]
        ELSE j <= Len(seg) /\ pat[i] \in {"*", seg[j]} /\ match[i + 1, j + 1]
  IN match[1, 1]

(* The files in directories that are not skipped by name or, with what is below
   them, because they cannot be read. *)
Visible == {f \in TreeFiles :
              \A i \in 0..(Len(Tree[f]) - 1) :
                /\ SubSeq(Tree[f], 1, i) \notin barred
                /\ i > 0 => Tree[f][i] \notin SkipDirs}

Walked == Only([f \in TreeFiles |-> f], Visible)

FirstOf(s, n) == SubSeq(s, 1, IF n < Len(s) THEN n ELSE Len(s))

(* grep passes over a file it cannot read, one over the cap and a binary one. *)
Searched(f) ==
  /\ Tree[f] \notin barred
  /\ Len(disk[f]) <= MaxFileLines
  /\ \A i \in DOMAIN disk[f] : disk[f][i] \notin Binary

(* The matching lines of a file that it looks into. *)
LinesOf(f, line) ==
  Only([i \in DOMAIN disk[f] |-> i], {i \in DOMAIN disk[f] : disk[f][i] = line /\ Searched(f)})

HitsIn(f, line) == [k \in DOMAIN LinesOf(f, line) |-> <<f, LinesOf(f, line)[k]>>]

(* A slip: a file it passes over ends the search. *)
ScanStopping(hits, f, line, limit) ==
  [hits |-> hits \o FirstOf(HitsIn(f, line), limit - Len(hits)),
   on |-> Searched(f)]

(* grep reads a file until it has enough, which it notices at the next line
   or the next file. *)
Scan(hits, f, line, limit) ==
  LET room == limit - Len(hits)
      found == HitsIn(f, line)
  IN [hits |-> hits \o FirstOf(found, room),
      on |-> room > 0 /\ (Len(found) >= room => found[room][2] = Len(disk[f]))]

(* What a walk is for: the names of the files, or some of their lines. *)
Names == [line |-> "none", limit |-> 0]
LinesLike(line, limit) == [line |-> line, limit |-> limit]

Visit(hits, f, search) ==
  IF search = Names THEN [hits |-> hits, on |-> TRUE]
  ELSE Scan(hits, f, search.line, search.limit)

(* walk: the files outside the skipped directories, in order, until the
   visitor stops it, MaxResults files have matched, or it gives up. *)
Visited(walk, f, search) ==
  LET visit == Visit(walk.hits, f, search)
      matches == Append(walk.matches, f)
  IN [matches |-> matches, hits |-> visit.hits,
      over |-> IF ~visit.on \/ Len(matches) >= MaxResults THEN "stopped" ELSE "no"]

Reach(walk, i, pattern, search) ==
  IF walk.over # "no" THEN walk
  ELSE IF i > MaxWalkFiles THEN [walk EXCEPT !.over = "gave up"]
  ELSE IF ~MatchSegments(pattern, Tree[Walked[i]]) THEN walk
  ELSE Visited(walk, Walked[i], search)

Walk(pattern, search) ==
  LET walk[i \in 0..Len(Walked)] ==
        IF i = 0 THEN [matches |-> <<>>, hits |-> <<>>, over |-> "no"]
        ELSE Reach(walk[i - 1], i, pattern, search)
  IN walk[Len(Walked)]

(* A walk that gave up throws; another one answers. *)
Answers(walk) == walk.over # "gave up"

Glob(pattern) == Walk(pattern, Names)

GrepLimit(limit) == IF limit <= 0 \/ limit > MaxResults THEN MaxResults ELSE limit

Grep(pattern, line, limit) == Walk(pattern, LinesLike(line, GrepLimit(limit)))

-----------------------------------------------------------------------------
Changes ==
  \/ /\ \E f \in TreeFiles, text \in Contents : disk' = [disk EXCEPT ![f] = text]
     /\ UNCHANGED barred
  \/ barred' \in Unreadables /\ UNCHANGED disk

Spec == Init /\ [][Changes]_vars

-----------------------------------------------------------------------------
Matching(pattern) == {f \in TreeFiles : MatchSegments(pattern, Tree[f])}

Matches(pattern) == Only(Walked, Matching(pattern))

AllHits(pattern, line) ==
  Flat([k \in DOMAIN Matches(pattern) |-> HitsIn(Matches(pattern)[k], line)])

(* A search that answers tells the truth, and all of it when it tells less
   than it could, of what can be read: glob the matching files of the
   directories it can list, grep in order the matching lines of those it looks
   into, as long as no more than MaxResults files match the glob.  What it
   cannot read it passes over without a word, but nothing else and nothing
   after it (globFiles, grep, walk). *)
SearchTellsAll ==
  \A pattern \in Patterns :
    /\ LET glob == Glob(pattern) IN
       Answers(glob) => glob.matches = FirstOf(Matches(pattern), MaxResults)
    /\ \A line \in Lines, limit \in 0..(MaxResults + 1) :
         LET grep == Grep(pattern, line, limit)
             all == AllHits(pattern, line) IN
         Answers(grep) =>
           /\ grep.hits = FirstOf(all, Len(grep.hits))
           /\ (Len(Matches(pattern)) <= MaxResults /\ Len(grep.hits) < GrepLimit(limit))
                => grep.hits = all

(* The same for every tree: that a short answer is a complete one.  A walk
   that ends after MaxResults files have matched makes it untrue. *)
SearchTellsAllEverywhere ==
  \A pattern \in Patterns, line \in Lines :
    LET grep == Grep(pattern, line, 0) IN
    Answers(grep) /\ Len(grep.hits) < MaxResults => grep.hits = AllHits(pattern, line)

(* What the marker of a truncated read says: that a window reads further.
   The window is taken from what the cut has left. *)
WindowReadsFurther ==
  \A f \in TreeFiles : \A n \in DOMAIN disk[f] : ReadFile(f, n, 1).text = <<disk[f][n]>>
=============================================================================
