----------------------------- MODULE Packs ------------------------------
(***************************************************************************)
(* The tool packs, one at a time: a behaviour is a behaviour of one pack,  *)
(* chosen at the start, so that one run checks them all.  Packs share no   *)
(* state; variables of the same name stand for the chosen pack's, and      *)
(* those it does not have keep the value Unused.                           *)
(***************************************************************************)
EXTENDS Integers, Sequences

CONSTANTS
  Hosts, Ancestors, Stems, PrivateHosts, Raws, Policies,    \* FetchAccess
  Batches, MaxRedirects,
  Codes,                                                    \* CommandExec
  PageElements, MaxDocs,                                        \* BrowserMarks
  Calls, MaxLaunches,                                       \* ChromeDriver
  Files, Symbols, MaxText, Finds, Replacements,             \* WorkspaceEdit
  Lines, Binary, MaxLines, Tree, SkipDirs, Unreadables,     \* WorkspaceSearch
  Patterns, MaxFileLines, MaxResults, MaxWalkFiles

(* A script's argument names a host: the empty one is refused. *)
ASSUME HostsAssumption ==
  /\ "" \notin Hosts
  /\ \A r \in Raws : r.host \in Hosts
  /\ \A batch \in Batches : \A i \in DOMAIN batch : batch[i] \in Raws

(* What edits look for and put in its place are texts; editFile refuses to look
   for nothing. *)
ASSUME EditAssumption ==
  Finds \subseteq Seq(Symbols) \ {<<>>} /\ Replacements \subseteq Seq(Symbols)

(* The workspace's caps have defaults, so that none of them is zero. *)
ASSUME SearchAssumption ==
  /\ Tree \in Seq(Seq(STRING))
  /\ MaxResults \in Nat \ {0} /\ MaxWalkFiles \in Nat \ {0}

VARIABLES
  pack,
  policy, requester, approved, config, pc, call, said,
  approver, child, code, helpers, ctxErr, watcher, delay, err, result,
  doc, page, som, marksValid, shot, listed, lost, focus, strayed, acted,
  frames, mu, runMu, closed, bctx, cancels, launched, alive, step, mine, cancelled,
  disk, before, opened, meddled, barred

Unused == "unused"

F == INSTANCE FetchAccess
E == INSTANCE CommandExec
B == INSTANCE BrowserMarks
C == INSTANCE ChromeDriver
W == INSTANCE WorkspaceEdit
Search == INSTANCE WorkspaceSearch

-----------------------------------------------------------------------------
(* The variables of one pack only, and those several packs use. *)
fetchVars == <<requester, approved, config, said>>
execVars == <<child, code, helpers, ctxErr, watcher, delay, err, result>>
marksVars == <<doc, page, som, marksValid, shot, listed, lost, focus, strayed, acted>>
chromeVars == <<frames, mu, runMu, closed, bctx, cancels, launched, alive, step, mine, cancelled>>
editVars == <<before, opened, meddled>>

NoFetch ==
  /\ requester = Unused /\ approved = Unused /\ config = Unused /\ said = Unused

NoExec ==
  /\ child = Unused /\ code = Unused /\ helpers = Unused /\ ctxErr = Unused
  /\ watcher = Unused /\ delay = Unused /\ err = Unused /\ result = Unused

NoMarks ==
  /\ doc = Unused /\ page = Unused /\ som = Unused /\ marksValid = Unused
  /\ shot = Unused /\ listed = Unused /\ lost = Unused /\ focus = Unused
  /\ strayed = Unused /\ acted = Unused

NoChrome ==
  /\ frames = Unused /\ mu = Unused /\ runMu = Unused /\ closed = Unused
  /\ bctx = Unused /\ cancels = Unused /\ launched = Unused /\ alive = Unused
  /\ step = Unused /\ mine = Unused /\ cancelled = Unused

NoEdit ==
  /\ before = Unused /\ opened = Unused /\ meddled = Unused

Init ==
  \/ /\ pack = "fetch" /\ F!Init
     /\ NoExec /\ NoMarks /\ NoChrome /\ NoEdit
     /\ approver = Unused /\ disk = Unused /\ barred = Unused
  \/ /\ pack = "exec" /\ E!Init
     /\ NoFetch /\ NoMarks /\ NoChrome /\ NoEdit
     /\ call = Unused /\ disk = Unused /\ barred = Unused
  \/ /\ pack = "marks" /\ B!Init
     /\ NoFetch /\ NoExec /\ NoChrome /\ NoEdit
     /\ policy = Unused /\ call = Unused /\ approver = Unused /\ disk = Unused /\ barred = Unused
  \/ /\ pack = "chrome" /\ C!Init
     /\ NoFetch /\ NoExec /\ NoMarks /\ NoEdit
     /\ policy = Unused /\ pc = Unused /\ call = Unused /\ approver = Unused /\ disk = Unused /\ barred = Unused
  \/ /\ pack = "edit" /\ W!Init
     /\ NoFetch /\ NoExec /\ NoMarks /\ NoChrome /\ barred = Unused
  \/ /\ pack = "search" /\ Search!Init
     /\ NoFetch /\ NoExec /\ NoMarks /\ NoChrome /\ NoEdit
     /\ policy = Unused /\ pc = Unused /\ call = Unused /\ approver = Unused

fetchRest == <<execVars, marksVars, chromeVars, editVars, approver, disk, barred>>
execRest == <<fetchVars, marksVars, chromeVars, editVars, call, disk, barred>>
marksRest == <<fetchVars, execVars, chromeVars, editVars, policy, call, approver, disk, barred>>
chromeRest == <<fetchVars, execVars, marksVars, editVars, policy, pc, call, approver, disk, barred>>
editRest == <<fetchVars, execVars, marksVars, chromeVars, barred>>
searchRest == <<fetchVars, execVars, marksVars, chromeVars, editVars, policy, pc, call, approver>>

Next ==
  \/ pack = "fetch" /\ F!Next /\ UNCHANGED <<pack, fetchRest>>
  \/ pack = "exec" /\ E!Next /\ UNCHANGED <<pack, execRest>>
  \/ pack = "marks" /\ B!Next /\ UNCHANGED <<pack, marksRest>>
  \/ pack = "chrome" /\ C!Next /\ UNCHANGED <<pack, chromeRest>>
  \/ pack = "edit" /\ W!Next /\ UNCHANGED <<pack, editRest>>
  \/ pack = "search" /\ Search!Changes /\ UNCHANGED <<pack, searchRest>>

vars == <<pack, fetchVars, fetchRest, policy, pc, call>>

Spec ==
  /\ Init /\ [][Next]_vars
  /\ WF_vars(pack = "exec" /\ E!Program /\ UNCHANGED <<pack, execRest>>)
  /\ WF_vars(pack = "exec" /\ E!TimeoutPasses /\ UNCHANGED <<pack, execRest>>)
  /\ WF_vars(pack = "exec" /\ E!DelayPasses /\ UNCHANGED <<pack, execRest>>)

-----------------------------------------------------------------------------
(* fetch: the user is asked about a host until he has allowed it, and never
   again; a call's request leaves only for what he or the policy allowed. *)
AsksOnceThenHonours == pack = "fetch" => F!AsksOnceThenHonours

(* exec: a result that does not say "timed out" has the command's status. *)
StatusIsTheCommands == pack = "exec" => E!StatusIsTheCommands

(* exec: the call comes back whatever the command and its helpers do. *)
ExecReturns ==
  (pack = "exec" /\ pc \in {"start", "wait"})
     ~> (pack = "exec" /\ pc \in {"returned", "threw"})

(* browser: an action by number lands on what the listing seen last numbered so. *)
NumbersAreLatest ==
  [][pack = "marks" /\ acted' \notin {acted, B!Nowhere} /\ ~lost
       /\ ~(acted'.how = "keys" /\ strayed) => B!ListedIsHit(acted')]_vars

(* chrome: Close leaves no process, and one call at a time is on the page. *)
CloseReleasesChrome == pack = "chrome" => C!CloseReleasesChrome

(* workspace: a refused or ambiguous mutation changes nothing, an edit replaces
   what it was to find and nothing else. *)
EditIsExact == pack = "edit" => W!EditIsExact

(* workspace: a search that answers tells all that it can read, of a tree with
   few matches. *)
SearchTellsAll == pack = "search" => Search!SearchTellsAll
=============================================================================
