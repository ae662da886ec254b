--------------------------- MODULE ChromeDriver ---------------------------
(***************************************************************************)
(* browser/chrome.Chrome: a lazily started Chrome shared by several calls. *)
(*                                                                         *)
(* The first call starts the process under mu, which Close also takes;     *)
(* steps on the page are serialised by runMu.  A call holds neither while  *)
(* it waits for the page, so Close, a crash or the end of its turn can come*)
(* between the context it was given and the step it takes with it.         *)
(***************************************************************************)
EXTENDS Integers, FiniteSets

CONSTANTS
  Calls,          \* concurrent driver calls
  MaxLaunches     \* bound: how many Chrome processes are ever started

VARIABLES
  frames,         \* Options.OnFrame is set
  mu, runMu,      \* the two mutexes: the calls that hold them
  closed,
  bctx,           \* the browser context: a process, or 0
  cancels,        \* the process the cancel funcs end, or 0
  launched,       \* processes started so far
  alive,          \* those that run
  step,             \* call -> where it is
  mine,           \* call -> the browser context it was given
  cancelled       \* the calls whose turn is over

vars == <<frames, mu, runMu, closed, bctx, cancels, launched, alive, step, mine, cancelled>>
browserVars == <<frames, closed, bctx, cancels, launched, alive>>

Init ==
  /\ frames \in BOOLEAN
  /\ mu = {} /\ runMu = {}
  /\ closed = FALSE /\ bctx = 0 /\ cancels = 0 /\ launched = 0 /\ alive = {}
  /\ step = [c \in Calls |-> "idle"]
  /\ mine = [c \in Calls |-> 0]
  /\ cancelled = {}

Goto(c, label) == step' = [step EXCEPT ![c] = label]

-----------------------------------------------------------------------------
(* ensure *)

(* mu is free: a closed driver refuses, a started one hands its context out,
   and otherwise this call starts Chrome and keeps mu meanwhile. *)
Ensure(c) ==
  /\ step[c] = "idle" /\ mu = {}
  /\ \/ /\ closed
        /\ Goto(c, "failed")
        /\ UNCHANGED <<mu, cancels, launched, alive, mine>>
     \/ /\ ~closed /\ bctx # 0
        /\ Goto(c, "queued")
        /\ mine' = [mine EXCEPT ![c] = bctx]
        /\ UNCHANGED <<mu, cancels, launched, alive>>
     \/ /\ ~closed /\ bctx = 0 /\ launched < MaxLaunches
        /\ Goto(c, "starting")
        /\ mu' = {c}
        /\ launched' = launched + 1
        /\ alive' = alive \cup {launched + 1}
        /\ cancels' = launched + 1
        /\ UNCHANGED mine
  /\ UNCHANGED <<frames, runMu, closed, bctx, cancelled>>

(* A slip: a failed start leaves its contexts behind. *)
StartFailsKeeping(c) ==
  /\ step[c] = "starting"
  /\ cancels' = 0
  /\ mu' = {}
  /\ Goto(c, "failed")
  /\ UNCHANGED <<frames, runMu, closed, bctx, launched, alive, mine, cancelled>>

(* The first navigation fails: both contexts are cancelled. *)
StartFails(c) ==
  /\ step[c] = "starting"
  /\ alive' = alive \ {cancels}
  /\ cancels' = 0
  /\ mu' = {}
  /\ Goto(c, "failed")
  /\ UNCHANGED <<frames, runMu, closed, bctx, launched, mine, cancelled>>

(* It succeeds; with OnFrame the screencast is still to be started. *)
Publish(c) ==
  /\ bctx' = launched
  /\ mine' = [mine EXCEPT ![c] = launched]
  /\ mu' = {}
  /\ Goto(c, "queued")

Started(c) ==
  /\ step[c] = "starting"
  /\ \/ /\ frames
        /\ Goto(c, "casting")
        /\ UNCHANGED <<mu, bctx, mine>>
     \/ ~frames /\ Publish(c)
  /\ UNCHANGED <<frames, runMu, closed, cancels, launched, alive, cancelled>>

Casts(c) ==
  /\ step[c] = "casting"
  /\ Publish(c)
  /\ UNCHANGED <<frames, runMu, closed, cancels, launched, alive, cancelled>>

(* StartScreencast fails: the error is returned, and nothing else happens. *)
CastFails(c) ==
  /\ step[c] = "casting"
  /\ mu' = {}
  /\ Goto(c, "failed")
  /\ UNCHANGED <<browserVars, runMu, mine, cancelled>>

-----------------------------------------------------------------------------
(* run *)

TakePage(c) ==
  /\ step[c] = "queued" /\ runMu = {}
  /\ runMu' = {c}
  /\ Goto(c, "acting")
  /\ UNCHANGED <<browserVars, mu, mine, cancelled>>

(* The step succeeds only in a living browser under a live turn; the end of
   the turn, of the step's timeout or of the browser make it fail. *)
StepEnds(c) ==
  /\ step[c] = "acting"
  /\ \/ mine[c] \in alive /\ Goto(c, "done")
     \/ Goto(c, IF c \in cancelled THEN "cancelled" ELSE "failed")
  /\ runMu' = {}
  /\ UNCHANGED <<browserVars, mu, mine, cancelled>>

Again(c) ==
  /\ step[c] \in {"done", "failed", "cancelled"}
  /\ Goto(c, "idle")
  /\ cancelled' = cancelled \ {c}
  /\ UNCHANGED <<browserVars, mu, runMu, mine>>

TurnEnds(c) ==
  /\ step[c] \notin {"idle", "done", "failed", "cancelled"}
  /\ cancelled' = cancelled \cup {c}
  /\ UNCHANGED <<browserVars, mu, runMu, step, mine>>

(* Close cancels what there is to cancel; a second Close finds nothing. *)
Close ==
  /\ mu = {}
  /\ closed' = TRUE
  /\ bctx' = 0
  /\ alive' = alive \ {cancels}
  /\ cancels' = 0
  /\ UNCHANGED <<frames, mu, runMu, launched, step, mine, cancelled>>

(* Chrome dies on its own; the driver keeps its context. *)
Crashes ==
  /\ \E i \in alive : alive' = alive \ {i}
  /\ UNCHANGED <<frames, mu, runMu, closed, bctx, cancels, launched, step, mine, cancelled>>

Next ==
  \/ \E c \in Calls :
       \/ Ensure(c) \/ StartFails(c) \/ Started(c) \/ Casts(c) \/ CastFails(c)
       \/ TakePage(c) \/ StepEnds(c) \/ Again(c) \/ TurnEnds(c)
  \/ Close \/ Crashes

Spec == Init /\ [][Next]_vars

-----------------------------------------------------------------------------
(* Close leaves no Chrome running, whatever calls were starting, waiting or
   acting when it came, and at most one call is ever on the page; for a
   driver without a screencast (ensure, run, Close). *)
CloseReleasesChrome ==
  /\ closed /\ ~frames => alive = {}
  /\ Cardinality({c \in Calls : step[c] = "acting"}) <= 1

(* The same for every driver: a screencast that fails to start leaves a
   process that the next start forgets. *)
CloseReleasesEveryChrome == closed => alive = {}
=============================================================================
