---------------------------- MODULE Packs_proofs ----------------------------
(***************************************************************************)
(* Theorems about the tool packs, for any hosts, policies, files, commands *)
(* and calls.  Each pack has an inductive invariant of its own, which the  *)
(* composition carries for the pack that was chosen.                       *)
(***************************************************************************)
EXTENDS Packs, Lists_proofs, FiniteSetTheorems, SequenceTheorems, TLAPS

-----------------------------------------------------------------------------
(* fetch *)

FetchKinds == {"none", "fetch", "http", "allowUrls"}

(* The approvals are what the user said yes to; he is being asked about a host
   that no approval covers, and the request a call makes was cleared. *)
FetchInv ==
  /\ approved = said
  /\ call \in [kind : FetchKinds, raw : Raws \cup {F!NoCall.raw}, hops : Nat, todo : SUBSET Raws]
  /\ pc = "asking" => call.raw \in Raws /\ ~F!SessionAllowed(call.raw.host)
  /\ pc = "send" => F!Covered(call.raw.host) \/ F!PolicyAllows(call.raw)

LEMMA FetchInit == ASSUME F!Init PROVE FetchInv
BY DEF F!Init, FetchInv, FetchKinds, F!NoCall

(* What a policy allows depends on the policy alone. *)
LEMMA PolicyStays ==
  ASSUME policy' = policy, NEW r
  PROVE  (F!PolicyAllows(r))' <=> F!PolicyAllows(r)
<1>1. F!Check(r)' = F!Check(r)
  BY DEF F!Check
<1> QED BY <1>1 DEF F!PolicyAllows

LEMMA ClearedByEither ==
  ASSUME approved = said, NEW r \in Raws, F!Cleared(r)
  PROVE  F!Covered(r.host) \/ F!PolicyAllows(r)
<1>1. CASE F!SessionAllowed(F!Hostname(r))
  <2>1. r.host = F!Hostname(r)
    BY <1>1, HostsAssumption DEF F!SessionAllowed, F!Hostname
  <2> QED BY <1>1, <2>1 DEF F!SessionAllowed, F!Covered
<1> QED BY <1>1 DEF F!Cleared

(* requestAccess grants what was cleared and asks about what was not. *)
LEMMA AccessGives ==
  ASSUME approved = said, NEW r \in Raws, NEW granted, NEW denied, F!Access(r, granted, denied)
  PROVE  /\ pc' \in {granted, denied, "asking"}
         /\ pc' \notin {denied, "asking"} => F!Covered(r.host) \/ F!PolicyAllows(r)
         /\ pc' \notin {granted, denied} => ~F!SessionAllowed(r.host)
<1>1. CASE F!SessionAllowed(r.host)
  <2>1. pc' = granted
    BY <1>1 DEF F!Access, F!Goto
  <2> QED BY <1>1, <2>1 DEF F!SessionAllowed, F!Covered
<1>2. CASE ~F!SessionAllowed(r.host)
  <2>1. pc' = CASE F!Cleared(r) -> granted
                [] ~F!Cleared(r) /\ requester -> "asking"
                [] OTHER -> denied
    BY <1>2 DEF F!Access, F!Goto
  <2>2. CASE F!Cleared(r)
    <3>1. pc' = granted
      BY <2>1, <2>2
    <3> QED BY <1>2, <2>2, <3>1, ClearedByEither
  <2>3. CASE ~F!Cleared(r)
    <3>1. pc' \in {"asking", denied}
      BY <2>1, <2>3
    <3> QED BY <1>2, <3>1
  <2> QED BY <2>2, <2>3
<1> QED BY <1>1, <1>2

LEMMA FetchCalls == ASSUME FetchInv, F!Fetch \/ F!Http PROVE FetchInv'
<1>1. PICK r \in Raws, kind \in {"fetch", "http"} :
        /\ call' = [F!NoCall EXCEPT !.kind = kind, !.raw = r]
        /\ \/ F!Access(r, "send", "blocked")
           \/ F!Goto(IF F!Cleared(r) THEN "send" ELSE "blocked")
  BY DEF F!Fetch, F!Http
<1>2. UNCHANGED <<policy, approved, said>> /\ approved = said
  BY DEF F!Fetch, F!Http, FetchInv
<1>3. call' = [kind |-> kind, raw |-> r, hops |-> 0, todo |-> {}]
  BY <1>1 DEF F!NoCall
<1>4. /\ pc' = "send" => F!Covered(r.host) \/ F!PolicyAllows(r)
      /\ pc' = "asking" => ~F!SessionAllowed(r.host)
  <2>1. CASE F!Access(r, "send", "blocked")
    BY <1>2, <2>1, AccessGives
  <2>2. CASE F!Goto(IF F!Cleared(r) THEN "send" ELSE "blocked")
    BY <1>2, <2>2, ClearedByEither DEF F!Goto
  <2> QED BY <1>1, <2>1, <2>2
<1>5. /\ F!Covered(r.host)' <=> F!Covered(r.host)
      /\ F!SessionAllowed(r.host)' <=> F!SessionAllowed(r.host)
      /\ F!PolicyAllows(r)' <=> F!PolicyAllows(r)
  BY <1>2, PolicyStays DEF F!Covered, F!SessionAllowed
<1> QED BY <1>2, <1>3, <1>4, <1>5 DEF FetchInv, FetchKinds, F!Covered, F!SessionAllowed, F!PolicyAllows, F!Check

LEMMA FetchBatches == ASSUME FetchInv, F!AllowUrls \/ F!NextOfBatch PROVE FetchInv'
<1>1. CASE F!AllowUrls
  <2>1. PICK batch \in Batches : call' = [F!NoCall EXCEPT !.kind = "allowUrls", !.todo = F!FirstPerHost(batch)]
    BY <1>1 DEF F!AllowUrls
  <2>2. F!FirstPerHost(batch) \subseteq Raws
    BY HostsAssumption DEF F!FirstPerHost
  <2>3. call' = [kind |-> "allowUrls", raw |-> F!NoCall.raw, hops |-> 0, todo |-> F!FirstPerHost(batch)]
    BY <2>1, <2>2 DEF F!NoCall
  <2>4. pc' = "batch" /\ UNCHANGED <<approved, said>>
    BY <1>1 DEF F!AllowUrls, F!Goto
  <2> QED BY <2>2, <2>3, <2>4 DEF FetchInv, FetchKinds
<1>2. CASE F!NextOfBatch
  <2>1. PICK r \in call.todo :
          /\ call' = [call EXCEPT !.raw = r, !.todo = @ \ {r}]
          /\ F!Access(r, "batch", "batch")
    BY <1>2 DEF F!NextOfBatch
  <2>2. r \in Raws /\ UNCHANGED <<approved, said>>
    BY <1>2, <2>1 DEF F!NextOfBatch, FetchInv
  <2>3. pc' \in {"batch", "asking"} /\ (pc' = "asking" => ~F!SessionAllowed(r.host))
    BY <2>1, <2>2, AccessGives DEF FetchInv
  <2>4. call' = [kind |-> call.kind, raw |-> r, hops |-> call.hops, todo |-> call.todo \ {r}]
    BY <2>1 DEF FetchInv
  <2> QED BY <2>2, <2>3, <2>4 DEF FetchInv, F!SessionAllowed
<1> QED BY <1>1, <1>2

LEMMA FetchNext == ASSUME FetchInv, F!Next PROVE FetchInv'
<1>1. CASE F!Fetch \/ F!Http
  BY <1>1, FetchCalls
<1>2. CASE F!AllowUrls \/ F!NextOfBatch
  BY <1>2, FetchBatches
<1>3. CASE F!Yes
  <2>1. call' = call /\ approved' = said' /\ pc' \in {"batch", "send"} /\ call.raw.host \in said'
    BY <1>3 DEF F!Yes, F!Goto, FetchInv
  <2> QED BY <2>1 DEF FetchInv, F!Covered
<1>4. CASE F!No
  <2>1. UNCHANGED <<call, approved, said>> /\ pc' \in {"batch", "blocked"}
    BY <1>4 DEF F!No, F!Goto
  <2> QED BY <2>1 DEF FetchInv
<1>5. CASE F!FetchWhitelist
  BY <1>5 DEF F!FetchWhitelist, FetchInv
<1>6. CASE F!CallEnds
  <2>1. call' = F!NoCall /\ UNCHANGED <<approved, said>> /\ pc' = "idle"
    BY <1>6 DEF F!CallEnds, F!Goto
  <2>2. F!NoCall = [kind |-> "none", raw |-> F!NoCall.raw, hops |-> 0, todo |-> {}]
    BY DEF F!NoCall
  <2> QED BY <2>1, <2>2 DEF FetchInv, FetchKinds
<1>7. CASE F!Redirect
  <2>1. PICK r \in Raws : call' = [call EXCEPT !.raw = r, !.hops = @ + 1]
    BY <1>7 DEF F!Redirect
  <2>2. UNCHANGED <<approved, said>> /\ pc' = "followed"
    BY <1>7 DEF F!Redirect, F!Goto
  <2>3. call' = [kind |-> call.kind, raw |-> r, hops |-> call.hops + 1, todo |-> call.todo]
    BY <2>1 DEF FetchInv
  <2>4. call.kind \in FetchKinds /\ call.hops + 1 \in Nat /\ call.todo \in SUBSET Raws
    BY DEF FetchInv
  <2> QED BY <2>2, <2>3, <2>4 DEF FetchInv
<1> QED BY <1>1, <1>2, <1>3, <1>4, <1>5, <1>6, <1>7 DEF F!Next

LEMMA FetchAsks == ASSUME FetchInv PROVE F!AsksOnceThenHonours
<1>1. ASSUME pc = "asking" PROVE ~F!Covered(call.raw.host)
  BY <1>1, HostsAssumption DEF FetchInv, F!SessionAllowed, F!Covered
<1> QED BY <1>1 DEF FetchInv, F!AsksOnceThenHonours

-----------------------------------------------------------------------------
(* chrome *)

ChromeLabels == {"idle", "starting", "casting", "queued", "acting", "done", "failed", "cancelled"}

ChromeTypes ==
  /\ frames \in BOOLEAN
  /\ launched \in Nat /\ cancels \in Nat
  /\ step \in [Calls -> ChromeLabels]

(* Who starts Chrome holds mu, and has what the cancel funcs end; who acts on
   the page holds runMu; a driver is only closed between starts. *)
ChromeLocks ==
  /\ \A c \in Calls :
       /\ step[c] \in {"starting", "casting"} => mu = {c}
       /\ step[c] = "starting" => cancels = launched /\ bctx = 0
       /\ step[c] = "casting" => frames
       /\ step[c] = "acting" => runMu = {c}
  /\ closed => mu = {} /\ bctx = 0

(* Without a screencast the one process that may run is the one the cancel
   funcs end, and between starts that is the one handed out. *)
ChromeProcess ==
  /\ 0 \notin alive
  /\ ~frames => alive \subseteq {cancels}
  /\ ~frames /\ mu = {} => bctx = cancels

ChromeInv == ChromeTypes /\ ChromeLocks /\ ChromeProcess

LEMMA ChromeInit == ASSUME C!Init PROVE ChromeInv
BY DEF C!Init, ChromeInv, ChromeTypes, ChromeLocks, ChromeProcess, ChromeLabels

(* The steps under mu. *)
LEMMA ChromeEnsures == ASSUME ChromeInv, NEW c \in Calls, C!Ensure(c) PROVE ChromeInv'
<1> USE DEF ChromeInv, ChromeTypes, ChromeLocks, ChromeProcess, C!Ensure, C!Goto, ChromeLabels
<1>1. CASE closed /\ UNCHANGED <<mu, cancels, launched, alive, mine>>
  BY <1>1
<1>2. CASE ~closed /\ bctx # 0 /\ UNCHANGED <<mu, cancels, launched, alive>> /\ C!Goto(c, "queued")
  BY <1>2
<1>3. CASE ~closed /\ bctx = 0 /\ mu' = {c} /\ C!Goto(c, "starting")
  <2>1. /\ launched' = launched + 1 /\ alive' = alive \cup {launched + 1}
        /\ cancels' = launched + 1
    BY <1>3
  <2>2. ChromeTypes'
    BY <1>3, <2>1
  <2>3. ChromeLocks'
    BY <1>3, <2>1
  <2>4. ~frames => alive = {}
    BY <1>3
  <2> QED BY <1>3, <2>1, <2>2, <2>3, <2>4
<1> QED BY <1>1, <1>2, <1>3

LEMMA ChromeStarts ==
  ASSUME ChromeInv, NEW c \in Calls,
         C!StartFails(c) \/ C!Started(c) \/ C!Casts(c) \/ C!CastFails(c)
  PROVE  ChromeInv'
<1> USE DEF ChromeInv, ChromeTypes, ChromeLocks, ChromeProcess, C!Goto, ChromeLabels, C!Publish, C!browserVars
<1>1. CASE C!StartFails(c)
  BY <1>1 DEF C!StartFails
<1>2. CASE C!Started(c)
  BY <1>2 DEF C!Started
<1>3. CASE C!Casts(c)
  BY <1>3 DEF C!Casts
<1>4. CASE C!CastFails(c)
  BY <1>4 DEF C!CastFails
<1> QED BY <1>1, <1>2, <1>3, <1>4

LEMMA ChromeNext == ASSUME ChromeInv, C!Next PROVE ChromeInv'
<1>1. ASSUME NEW c \in Calls, C!Ensure(c) PROVE ChromeInv'
  BY <1>1, ChromeEnsures
<1>2. ASSUME NEW c \in Calls, C!StartFails(c) \/ C!Started(c) \/ C!Casts(c) \/ C!CastFails(c)
      PROVE  ChromeInv'
  BY <1>2, ChromeStarts
<1>3. ASSUME NEW c \in Calls, C!TakePage(c) \/ C!StepEnds(c) PROVE ChromeInv'
  BY <1>3 DEF C!TakePage, C!StepEnds, ChromeInv, ChromeTypes, ChromeLocks, ChromeProcess, C!Goto, ChromeLabels, C!browserVars
<1>4. ASSUME NEW c \in Calls, C!Again(c) \/ C!TurnEnds(c) PROVE ChromeInv'
  BY <1>4 DEF C!Again, C!TurnEnds, ChromeInv, ChromeTypes, ChromeLocks, ChromeProcess, C!Goto, ChromeLabels, C!browserVars
<1>5. CASE C!Close
  BY <1>5 DEF C!Close, ChromeInv, ChromeTypes, ChromeLocks, ChromeProcess, ChromeLabels
<1>6. CASE C!Crashes
  BY <1>6 DEF C!Crashes, ChromeInv, ChromeTypes, ChromeLocks, ChromeProcess, ChromeLabels
<1> QED BY <1>1, <1>2, <1>3, <1>4, <1>5, <1>6 DEF C!Next

LEMMA ChromeReleased == ASSUME ChromeInv PROVE C!CloseReleasesChrome
<1> DEFINE Acting == {c \in Calls : step[c] = "acting"}
<1>1. closed /\ ~frames => alive = {}
  BY DEF ChromeInv, ChromeLocks, ChromeProcess
<1>2. Cardinality(Acting) <= 1
  <2>1. CASE Acting = {}
    BY <2>1, FS_EmptySet
  <2>2. CASE \E c : c \in Acting
    <3>1. PICK c \in Calls : step[c] = "acting"
      BY <2>2
    <3>2. Acting = {c}
      BY <3>1 DEF ChromeInv, ChromeLocks
    <3> QED BY <3>2, FS_Singleton
  <2> QED BY <2>1, <2>2
<1>3. C!Cardinality(Acting) = Cardinality(Acting)
  BY DEF C!Cardinality, Cardinality
<1> QED BY <1>1, <1>2, <1>3 DEF C!CloseReleasesChrome

-----------------------------------------------------------------------------
(* exec *)

ExecOver == {"drain", "done", "returned", "threw"}

(* A command is killed only under a context that is over; it does not run any
   more once it has been waited for, and its status does not change then. *)
ExecChild ==
  /\ child \in {"none", "running", "exited", "killed"}
  /\ ctxErr \in {"none", "Canceled", "DeadlineExceeded"}
  /\ child = "killed" => ctxErr # "none"
  /\ child = "exited" => code \in Codes
  /\ pc \in ExecOver => child # "running"
  /\ pc \in {"idle", "ask", "start"} => child = "none"

(* A bad status has become the error that is returned; the result repeats what
   was known when it was made. *)
ExecErr ==
  /\ pc \in {"drain", "done"} /\ child = "exited" /\ code # 0 => err = "ExitError"
  /\ pc = "threw" /\ child = "exited" => code = 0
  /\ pc = "returned" => result.code = code /\ (result.timedOut <=> ctxErr = "DeadlineExceeded")

ExecInv == ExecChild /\ ExecErr

LEMMA ExecInit == ASSUME E!Init PROVE ExecInv
BY DEF E!Init, ExecInv, ExecChild, ExecErr, ExecOver

LEMMA ExecNext == ASSUME ExecInv, E!Next PROVE ExecInv'
<1> USE DEF ExecInv, ExecChild, ExecErr, ExecOver, E!configVars, E!childVars, E!waitVars
<1>1. CASE E!World
  BY <1>1 DEF E!World, E!Forks, E!HelperEnds, E!Exits, E!RunCancelled
<1>2. CASE E!Timers
  BY <1>2 DEF E!Timers, E!TimeoutPasses, E!DelayPasses
<1>3. CASE E!Authorize \/ E!Answer
  BY <1>3 DEF E!Authorize, E!Answer
<1>4. CASE E!NotStarted \/ E!Start
  BY <1>4 DEF E!NotStarted, E!Start
<1>5. CASE E!Terminate
  BY <1>5 DEF E!Terminate
<1>6. CASE E!Reap
  BY <1>6 DEF E!Reap
<1>7. CASE E!Drained \/ E!Abandoned
  BY <1>7 DEF E!Drained, E!Abandoned
<1>8. CASE E!Return
  <2>1. CASE pc' = "returned"
    <3>1. result' = [code |-> code, timedOut |-> ctxErr = "DeadlineExceeded"]
      BY <1>8, <2>1 DEF E!Return
    <3> QED BY <1>8, <2>1, <3>1 DEF E!Return
  <2>2. CASE pc' = "threw"
    <3>1. err # "ExitError"
      BY <1>8, <2>2 DEF E!Return
    <3> QED BY <1>8, <2>2, <3>1 DEF E!Return
  <2> QED BY <1>8, <2>1, <2>2 DEF E!Return
<1> QED BY <1>1, <1>2, <1>3, <1>4, <1>5, <1>6, <1>7, <1>8 DEF E!Next, E!Program

LEMMA ExecReports == ASSUME ExecInv PROVE E!StatusIsTheCommands
<1>1. pc = "returned" /\ ~result.timedOut /\ child = "killed" => ctxErr = "Canceled"
  BY DEF ExecInv, ExecChild, ExecErr
<1>2. pc = "returned" /\ child = "exited" => result.code = code /\ code \in Codes
  BY DEF ExecInv, ExecChild, ExecErr
<1>3. pc = "threw" /\ child = "exited" => code = 0
  BY DEF ExecInv, ExecErr
<1> QED BY <1>1, <1>2, <1>3 DEF E!StatusIsTheCommands

-----------------------------------------------------------------------------
(* browser marks *)

(* The map in the page is of an earlier document, or the numbering that was
   listed last, or was lost; a picture shows that numbering.  A typeMark under
   way has an element of the listing, and it has the focus, unless it strayed. *)
MarksInv ==
  /\ doc \in Nat /\ doc > 0
  /\ som.doc \in 0..doc
  /\ som.doc = doc /\ ~lost => som.elements = listed
  /\ som.doc = doc /\ pc = "vision" => shot = som.elements
  /\ pc = "keys" => \E id, d, aim : acted = [how |-> "focus", id |-> id, doc |-> d,
                                             aim |-> aim, element |-> aim]
  /\ pc = "keys" /\ ~strayed =>
       /\ acted.doc = doc /\ focus = acted.aim
       /\ ~lost => acted.id \in DOMAIN listed /\ acted.aim = listed[acted.id]

LEMMA MarksInit == ASSUME B!Init PROVE MarksInv
BY DEF B!Init, MarksInv, B!NoMap

LEMMA MarksNext == ASSUME MarksInv, B!Next PROVE MarksInv'
<1> USE DEF MarksInv
<1>1. CASE B!Rerenders
  BY <1>1 DEF B!Rerenders
<1>2. CASE B!Navigates \/ B!Goto
  <2>1. doc' = doc + 1 /\ som'.doc = 0
    BY <1>2 DEF B!Navigates, B!Goto, B!Replaced, B!NoMap
  <2>2. pc' = pc /\ (pc = "keys" => strayed' /\ acted' = acted)
    BY <1>2 DEF B!Navigates, B!Goto, B!Replaced
  <2> QED BY <2>1, <2>2
<1>3. CASE B!Mark \/ B!MarkFails \/ B!AskMarks
  BY <1>3 DEF B!Mark, B!MarkFails, B!AskMarks, B!Install
<1>4. CASE B!Screenshot \/ B!AskFails \/ B!VisionAnswers
  BY <1>4 DEF B!Screenshot, B!AskFails, B!VisionAnswers
<1>5. CASE B!ClickMark
  BY <1>5 DEF B!ClickMark
<1>6. CASE B!TypeMark
  <2>1. PICK id \in DOMAIN som.elements :
          /\ B!Resolves(id)
          /\ acted' = B!Landing("focus", id, som.elements[id])
          /\ strayed' = (focus' # som.elements[id])
    BY <1>6 DEF B!TypeMark
  <2>2. acted' = [how |-> "focus", id |-> id, doc |-> doc,
                  aim |-> som.elements[id], element |-> som.elements[id]]
    BY <2>1 DEF B!Landing
  <2>3. ~lost => id \in DOMAIN listed /\ som.elements[id] = listed[id]
    BY <2>1 DEF B!Resolves
  <2>4. UNCHANGED <<doc, som, shot, listed, lost>> /\ pc' = "keys"
    BY <1>6 DEF B!TypeMark
  <2>5. acted'.doc = doc /\ acted'.id = id /\ acted'.aim = som.elements[id]
    BY <2>2
  <2>6. ~strayed' => focus' = acted'.aim
    BY <2>1, <2>5
  <2>7. \E i, d, aim : acted' = [how |-> "focus", id |-> i, doc |-> d,
                                 aim |-> aim, element |-> aim]
    BY <2>2
  <2> QED BY <2>3, <2>4, <2>5, <2>6, <2>7
<1>7. CASE B!KeyEvent
  BY <1>7 DEF B!KeyEvent
<1> QED BY <1>1, <1>2, <1>3, <1>4, <1>5, <1>6, <1>7 DEF B!Next

LEMMA MarksActs ==
  ASSUME MarksInv, B!Next, acted' # acted, acted' # B!Nowhere, ~lost,
         ~(acted'.how = "keys" /\ strayed)
  PROVE  B!ListedIsHit(acted')
<1>1. B!ClickMark \/ B!TypeMark \/ B!KeyEvent
  BY DEF B!Next, B!Rerenders, B!Navigates, B!Goto, B!Mark, B!MarkFails, B!AskMarks, B!Install,
         B!Screenshot, B!AskFails, B!VisionAnswers
<1>2. CASE B!ClickMark \/ B!TypeMark
  <2>1. PICK id \in DOMAIN som.elements, how \in {"click", "focus"} :
          B!Resolves(id) /\ acted' = B!Landing(how, id, som.elements[id])
    BY <1>2 DEF B!ClickMark, B!TypeMark
  <2>2. som.doc = doc /\ som.elements = listed
    BY <2>1 DEF B!Resolves, MarksInv
  <2> QED BY <2>1, <2>2 DEF B!ListedIsHit, B!Landing
<1>3. CASE B!KeyEvent
  <2>1. PICK id, d, aim : acted = [how |-> "focus", id |-> id, doc |-> d,
                                   aim |-> aim, element |-> aim]
    BY <1>3 DEF B!KeyEvent, MarksInv
  <2>2. acted' = [how |-> "keys", id |-> id, doc |-> d, aim |-> aim, element |-> focus]
    BY <1>3, <2>1 DEF B!KeyEvent
  <2>3. ~strayed
    BY <2>2
  <2>4. acted.id = id /\ acted.doc = d /\ acted.aim = aim
    BY <2>1
  <2>5. d = doc /\ focus = aim /\ id \in DOMAIN listed /\ aim = listed[id]
    BY <1>3, <2>3, <2>4 DEF B!KeyEvent, MarksInv
  <2> QED BY <2>2, <2>5 DEF B!ListedIsHit
<1> QED BY <1>1, <1>2, <1>3

-----------------------------------------------------------------------------
(* workspace mutations *)

Texts == Seq(Symbols)
EditCalls == [op : {"none", "write", "edit"}, file : Files \cup {""}, find : Texts, with : Texts,
              all : BOOLEAN, text : Texts]
EditLabels == {"idle", "ask", "write", "fill", "done", "threw"}

EditTypes ==
  /\ disk \in [Files -> Texts] /\ before \in Texts
  /\ call \in EditCalls /\ pc \in EditLabels
  /\ opened \in BOOLEAN /\ meddled \in BOOLEAN

(* What an edit may go on with: its text was found, and found once apart unless
   all of it is to be replaced. *)
Found(text, c) ==
  c.op = "edit" =>
    W!Occurrences(text, c.find) # {} /\ (c.all \/ ~W!Ambiguous(text, c.find))

(* Unless someone else writes it, the file is as it was until it is opened,
   empty while it is open, and what it was to become when the call returns;
   and an edit on its way has found its text. *)
EditSteps ==
  /\ pc # "idle" => call.file \in Files
  /\ pc # "idle" /\ ~opened /\ ~meddled => disk[call.file] = before
  /\ pc \in {"ask", "write"} => ~opened
  /\ pc = "fill" /\ ~meddled => disk[call.file] = <<>>
  /\ pc \in {"fill", "done"} => opened
  /\ pc = "done" /\ ~meddled => disk[call.file] = W!Goal
  /\ pc \in {"ask", "write", "fill", "done"} => Found(before, call) /\ call.op # "none"

EditInv == EditTypes /\ EditSteps

LEMMA ContentsAreTexts == ASSUME NEW text \in W!Contents PROVE text \in Texts
<1>1. PICK n \in 0..MaxText : text \in [1..n -> Symbols]
  BY DEF W!Contents
<1> QED BY <1>1 DEF Texts

LEMMA NoCallIsTyped == W!NoCall \in EditCalls /\ <<>> \in Texts
<1>1. <<>> \in Texts
  BY DEF Texts
<1> QED BY <1>1 DEF W!NoCall, EditCalls

LEMMA EditInit == ASSUME W!Init PROVE EditInv
<1>1. disk \in [Files -> Texts]
  BY ContentsAreTexts DEF W!Init
<1>2. call \in EditCalls /\ before \in Texts
  BY NoCallIsTyped DEF W!Init
<1> QED BY <1>1, <1>2 DEF W!Init, EditInv, EditTypes, EditSteps, EditLabels

(* The first occurrence of what was found is one. *)
LEMMA FirstIsThere ==
  ASSUME NEW text \in Texts, NEW find \in Texts, W!Occurrences(text, find) # {}
  PROVE  W!First(text, find) \in W!Occurrences(text, find)
<1> DEFINE places == W!Occurrences(text, find)
<1>1. places \subseteq Nat
  BY DEF W!Occurrences, Texts
<1> HIDE DEF places
<1>2. \E i \in places : \A j \in places : i <= j
  BY <1>1, SmallestExists DEF places
<1> QED BY <1>2 DEF places, W!First

LEMMA ReplaceAtType ==
  ASSUME NEW text \in Texts, NEW find \in Texts, NEW with \in Texts,
         NEW i \in W!Occurrences(text, find)
  PROVE  W!ReplaceAt(text, find, with, i) \in Texts
<1>1. Len(text) \in Nat /\ Len(find) \in Nat /\ i \in 1..(Len(text) - Len(find) + 1)
  BY DEF W!Occurrences, Texts
<1>2. \A k \in 1..Len(text) : text[k] \in Symbols
  BY DEF Texts
<1> DEFINE head == SubSeq(text, 1, i - 1)
           tail == SubSeq(text, i + Len(find), Len(text))
<1>3. head \in Texts
  <2>1. 1 \in Int /\ i - 1 \in Int /\ \A k \in 1..(i - 1) : text[k] \in Symbols
    BY <1>1, <1>2
  <2> QED BY <2>1, SubSeqProperties DEF Texts
<1>4. tail \in Texts
  <2>1. /\ i + Len(find) \in Int /\ Len(text) \in Int
        /\ \A k \in (i + Len(find))..Len(text) : text[k] \in Symbols
    BY <1>1, <1>2
  <2> QED BY <2>1, SubSeqProperties DEF Texts
<1> HIDE DEF head, tail
<1>5. head \o with \in Texts
  BY <1>3, ConcatFacts DEF Texts
<1>6. (head \o with) \o tail \in Texts
  BY <1>4, <1>5, ConcatFacts DEF Texts
<1>7. W!ReplaceAt(text, find, with, i) = (head \o with) \o tail
  BY DEF W!ReplaceAt, head, tail
<1> QED BY <1>6, <1>7

LEMMA ReplaceAllType ==
  ASSUME NEW text \in Texts, NEW find \in Texts, NEW with \in Texts
  PROVE  W!ReplaceAll(text, find, with) \in Texts
<1> DEFINE Piece(i) ==
      IF i \in W!Starts(text, find) THEN with
      ELSE IF \E j \in W!Starts(text, find) : j < i /\ i < j + Len(find) THEN <<>>
      ELSE <<text[i]>>
    pieces == [i \in 1..Len(text) |-> Piece(i)]
<1>1. Len(text) \in Nat /\ \A i \in 1..Len(text) : text[i] \in Symbols
  BY DEF Texts
<1>2. ASSUME NEW i \in 1..Len(text) PROVE Piece(i) \in Seq(Symbols)
  <2>1. <<>> \in Seq(Symbols) /\ <<text[i]>> \in Seq(Symbols) /\ with \in Seq(Symbols)
    BY <1>1 DEF Texts
  <2> QED BY <2>1
<1>3. W!ReplaceAll(text, find, with) = Flat(pieces)
  BY DEF W!ReplaceAll, W!Flat, Flat
<1> HIDE DEF Piece
<1>4. pieces \in Seq(Seq(Symbols))
  BY <1>1, <1>2
<1> QED BY <1>3, <1>4, FlatType DEF Texts

LEMMA GoalIsText ==
  ASSUME EditTypes, EditSteps, pc \in {"fill", "done"}
  PROVE  W!Goal \in Texts
<1>1. /\ call.find \in Texts /\ call.with \in Texts /\ call.text \in Texts /\ before \in Texts
      /\ call.all \in BOOLEAN /\ call.op \in {"write", "edit"}
  BY DEF EditTypes, EditSteps, EditCalls
<1>2. CASE call.op = "write"
  BY <1>1, <1>2 DEF W!Goal
<1>3. CASE call.op = "edit" /\ call.all
  BY <1>1, <1>3, ReplaceAllType DEF W!Goal, W!Replace
<1>4. CASE call.op = "edit" /\ ~call.all
  <2>1. W!First(before, call.find) \in W!Occurrences(before, call.find)
    BY <1>1, <1>4, FirstIsThere DEF EditSteps, Found
  <2> QED BY <1>1, <1>4, <2>1, ReplaceAtType DEF W!Goal, W!Replace
<1> QED BY <1>1, <1>2, <1>3, <1>4

LEMMA EditBegins == ASSUME EditInv, W!WriteFile \/ W!EditFile PROVE EditInv'
<1>1. PICK c \in EditCalls :
        /\ W!Begin(c) /\ c.file \in Files /\ pc' \in {"write", "ask", "threw"}
        /\ c.op # "none" /\ (pc' # "threw" => Found(disk[c.file], c))
  <2>1. CASE W!WriteFile
    <3>1. PICK f \in Files, text \in W!Contents :
            W!Begin([W!NoCall EXCEPT !.op = "write", !.file = f, !.text = text])
      BY <2>1 DEF W!WriteFile
    <3>2. PICK c : c = [W!NoCall EXCEPT !.op = "write", !.file = f, !.text = text]
      OBVIOUS
    <3>3. c \in EditCalls /\ c.file = f /\ c.op = "write"
      BY <3>2, ContentsAreTexts, NoCallIsTyped DEF EditCalls
    <3>4. pc' \in {"write", "ask", "threw"}
      BY <2>1 DEF W!WriteFile, W!Authorize
    <3> QED BY <3>1, <3>2, <3>3, <3>4 DEF Found
  <2>2. CASE W!EditFile
    <3>1. PICK f \in Files, find \in Finds, with \in Replacements, all \in BOOLEAN :
            /\ W!Begin(W!Edit(f, find, with, all))
            /\ \/ pc' = "threw"
               \/ /\ W!Occurrences(disk[f], find) # {}
                  /\ W!Ambiguous(disk[f], find) => all
                  /\ W!Authorize
      BY <2>2 DEF W!EditFile
    <3>2. PICK c : c = W!Edit(f, find, with, all)
      OBVIOUS
    <3>3. /\ c \in EditCalls /\ c.file = f /\ c.op = "edit"
          /\ c.find = find /\ (c.all <=> all)
      <4>1. find \in Texts /\ with \in Texts
        BY EditAssumption DEF Texts
      <4> QED BY <3>2, <4>1, NoCallIsTyped DEF W!Edit, EditCalls
    <3>4. pc' \in {"write", "ask", "threw"}
      BY <3>1 DEF W!Authorize
    <3>5. pc' # "threw" => Found(disk[c.file], c)
      BY <3>1, <3>3 DEF Found
    <3> QED BY <3>1, <3>2, <3>3, <3>4, <3>5
  <2> QED BY <2>1, <2>2
<1>2. /\ call' = c /\ before' = disk[c.file] /\ opened' = FALSE /\ meddled' = FALSE /\ disk' = disk
  BY <1>1 DEF W!Begin
<1>3. EditTypes'
  BY <1>1, <1>2 DEF EditInv, EditTypes, EditLabels
<1>4. pc' # "threw" => Found(before', call')
  BY <1>1, <1>2
<1>5. EditSteps'
  BY <1>1, <1>2, <1>4 DEF EditSteps, Found
<1> QED BY <1>3, <1>5 DEF EditInv

LEMMA EditWrites == ASSUME EditInv, W!Open \/ W!Fill PROVE EditInv'
<1>1. CASE W!Open
  <2>1. CASE /\ pc' = "fill" /\ disk' = [disk EXCEPT ![call.file] = <<>>] /\ opened' = TRUE
             /\ UNCHANGED <<call, before, meddled>> /\ call.file \in Files
    <3>1. <<>> \in Texts
      BY DEF Texts
    <3>2. EditTypes'
      BY <2>1, <3>1 DEF EditInv, EditTypes, EditLabels
    <3>3. EditSteps'
      BY <1>1, <2>1 DEF EditInv, EditTypes, EditSteps, W!Open, Found
    <3> QED BY <3>2, <3>3 DEF EditInv
  <2>2. CASE pc' = "threw" /\ UNCHANGED <<disk, opened, call, before, meddled>>
    BY <1>1, <2>2 DEF EditInv, EditTypes, EditSteps, EditLabels, W!Open
  <2> QED BY <1>1, <2>1, <2>2 DEF W!Open, EditInv, EditSteps
<1>2. CASE W!Fill
  <2>1. PICK G \in Texts : G = W!Goal
    BY <1>2, GoalIsText DEF W!Fill, EditInv
  <2>2. PICK n \in 0..Len(G) :
          /\ disk' = [disk EXCEPT ![call.file] = SubSeq(G, 1, n) \o SubSeq(@, n + 1, Len(@))]
          /\ pc' \in (IF n = Len(G) THEN {"done"} ELSE {"threw"})
    BY <1>2, <2>1 DEF W!Fill, W!Overlaid
  <2>3. UNCHANGED <<call, before, opened, meddled>> /\ call.file \in Files /\ opened
    BY <1>2 DEF W!Fill, W!callVars, EditInv, EditSteps
  <2>4. PICK now \in Texts : now = disk[call.file]
    BY <2>3 DEF EditInv, EditTypes
  <2>5. PICK over : over = SubSeq(G, 1, n) \o SubSeq(now, n + 1, Len(now))
    OBVIOUS
  <2>6. over \in Texts
    <3>1. Len(G) \in Nat /\ Len(now) \in Nat
      BY DEF Texts
    <3>2. SubSeq(G, 1, n) \in Texts
      BY <3>1 DEF Texts
    <3>3. SubSeq(now, n + 1, Len(now)) \in Texts
      <4>1. \A k \in (n + 1)..Len(now) : now[k] \in Symbols
        BY <3>1 DEF Texts
      <4> QED BY <3>1, <4>1 DEF Texts
    <3> QED BY <2>5, <3>2, <3>3 DEF Texts
  <2>7. disk' = [disk EXCEPT ![call.file] = over]
    BY <2>2, <2>4, <2>5
  <2>8. EditTypes'
    BY <2>2, <2>3, <2>6, <2>7 DEF EditInv, EditTypes, EditLabels
  <2>9. pc' = "done" /\ ~meddled => over = G
    <3> SUFFICES ASSUME pc' = "done", ~meddled PROVE over = G
      OBVIOUS
    <3>1. n = Len(G) /\ now = <<>>
      BY <1>2, <2>2, <2>4 DEF EditInv, EditSteps, W!Fill
    <3>2. over = SubSeq(G, 1, Len(G)) \o SubSeq(<<>>, Len(G) + 1, 0)
      BY <2>5, <3>1
    <3>3. SubSeq(G, 1, Len(G)) = G
      BY DEF Texts
    <3>4. SubSeq(<<>>, Len(G) + 1, 0) = <<>>
      BY DEF Texts
    <3> QED BY <3>2, <3>3, <3>4, ConcatEmptySeq DEF Texts
  <2>10. W!Goal' = W!Goal
    BY <2>3 DEF W!Goal
  <2> QED BY <1>2, <2>1, <2>2, <2>3, <2>7, <2>8, <2>9, <2>10
      DEF EditInv, EditTypes, EditSteps, W!Fill, Found
<1> QED BY <1>1, <1>2

LEMMA EditNext == ASSUME EditInv, W!Next PROVE EditInv'
<1>1. CASE W!WriteFile \/ W!EditFile
  BY <1>1, EditBegins
<1>2. CASE W!Open \/ W!Fill
  BY <1>2, EditWrites
<1>3. CASE W!Answer
  BY <1>3 DEF W!Answer, W!callVars, EditInv, EditTypes, EditSteps, EditLabels, Found
<1>4. CASE W!CallEnds
  <2>1. <<>> \in Texts
    BY DEF Texts
  <2>2. call' \in EditCalls /\ before' \in Texts
    BY <1>4, <2>1 DEF W!CallEnds, W!NoCall, EditCalls
  <2> QED BY <1>4, <2>2 DEF W!CallEnds, EditInv, EditTypes, EditSteps, EditLabels
<1>5. CASE W!OthersWrite
  <2>1. PICK f \in Files, text \in W!Contents :
          disk' = [disk EXCEPT ![f] = text] /\ meddled' = (meddled \/ f = call.file)
    BY <1>5 DEF W!OthersWrite
  <2>2. text \in Texts
    BY ContentsAreTexts
  <2>3. UNCHANGED <<pc, call, before, opened>>
    BY <1>5 DEF W!OthersWrite
  <2>4. EditTypes'
    BY <2>1, <2>2, <2>3 DEF EditInv, EditTypes
  <2>5. W!Goal' = W!Goal
    BY <2>3 DEF W!Goal
  <2>6. ~meddled' => ~meddled /\ (call.file \in Files => disk'[call.file] = disk[call.file])
    BY <2>1 DEF EditInv, EditTypes
  <2> QED BY <2>3, <2>4, <2>5, <2>6 DEF EditInv, EditSteps, Found
<1> QED BY <1>1, <1>2, <1>3, <1>4, <1>5 DEF W!Next

LEMMA EditExact == ASSUME EditInv PROVE W!EditIsExact
<1>1. ASSUME pc = "threw", ~opened, ~meddled PROVE disk[call.file] = before
  BY <1>1 DEF EditInv, EditSteps
<1>2. ASSUME pc = "done", call.op = "edit", ~call.all, ~meddled
      PROVE  \E i \in W!Occurrences(before, call.find) :
               /\ disk[call.file] = W!ReplaceAt(before, call.find, call.with, i)
               /\ \A j \in W!Occurrences(before, call.find) :
                    j < i + Len(call.find) /\ i < j + Len(call.find)
  <2>1. before \in Texts /\ call.find \in Texts
    BY DEF EditInv, EditTypes, EditCalls
  <2>2. /\ W!Occurrences(before, call.find) # {} /\ ~W!Ambiguous(before, call.find)
        /\ disk[call.file] = W!Goal
    BY <1>2 DEF EditInv, EditSteps, Found
  <2>3. PICK i \in W!Occurrences(before, call.find) : i = W!First(before, call.find)
    BY <2>1, <2>2, FirstIsThere
  <2>4. disk[call.file] = W!ReplaceAt(before, call.find, call.with, i)
    BY <1>2, <2>2, <2>3 DEF W!Goal, W!Replace
  <2>5. ASSUME NEW j \in W!Occurrences(before, call.find)
        PROVE  j < i + Len(call.find) /\ i < j + Len(call.find)
    <3>1. ~(i + Len(call.find) <= j) /\ ~(j + Len(call.find) <= i)
      BY <2>2, <2>3, <2>5 DEF W!Ambiguous
    <3>2. i \in Int /\ j \in Int /\ Len(call.find) \in Nat
      BY <2>1, <2>3, <2>5 DEF W!Occurrences, Texts
    <3> QED BY <3>1, <3>2
  <2> QED BY <2>4, <2>5
<1>3. ASSUME pc = "done", call.op = "write", ~meddled PROVE disk[call.file] = call.text
  BY <1>3 DEF EditInv, EditSteps, W!Goal
<1>4. ASSUME pc = "done", call.op = "edit", call.all, ~meddled
      PROVE  disk[call.file] = W!ReplaceAll(before, call.find, call.with)
  BY <1>4 DEF EditInv, EditSteps, W!Goal, W!Replace
<1>5. pc = "done" => call.op \in {"write", "edit"} /\ call.all \in BOOLEAN
  BY DEF EditInv, EditTypes, EditSteps, EditCalls
<1> QED BY <1>1, <1>2, <1>3, <1>4, <1>5 DEF W!EditIsExact

-----------------------------------------------------------------------------
(* search *)

SearchInv == disk \in [Search!TreeFiles -> Seq(Lines)]

\* A line of a file, as grep reports it.
Pairs == Nat \X Nat

LEMMA SearchInit == ASSUME Search!Init PROVE SearchInv
<1>1. ASSUME NEW text \in Search!Contents PROVE text \in Seq(Lines)
  BY <1>1 DEF Search!Contents
<1> QED BY <1>1 DEF Search!Init, SearchInv

LEMMA SearchNext == ASSUME SearchInv, Search!Changes PROVE SearchInv'
<1>1. CASE disk' = disk
  BY <1>1 DEF SearchInv, Search!TreeFiles
<1>2. CASE \E f \in Search!TreeFiles, text \in Search!Contents : disk' = [disk EXCEPT ![f] = text]
  <2>1. PICK f \in Search!TreeFiles, text \in Search!Contents : disk' = [disk EXCEPT ![f] = text]
    BY <1>2
  <2>2. text \in Seq(Lines)
    BY <2>1 DEF Search!Contents
  <2> QED BY <2>1, <2>2 DEF SearchInv, Search!TreeFiles
<1> QED BY <1>1, <1>2 DEF Search!Changes

LEMMA OnlyThere == ASSUME NEW s, NEW keep PROVE Search!Only(s, keep) = Only(s, keep)
BY DEF Search!Only, Only

LEMMA FlatThere == ASSUME NEW s PROVE Search!Flat(s) = Flat(s)
BY DEF Search!Flat, Flat

\* Appending is joining a sequence of one.
LEMMA AppendJoins ==
  ASSUME NEW T, NEW s \in Seq(T), NEW x \in T
  PROVE  Append(s, x) = s \o <<x>>
OBVIOUS

\* The head of a sequence, and what it leaves.
LEMMA FirstFacts ==
  ASSUME NEW T, NEW s \in Seq(T), NEW n \in Int
  PROVE  /\ Search!FirstOf(s, n) \in Seq(T)
         /\ n >= Len(s) => Search!FirstOf(s, n) = s
         /\ n \in 0..Len(s) => Len(Search!FirstOf(s, n)) = n
<1> DEFINE m == IF n < Len(s) THEN n ELSE Len(s)
<1>1. Len(s) \in Nat /\ m \in Int /\ m <= Len(s) /\ \A i \in 1..m : s[i] \in T
  OBVIOUS
<1>2. Search!FirstOf(s, n) = SubSeq(s, 1, m)
  BY DEF Search!FirstOf
<1>3. /\ SubSeq(s, 1, m) \in Seq(T)
      /\ Len(SubSeq(s, 1, m)) = IF 1 <= m THEN m - 1 + 1 ELSE 0
  <2> HIDE DEF m
  <2> QED BY <1>1, SubSeqProperties
<1>4. ASSUME n >= Len(s) PROVE Search!FirstOf(s, n) = s
  <2>1. m = Len(s) /\ Part(s, 0, m) = Search!FirstOf(s, n)
    BY <1>1, <1>2, <1>4 DEF Part
  <2> QED BY <2>1, PartsMakeWhole, PartNone, <1>1, <1>3, <1>2
<1>5. ASSUME n \in 0..Len(s) PROVE Len(Search!FirstOf(s, n)) = n
  <2>1. m = n
    BY <1>1, <1>5
  <2> HIDE DEF m
  <2> QED BY <1>1, <1>2, <1>3, <2>1, <1>5
<1> QED BY <1>2, <1>3, <1>4, <1>5

\* One sequence starts another.
Begins(T, head, s) == \E rest \in Seq(T) : s = head \o rest

LEMMA FirstRest ==
  ASSUME NEW T, NEW s \in Seq(T), NEW n \in Nat
  PROVE  Begins(T, Search!FirstOf(s, n), s)
<1> DEFINE m == IF n < Len(s) THEN n ELSE Len(s)
<1>1. m \in Nat /\ m <= Len(s) /\ Len(s) \in Nat
  OBVIOUS
<1>2. Search!FirstOf(s, n) = Part(s, 0, m)
  BY DEF Search!FirstOf, Part
<1> HIDE DEF m
<1>3. s = Part(s, 0, m) \o Part(s, m, Len(s)) /\ Part(s, m, Len(s)) \in Seq(T)
  BY <1>1, PartsMakeWhole, PartFacts
<1> QED BY <1>2, <1>3 DEF Begins

\* The first n of a sequence that starts with a head of n are the head.
LEMMA FirstOfJoin ==
  ASSUME NEW T, NEW head \in Seq(T), NEW rest \in Seq(T)
  PROVE  Search!FirstOf(head \o rest, Len(head)) = head
<1>1. PICK s \in Seq(T) : s = head \o rest /\ Joins(s, head, rest)
  BY ConcatFacts
<1>2. Len(head) \in Nat /\ Len(rest) \in Nat /\ Len(s) = Len(head) + Len(rest)
  BY <1>1 DEF Joins
<1>3. Search!FirstOf(s, Len(head)) = Part(s, 0, Len(head))
  <2>1. (IF Len(head) < Len(s) THEN Len(head) ELSE Len(s)) = Len(head)
    BY <1>2
  <2> QED BY <2>1 DEF Search!FirstOf, Part
<1>4. PICK p \in Seq(T) : p = Part(s, 0, Len(head)) /\ Cuts(p, s, 0, Len(head))
  BY <1>2, PartFacts
<1>5. Len(p) = Len(head) /\ \A i \in 1..Len(p) : p[i] = head[i]
  BY <1>1, <1>2, <1>4 DEF Cuts, Joins
<1>6. p = head
  BY <1>5, SeqEqual
<1> QED BY <1>1, <1>3, <1>4, <1>6

\* A file's matching lines are in order: none is after one that is its last.
LEMMA HitsFacts ==
  ASSUME SearchInv, SearchAssumption, NEW f \in Search!TreeFiles, NEW line
  PROVE  /\ Search!HitsIn(f, line) \in Seq(Pairs)
         /\ \A k \in 1..Len(Search!HitsIn(f, line)) :
              Search!HitsIn(f, line)[k][2] = Len(disk[f]) => k = Len(Search!HitsIn(f, line))
<1> DEFINE every == [i \in DOMAIN disk[f] |-> i]
           wanted == {i \in DOMAIN disk[f] : disk[f][i] = line /\ Search!Searched(f)}
           nums == Only(every, wanted)
           N == Len(disk[f])
<1>1. /\ disk[f] \in Seq(Lines) /\ N \in Nat /\ DOMAIN disk[f] = 1..N /\ f \in Nat
  <2>1. Len(Tree) \in Nat /\ f \in Nat
    BY SearchAssumption DEF Search!TreeFiles
  <2>2. disk[f] \in Seq(Lines)
    BY DEF SearchInv
  <2> QED BY <2>1, <2>2
<1>2. every \in Seq(1..N) /\ every \in Seq(Int) /\ Len(every) = N /\ \A i \in 1..N : every[i] = i
  <2>1. every = [i \in 1..N |-> i]
    BY <1>1
  <2> HIDE DEF N, every
  <2>2. every \in [1..N -> 1..N] /\ \A i \in 1..N : every[i] = i
    BY <2>1
  <2>3. every \in Seq(1..N) /\ Len(every) = N
    BY <1>1, <2>2
  <2>4. \A i \in 1..N : i \in Int
    BY <1>1
  <2>5. every \in Seq(Int)
    BY <1>1, <2>2, <2>4
  <2> QED BY <2>2, <2>3, <2>5
<1>3. Increasing(every)
  <2> HIDE DEF every
  <2> QED BY <1>1, <1>2 DEF Increasing
<1> HIDE DEF every, wanted, N
<1>4. nums \in Seq(1..N) /\ Increasing(nums)
  BY <1>2, <1>3, OnlyType, OnlyIncreasing
<1>5. Search!LinesOf(f, line) = nums
  BY OnlyThere DEF Search!LinesOf, every, wanted
<1>6. Search!HitsIn(f, line) = [k \in DOMAIN nums |-> <<f, nums[k]>>]
  BY <1>5 DEF Search!HitsIn
<1> HIDE DEF nums
<1> DEFINE hits == [k \in DOMAIN nums |-> <<f, nums[k]>>]
<1>7. /\ Len(nums) \in Nat /\ DOMAIN nums = 1..Len(nums)
      /\ \A k \in 1..Len(nums) : nums[k] \in Nat /\ nums[k] <= N
  BY <1>1, <1>4
<1>8. hits \in Seq(Pairs) /\ Len(hits) = Len(nums) /\ \A k \in 1..Len(nums) : hits[k] = <<f, nums[k]>>
  <2>1. \A k \in 1..Len(nums) : <<f, nums[k]>> \in Pairs
    BY <1>1, <1>7 DEF Pairs
  <2>2. hits \in [1..Len(nums) -> Pairs]
    BY <1>7, <2>1
  <2> QED BY <1>7, <2>2
<1>9. ASSUME NEW k \in 1..Len(nums), nums[k] = N PROVE k = Len(nums)
  <2>1. SUFFICES ASSUME k < Len(nums) PROVE FALSE
    <3>1. k \in Int /\ Len(nums) \in Int /\ k <= Len(nums)
      BY <1>7, <1>9
    <3> QED BY <3>1
  <2>2. Len(nums) \in 1..Len(nums) /\ nums[k] < nums[Len(nums)]
    BY <1>4, <1>7, <2>1 DEF Increasing
  <2> QED BY <1>1, <1>7, <1>9, <2>2
<1> HIDE DEF hits
<1>10. ASSUME NEW k \in 1..Len(hits), hits[k][2] = N PROVE k = Len(hits)
  BY <1>8, <1>9, <1>10
<1> QED BY <1>6, <1>8, <1>10 DEF hits, N

\* What a scan adds: all of the file's lines as long as it goes on, and when it
\* ends as many as there was room for.
ScanTells(scan, hits, found, limit) ==
  /\ scan.hits \in Seq(Pairs)
  /\ Len(hits) <= limit /\ scan.on => scan.hits = hits \o found /\ Len(scan.hits) <= limit
  /\ Len(hits) <= limit /\ ~scan.on => Len(scan.hits) = limit /\ Begins(Pairs, scan.hits, hits \o found)

LEMMA ScanFacts ==
  ASSUME SearchInv, SearchAssumption, NEW f \in Search!TreeFiles, NEW line,
         NEW hits \in Seq(Pairs), NEW limit \in Nat
  PROVE  ScanTells(Search!Scan(hits, f, line, limit), hits, Search!HitsIn(f, line), limit)
<1>0. PICK scan : scan = Search!Scan(hits, f, line, limit)
  OBVIOUS
<1> DEFINE found == Search!HitsIn(f, line)
           room == limit - Len(hits)
           taken == Search!FirstOf(found, room)
<1>1. /\ found \in Seq(Pairs)
      /\ \A k \in 1..Len(found) : found[k][2] = Len(disk[f]) => k = Len(found)
  BY HitsFacts
<1>2. scan.hits = hits \o taken
  BY <1>0 DEF Search!Scan
<1>3. scan.on <=> room > 0 /\ (Len(found) >= room => found[room][2] = Len(disk[f]))
  BY <1>0 DEF Search!Scan
<1> HIDE DEF found
<1>4. room \in Int /\ room = limit - Len(hits) /\ Len(hits) \in Nat /\ Len(found) \in Nat
  BY <1>1
<1> HIDE DEF room
<1>5. taken \in Seq(Pairs) /\ scan.hits \in Seq(Pairs)
  <2>1. taken \in Seq(Pairs)
    BY <1>1, <1>4, FirstFacts
  <2>2. hits \o taken \in Seq(Pairs)
    BY <2>1, ConcatFacts
  <2> QED BY <1>2, <2>1, <2>2
<1>6. ASSUME Len(hits) <= limit, scan.on
      PROVE  scan.hits = hits \o found /\ Len(scan.hits) <= limit
  <2>1. room \in Nat /\ room > 0
    BY <1>3, <1>4, <1>6
  <2>2. Len(found) <= room
    BY <1>1, <1>3, <1>4, <1>6, <2>1
  <2>3. taken = found
    BY <1>1, <1>4, <2>2, FirstFacts
  <2>4. Len(hits \o found) = Len(hits) + Len(found)
    BY <1>1
  <2> QED BY <1>2, <1>4, <2>2, <2>3, <2>4
<1>7. ASSUME Len(hits) <= limit, ~scan.on
      PROVE  Len(scan.hits) = limit /\ Begins(Pairs, scan.hits, hits \o found)
  <2>1. room \in Nat /\ room \in 0..Len(found)
    BY <1>3, <1>4, <1>7
  <2>2. Len(taken) = room
    BY <1>1, <1>4, <2>1, FirstFacts
  <2>3. Len(hits \o taken) = Len(hits) + Len(taken)
    BY <1>5
  <2>4. PICK rest \in Seq(Pairs) : found = taken \o rest
    <3>1. found \in Seq(Pairs) /\ room \in Nat
      BY <1>1, <2>1
    <3>2. Begins(Pairs, taken, found)
      BY <3>1, FirstRest
    <3> QED BY <3>2 DEF Begins
  <2>5. hits \o found = (hits \o taken) \o rest
    <3> HIDE DEF taken
    <3>1. (hits \o taken) \o rest = hits \o (taken \o rest)
      BY <1>5, ConcatAssociative, SMTT(30)
    <3> QED BY <2>4, <3>1
  <2>6. Len(scan.hits) = limit
    BY <1>2, <1>4, <2>2, <2>3
  <2>7. hits \o found = scan.hits \o rest
    BY <1>2, <2>5
  <2> QED BY <2>6, <2>7 DEF Begins
<1> QED BY <1>0, <1>5, <1>6, <1>7 DEF found, ScanTells

WalkStates == [matches : Seq(Nat), hits : Seq(Pairs), over : {"no", "stopped", "gave up"}]

Searches == {Search!Names} \cup {Search!LinesLike(line, limit) : line \in Lines, limit \in Nat \ {0}}

WalkStart == [matches |-> <<>>, hits |-> <<>>, over |-> "no"]

LEMMA TreeFacts ==
  ASSUME SearchAssumption
  PROVE  /\ Search!TreeFiles \subseteq Nat
         /\ Search!Walked \in Seq(Search!TreeFiles)
         /\ Len(Search!Walked) \in Nat
         /\ \A i \in 1..Len(Search!Walked) : Search!Walked[i] \in Search!TreeFiles
<1> DEFINE every == [f \in Search!TreeFiles |-> f]
<1>1. Len(Tree) \in Nat /\ Search!TreeFiles = 1..Len(Tree)
  BY SearchAssumption DEF Search!TreeFiles
<1>2. every \in Seq(Search!TreeFiles)
  <2>1. every \in [1..Len(Tree) -> Search!TreeFiles]
    BY <1>1
  <2> QED BY <1>1, <2>1
<1>3. Search!Walked = Only(every, Search!Visible)
  BY OnlyThere DEF Search!Walked
<1> HIDE DEF every
<1>4. Search!Walked \in Seq(Search!TreeFiles)
  BY <1>2, <1>3, OnlyType
<1> QED BY <1>1, <1>4

\* What a visit leaves, for a search for names and for lines.
LEMMA VisitFacts ==
  ASSUME SearchInv, SearchAssumption, NEW f \in Search!TreeFiles,
         NEW hits \in Seq(Pairs), NEW search \in Searches
  PROVE  Search!Visit(hits, f, search).hits \in Seq(Pairs)
<1>1. CASE search = Search!Names
  BY <1>1 DEF Search!Visit
<1>2. CASE search # Search!Names
  <2>1. search.limit \in Nat
    BY <1>2 DEF Searches, Search!LinesLike
  <2>2. Search!Visit(hits, f, search) = Search!Scan(hits, f, search.line, search.limit)
    BY <1>2 DEF Search!Visit
  <2>3. Search!Scan(hits, f, search.line, search.limit).hits \in Seq(Pairs)
    BY <2>1, ScanFacts DEF ScanTells
  <2> QED BY <2>2, <2>3
<1> QED BY <1>1, <1>2

LEMMA ReachType ==
  ASSUME SearchInv, SearchAssumption, NEW walk \in WalkStates, NEW pattern, NEW search \in Searches,
         NEW i \in 1..Len(Search!Walked)
  PROVE  Search!Reach(walk, i, pattern, search) \in WalkStates
<1> DEFINE f == Search!Walked[i]
           gone == [walk EXCEPT !.over = "gave up"]
<1>1. f \in Search!TreeFiles /\ f \in Nat
  BY TreeFacts
<1> HIDE DEF f
<1>2. gone \in WalkStates
  BY DEF WalkStates
<1>3. Search!Visited(walk, f, search) \in WalkStates
  <2>1. walk.matches \in Seq(Nat) /\ walk.hits \in Seq(Pairs)
    BY DEF WalkStates
  <2>2. Append(walk.matches, f) \in Seq(Nat)
    BY <1>1, <2>1
  <2>3. Search!Visit(walk.hits, f, search).hits \in Seq(Pairs)
    BY <1>1, <2>1, VisitFacts
  <2> QED BY <2>2, <2>3 DEF Search!Visited, WalkStates
<1>4. \/ Search!Reach(walk, i, pattern, search) = walk
      \/ Search!Reach(walk, i, pattern, search) = gone
      \/ Search!Reach(walk, i, pattern, search) = Search!Visited(walk, f, search)
  BY DEF Search!Reach, f
<1> QED BY <1>2, <1>3, <1>4

\* The walk, file by file.
Walks(walk, pattern, search) ==
  /\ walk \in [0..Len(Search!Walked) -> WalkStates]
  /\ walk[0] = WalkStart
  /\ \A i \in 1..Len(Search!Walked) : walk[i] = Search!Reach(walk[i - 1], i, pattern, search)

LEMMA WalkUnfolds ==
  ASSUME SearchInv, SearchAssumption, NEW pattern, NEW search \in Searches
  PROVE  \E walk : /\ Walks(walk, pattern, search)
                   /\ Search!Walk(pattern, search) = walk[Len(Search!Walked)]
<1> DEFINE N == Len(Search!Walked)
           Body(f, i) == IF i = 0 THEN WalkStart ELSE Search!Reach(f[i - 1], i, pattern, search)
           Is(f) == f = [i \in 0..N |-> Body(f, i)]
           Choice == CHOOSE f : Is(f)
           next == [i \in 1..N |-> [w \in WalkStates |-> Search!Reach(w, i, pattern, search)]]
<1>1. N \in Nat /\ WalkStart \in WalkStates
  BY TreeFacts DEF WalkStart, WalkStates
<1>2. next \in Rules(N, WalkStates)
  BY ReachType DEF Rules
<1>3. \A i \in 1..N, w \in WalkStates : next[i][w] = Search!Reach(w, i, pattern, search)
  OBVIOUS
<1> HIDE DEF next
<1>4. Search!Walk(pattern, search) = Choice[N]
  BY DEF Search!Walk, WalkStart
<1> HIDE DEF N
<1>5. PICK g : Recursion(g, N, WalkStates, WalkStart, next)
  BY <1>1, <1>2, RecursionExists
<1>6. ASSUME NEW i \in 0..N PROVE g[i] = Body(g, i)
  <2>1. CASE i = 0
    BY <1>5, <2>1 DEF Recursion
  <2>2. CASE i # 0
    <3>1. i \in 1..N /\ i - 1 \in 0..N
      BY <1>1, <2>2
    <3>2. g[i] = next[i][g[i - 1]] /\ g[i - 1] \in WalkStates
      BY <1>5, <3>1 DEF Recursion
    <3> QED BY <1>3, <2>2, <3>1, <3>2
  <2> QED BY <2>1, <2>2
<1>7. g \in [0..N -> WalkStates]
  BY <1>5 DEF Recursion
<1>8. Is(g)
  <2> HIDE DEF Body
  <2> QED BY <1>6, <1>7
<1>9. Is(Choice)
  <2> HIDE DEF Is
  <2> QED BY <1>8
<1> HIDE DEF Choice
<1>10. \A i \in 0..N : Choice[i] = Body(Choice, i)
  <2> HIDE DEF Body
  <2> QED BY <1>9
<1>11. Choice[0] = WalkStart
  BY <1>1, <1>10
<1>12. \A i \in 1..N : Choice[i] = Search!Reach(Choice[i - 1], i, pattern, search)
  BY <1>1, <1>10
<1>13. \A i \in 0..N : Choice[i] \in WalkStates
  <2> DEFINE P == {i \in 0..N : Choice[i] \in WalkStates}
  <2>1. 0 \in P
    BY <1>1, <1>11
  <2>2. ASSUME NEW i \in 1..N, i - 1 \in P PROVE i \in P
    BY <1>1, <1>12, <2>2, ReachType DEF N
  <2> HIDE DEF P
  <2>3. 0..N \subseteq P
    BY <1>1, <2>1, <2>2, IntervalInduction
  <2> QED BY <2>3 DEF P
<1>14. Choice \in [0..N -> WalkStates]
  <2> HIDE DEF Body
  <2> QED BY <1>9, <1>13
<1>15. Walks(Choice, pattern, search)
  BY <1>11, <1>12, <1>14 DEF Walks, N
<1> QED BY <1>4, <1>15 DEF N

\* The files among the first i that match, and the lines in them.
Met(pattern, i) == Only(Part(Search!Walked, 0, i), Search!Matching(pattern))
HeardIn(files, line) == Flat([k \in DOMAIN files |-> Search!HitsIn(files[k], line)])

LEMMA MetSteps ==
  ASSUME SearchAssumption, NEW pattern
  PROVE  /\ Met(pattern, 0) = <<>>
         /\ Met(pattern, Len(Search!Walked)) = Search!Matches(pattern)
         /\ \A i \in 0..Len(Search!Walked) : Met(pattern, i) \in Seq(Search!TreeFiles)
         /\ \A i \in 1..Len(Search!Walked) :
              Met(pattern, i) =
                IF Search!MatchSegments(pattern, Tree[Search!Walked[i]])
                THEN Append(Met(pattern, i - 1), Search!Walked[i]) ELSE Met(pattern, i - 1)
<1> DEFINE order == Search!Walked
           N == Len(order)
           K == Search!Matching(pattern)
           Paths == Search!TreeFiles
<1>1. order \in Seq(Paths) /\ N \in Nat /\ \A i \in 1..N : order[i] \in Paths
  BY TreeFacts
<1> HIDE DEF order, K, Paths
<1>2. Part(order, 0, 0) = <<>> /\ Part(order, 0, N) = order
  <2>1. Part(order, 0, 0) = <<>>
    BY <1>1, PartNone
  <2>2. Part(order, N, N) = <<>>
    BY <1>1, PartNone
  <2>3. order = Part(order, 0, N) \o Part(order, N, N)
    BY <1>1, PartsMakeWhole
  <2>4. Part(order, 0, N) \in Seq(Paths)
    BY <1>1, PartFacts
  <2>5. Part(order, 0, N) \o <<>> = Part(order, 0, N)
    BY <2>4
  <2> QED BY <2>1, <2>2, <2>3, <2>5
<1>3. ASSUME NEW i \in 1..N PROVE Part(order, 0, i) = Append(Part(order, 0, i - 1), order[i])
  <2>1. i - 1 \in Nat /\ i \in Nat /\ 0 <= i - 1 /\ i - 1 <= i /\ i <= N /\ (i - 1) + 1 = i
    BY <1>1
  <2>2. Splits(order, 0, i - 1, i)
    BY <1>1, <2>1, PartSplit
  <2>3. Part(order, i - 1, i) = <<order[i]>>
    BY <1>1, <2>1, PartOne
  <2>4. Part(order, 0, i - 1) \in Seq(Paths) /\ order[i] \in Paths
    BY <1>1, <2>1, PartFacts
  <2> QED BY <2>2, <2>3, <2>4, AppendJoins DEF Splits
<1>4. ASSUME NEW i \in 0..N PROVE Part(order, 0, i) \in Seq(Paths)
  BY <1>1, PartFacts
<1>5. ASSUME NEW i \in 0..N PROVE Only(Part(order, 0, i), K) \in Seq(Paths)
  BY <1>4, OnlyType
<1>6. ASSUME NEW i \in 1..N
      PROVE  Only(Part(order, 0, i), K) = IF order[i] \in K THEN Append(Only(Part(order, 0, i - 1), K), order[i])
                                      ELSE Only(Part(order, 0, i - 1), K)
  <2>1. i - 1 \in 0..N
    BY <1>1
  <2>2. PICK p \in Seq(Paths) : p = Part(order, 0, i - 1)
    BY <1>4, <2>1
  <2>3. order[i] \in Paths
    BY <1>1
  <2>4. Only(Append(p, order[i]), K) = IF order[i] \in K THEN Append(Only(p, K), order[i]) ELSE Only(p, K)
    BY <2>3, OnlyAppend, ZenonT(60)
  <2> QED BY <1>3, <2>2, <2>4
<1>7. \A f \in Paths : f \in K <=> Search!MatchSegments(pattern, Tree[f])
  BY DEF K, Paths, Search!Matching
<1>8. Only(Part(order, 0, 0), K) = <<>>
  BY <1>2, OnlyEmpty
<1>9. Only(Part(order, 0, N), K) = Search!Matches(pattern)
  BY <1>2, OnlyThere DEF Search!Matches, order, K
<1> QED BY <1>1, <1>5, <1>6, <1>7, <1>8, <1>9 DEF Met, order, K, Paths

LEMMA HeardSteps ==
  ASSUME SearchInv, SearchAssumption, NEW line,
         NEW files \in Seq(Search!TreeFiles), NEW f \in Search!TreeFiles
  PROVE  /\ HeardIn(files, line) \in Seq(Pairs)
         /\ HeardIn(Append(files, f), line) = HeardIn(files, line) \o Search!HitsIn(f, line)
<1> DEFINE longer == Append(files, f)
           Each(fs) == [k \in DOMAIN fs |-> Search!HitsIn(fs[k], line)]
           N == Len(files)
<1>1. /\ longer \in Seq(Search!TreeFiles) /\ N \in Nat /\ Len(longer) = N + 1 /\ longer[N + 1] = f
      /\ \A k \in 1..N : longer[k] = files[k]
  BY AppendFacts
<1> HIDE DEF longer, N
<1>2. \A g \in Search!TreeFiles : Search!HitsIn(g, line) \in Seq(Pairs)
  BY HitsFacts
<1>3. DOMAIN files = 1..N /\ DOMAIN longer = 1..(N + 1) /\ \A k \in 1..N : files[k] \in Search!TreeFiles
  BY <1>1 DEF N
<1>4. /\ Each(files) \in Seq(Seq(Pairs)) /\ Len(Each(files)) = N
      /\ \A k \in 1..N : Each(files)[k] = Search!HitsIn(files[k], line)
  <2>1. Each(files) = [k \in 1..N |-> Search!HitsIn(files[k], line)]
    BY <1>3
  <2>2. Each(files) \in [1..N -> Seq(Pairs)]
    BY <1>2, <1>3, <2>1
  <2> QED BY <1>1, <2>1, <2>2
<1>5. /\ Each(longer) \in Seq(Seq(Pairs)) /\ Len(Each(longer)) = N + 1
      /\ \A k \in 1..(N + 1) : Each(longer)[k] = Search!HitsIn(longer[k], line)
  <2>1. Each(longer) = [k \in 1..(N + 1) |-> Search!HitsIn(longer[k], line)]
    BY <1>3
  <2>2. \A k \in 1..(N + 1) : longer[k] \in Search!TreeFiles
    BY <1>1, <1>3
  <2>3. Each(longer) \in [1..(N + 1) -> Seq(Pairs)]
    BY <1>2, <2>1, <2>2
  <2> QED BY <1>1, <2>1, <2>3
<1> HIDE DEF Each
<1>6. Each(longer) = Append(Each(files), Search!HitsIn(f, line))
  <2> DEFINE hits == Search!HitsIn(f, line)
             other == Append(Each(files), hits)
  <2>1. hits \in Seq(Pairs)
    BY <1>2
  <2> HIDE DEF hits
  <2>2. /\ other \in Seq(Seq(Pairs)) /\ Len(other) = N + 1 /\ other[N + 1] = hits
        /\ \A k \in 1..N : other[k] = Each(files)[k]
    BY <1>4, <2>1, AppendFacts, SMTT(30)
  <2> HIDE DEF other
  <2>3. ASSUME NEW k \in 1..(N + 1) PROVE Each(longer)[k] = other[k]
    <3>1. CASE k = N + 1
      <4>1. Each(longer)[k] = hits
        BY <1>1, <1>5, <3>1 DEF hits
      <4> QED BY <2>2, <3>1, <4>1
    <3>2. CASE k \in 1..N
      BY <1>1, <1>4, <1>5, <2>2, <3>2
    <3> QED BY <1>1, <3>1, <3>2
  <2>4. Each(longer) = other
    BY <1>5, <2>2, <2>3, SeqEqual
  <2> QED BY <2>4 DEF other, hits
<1>7. Flat(Append(Each(files), Search!HitsIn(f, line))) = Flat(Each(files)) \o Search!HitsIn(f, line)
  BY <1>2, <1>4, FlatAppend
<1>8. Flat(Each(files)) \in Seq(Pairs)
  BY <1>4, FlatType
<1> QED BY <1>6, <1>7, <1>8 DEF HeardIn, Each, longer

LEMMA HeardNothing == ASSUME NEW line PROVE HeardIn(<<>>, line) = <<>>
<1> DEFINE Each(fs) == [k \in DOMAIN fs |-> Search!HitsIn(fs[k], line)]
<1>1. Each(<<>>) = <<>>
  OBVIOUS
<1> HIDE DEF Each
<1>2. Flat(Each(<<>>)) = <<>>
  BY <1>1, FlatEmpty
<1> QED BY <1>2 DEF Each, HeardIn

LEMMA BeginsSame == ASSUME NEW T, NEW s \in Seq(T) PROVE Begins(T, s, s)
<1>1. s = s \o <<>> /\ <<>> \in Seq(T)
  OBVIOUS
<1> QED BY <1>1 DEF Begins

LEMMA BeginsLonger ==
  ASSUME NEW T, NEW head \in Seq(T), NEW s \in Seq(T), NEW t \in Seq(T), Begins(T, head, s)
  PROVE  Begins(T, head, s \o t)
<1>1. PICK rest \in Seq(T) : s = head \o rest
  BY DEF Begins
<1>2. (head \o rest) \o t = head \o (rest \o t) /\ rest \o t \in Seq(T)
  BY ConcatAssociative, SMTT(30)
<1> QED BY <1>1, <1>2 DEF Begins

LEMMA BeginsFacts ==
  ASSUME NEW T, NEW head \in Seq(T), NEW s \in Seq(T), Begins(T, head, s)
  PROVE  /\ Len(head) \in Nat /\ Len(s) \in Nat /\ Len(head) <= Len(s)
         /\ Len(s) <= Len(head) => head = s
         /\ Search!FirstOf(s, Len(head)) = head
<1>1. PICK rest \in Seq(T) : s = head \o rest
  BY DEF Begins
<1>2. Len(s) = Len(head) + Len(rest) /\ Len(head) \in Nat /\ Len(rest) \in Nat
  BY <1>1
<1>3. Search!FirstOf(s, Len(head)) = head
  BY <1>1, FirstOfJoin
<1>4. ASSUME Len(s) <= Len(head) PROVE head = s
  <2>1. rest = <<>>
    BY <1>2, <1>4
  <2>2. head \o <<>> = head
    OBVIOUS
  <2> QED BY <1>1, <2>1, <2>2
<1> QED BY <1>2, <1>3, <1>4

LEMMA SeqWider ==
  ASSUME NEW Few, NEW Many, Few \subseteq Many, NEW s \in Seq(Few)
  PROVE  s \in Seq(Many)
<1>1. Len(s) \in Nat /\ s \in [1..Len(s) -> Few]
  OBVIOUS
<1>2. s \in [1..Len(s) -> Many]
  BY <1>1
<1> QED BY <1>1, <1>2

\* The next file is one that matches, or not.
MatchedAt(pattern, i, f) ==
  /\ Search!MatchSegments(pattern, Tree[f])
  /\ Met(pattern, i) = Append(Met(pattern, i - 1), f)
  /\ Len(Met(pattern, i)) = Len(Met(pattern, i - 1)) + 1

PassedAt(pattern, i, f) ==
  ~Search!MatchSegments(pattern, Tree[f]) /\ Met(pattern, i) = Met(pattern, i - 1)

LEMMA MetNext ==
  ASSUME SearchAssumption, NEW pattern, NEW i \in 1..Len(Search!Walked), NEW f, f = Search!Walked[i]
  PROVE  /\ f \in Search!TreeFiles /\ f \in Nat
         /\ Met(pattern, i - 1) \in Seq(Search!TreeFiles) /\ Met(pattern, i - 1) \in Seq(Nat)
         /\ Met(pattern, i) \in Seq(Nat)
         /\ MatchedAt(pattern, i, f) \/ PassedAt(pattern, i, f)
<1>1. f \in Search!TreeFiles /\ f \in Nat /\ Search!TreeFiles \subseteq Nat
  BY TreeFacts
<1>2. i - 1 \in 0..Len(Search!Walked) /\ i \in 0..Len(Search!Walked)
  BY TreeFacts
<1>3. PICK files \in Seq(Search!TreeFiles) : files = Met(pattern, i - 1)
  BY <1>2, MetSteps
<1>4. PICK more \in Seq(Search!TreeFiles) : more = Met(pattern, i)
  BY <1>2, MetSteps
<1>5. files \in Seq(Nat) /\ more \in Seq(Nat)
  BY <1>1, SeqWider
<1>6. more = IF Search!MatchSegments(pattern, Tree[f]) THEN Append(files, f) ELSE files
  BY <1>3, <1>4, MetSteps
<1>7. Len(Append(files, f)) = Len(files) + 1
  BY <1>1, AppendFacts
<1> QED BY <1>1, <1>3, <1>4, <1>5, <1>6, <1>7 DEF MatchedAt, PassedAt

\* glob so far: every file that matched, or the first MaxResults of them.
GlobTold(walk, pattern, i) ==
  /\ walk.over = "no" => walk.matches = Met(pattern, i) /\ Len(walk.matches) < MaxResults
  /\ walk.over = "stopped" =>
       Len(walk.matches) = MaxResults /\ Begins(Nat, walk.matches, Met(pattern, i))

LEMMA GlobStep ==
  ASSUME SearchAssumption, NEW pattern, NEW i \in 1..Len(Search!Walked), NEW walk \in WalkStates,
         GlobTold(walk, pattern, i - 1)
  PROVE  GlobTold(Search!Reach(walk, i, pattern, Search!Names), pattern, i)
<1> DEFINE after == Search!Reach(walk, i, pattern, Search!Names)
<1>1. PICK f \in Nat : f = Search!Walked[i]
  BY MetNext
<1>2. PICK M \in Seq(Nat) : M = Met(pattern, i - 1)
  BY MetNext
<1>3. PICK L \in Seq(Nat) : L = Met(pattern, i)
  BY MetNext
<1>4. /\ MatchedAt(pattern, i, f) \/ PassedAt(pattern, i, f)
      /\ walk.matches \in Seq(Nat) /\ walk.over \in {"no", "stopped", "gave up"} /\ MaxResults \in Nat
  BY <1>1, MetNext, SearchAssumption DEF WalkStates
<1>5. CASE walk.over # "no"
  <2>1. after = walk
    BY <1>5 DEF Search!Reach
  <2>2. ASSUME walk.over = "stopped" PROVE Begins(Nat, walk.matches, L)
    <3>1. Begins(Nat, walk.matches, M)
      BY <1>2, <2>2 DEF GlobTold
    <3>2. CASE MatchedAt(pattern, i, f)
      <4>1. L = M \o <<f>> /\ <<f>> \in Seq(Nat)
        BY <1>1, <1>2, <1>3, <3>2, AppendJoins, SMTT(30) DEF MatchedAt
      <4> QED BY <1>4, <3>1, <4>1, BeginsLonger
    <3>3. CASE PassedAt(pattern, i, f)
      BY <1>2, <1>3, <3>1, <3>3 DEF PassedAt
    <3> QED BY <1>4, <3>2, <3>3
  <2> HIDE DEF after
  <2> QED BY <1>3, <1>5, <2>1, <2>2 DEF GlobTold, after
<1>6. CASE walk.over = "no" /\ i > MaxWalkFiles
  <2>1. after = [walk EXCEPT !.over = "gave up"]
    BY <1>6 DEF Search!Reach
  <2>2. after.over = "gave up"
    BY <2>1 DEF WalkStates
  <2> QED BY <2>2 DEF GlobTold
<1>7. CASE walk.over = "no" /\ ~(i > MaxWalkFiles) /\ PassedAt(pattern, i, f)
  <2>1. after = walk
    BY <1>1, <1>7 DEF Search!Reach, PassedAt
  <2> QED BY <1>7, <2>1 DEF GlobTold, PassedAt
<1>8. CASE walk.over = "no" /\ ~(i > MaxWalkFiles) /\ MatchedAt(pattern, i, f)
  <2>1. after = Search!Visited(walk, f, Search!Names)
    BY <1>1, <1>8 DEF Search!Reach, MatchedAt
  <2>2. walk.matches = M /\ Len(M) < MaxResults /\ L = Append(M, f) /\ Len(L) = Len(M) + 1 /\ Len(M) \in Nat
    BY <1>2, <1>3, <1>8 DEF GlobTold, MatchedAt
  <2>3. after.matches = L /\ after.over = IF Len(L) >= MaxResults THEN "stopped" ELSE "no"
    BY <2>1, <2>2 DEF Search!Visited, Search!Visit
  <2> HIDE DEF after
  <2>4. Begins(Nat, L, L)
    BY BeginsSame
  <2>0. MaxResults \in Nat /\ Len(M) \in Nat /\ Len(M) < MaxResults /\ Len(L) = Len(M) + 1
    BY <1>4, <2>2
  <2>5. PICK n \in Nat : n = Len(L) /\ n <= MaxResults
    BY <2>0
  <2>6. after.over = IF n >= MaxResults THEN "stopped" ELSE "no"
    BY <2>3, <2>5
  <2>7. after.over = "no" => n < MaxResults
    BY <2>0, <2>5, <2>6
  <2>8. after.over = "stopped" => n = MaxResults
    BY <2>0, <2>5, <2>6
  <2> QED BY <1>3, <2>3, <2>4, <2>5, <2>7, <2>8 DEF GlobTold, after
<1> QED BY <1>4, <1>5, <1>6, <1>7, <1>8

LEMMA GlobTells ==
  ASSUME SearchInv, SearchAssumption, NEW pattern, Search!Answers(Search!Glob(pattern))
  PROVE  Search!Glob(pattern).matches = Search!FirstOf(Search!Matches(pattern), MaxResults)
<1> DEFINE N == Len(Search!Walked)
<1>1. Search!Names \in Searches /\ N \in Nat /\ MaxResults \in Nat \ {0}
  BY TreeFacts, SearchAssumption DEF Searches
<1>2. PICK walk : Walks(walk, pattern, Search!Names) /\ Search!Glob(pattern) = walk[N]
  BY <1>1, WalkUnfolds DEF Search!Glob
<1>3. \A i \in 0..N : walk[i] \in WalkStates
  BY <1>2 DEF Walks
<1> DEFINE P == {i \in 0..N : GlobTold(walk[i], pattern, i)}
<1>4. 0 \in P
  <2>1. walk[0].over = "no" /\ walk[0].matches = <<>> /\ Met(pattern, 0) = <<>>
    BY <1>2, MetSteps DEF Walks, WalkStart
  <2> QED BY <1>1, <2>1 DEF GlobTold
<1>5. ASSUME NEW i \in 1..N, i - 1 \in P PROVE i \in P
  BY <1>2, <1>3, <1>5, GlobStep DEF Walks
<1> HIDE DEF P
<1>6. N \in P
  <2>1. N \in Nat /\ N \in 0..N
    BY <1>1
  <2> HIDE DEF N
  <2>2. 0..N \subseteq P
    BY <1>4, <1>5, <2>1, IntervalInduction
  <2> QED BY <2>1, <2>2
<1>7. PICK w \in WalkStates : w = walk[N] /\ GlobTold(w, pattern, N)
  BY <1>1, <1>3, <1>6 DEF P
<1>8. PICK all \in Seq(Nat) : all = Search!Matches(pattern) /\ all = Met(pattern, N)
  <2>1. N \in 0..N /\ Met(pattern, N) \in Seq(Search!TreeFiles) /\ Search!TreeFiles \subseteq Nat
    BY <1>1, MetSteps, TreeFacts
  <2>2. Met(pattern, N) \in Seq(Nat)
    BY <2>1, SeqWider
  <2> QED BY <2>2, MetSteps
<1>9. w.matches \in Seq(Nat) /\ w.over \in {"no", "stopped"}
  BY <1>2, <1>7 DEF WalkStates, Search!Answers
<1>10. CASE w.over = "no"
  <2>1. w.matches = all /\ MaxResults \in Int /\ MaxResults >= Len(all)
    BY <1>1, <1>7, <1>8, <1>10 DEF GlobTold
  <2>2. Search!FirstOf(all, MaxResults) = all
    BY <2>1, FirstFacts
  <2> QED BY <1>2, <1>7, <1>8, <2>1, <2>2
<1>11. CASE w.over = "stopped"
  <2>1. Len(w.matches) = MaxResults /\ Begins(Nat, w.matches, all)
    BY <1>7, <1>8, <1>11 DEF GlobTold
  <2>2. Search!FirstOf(all, Len(w.matches)) = w.matches
    BY <1>9, <2>1, BeginsFacts
  <2> QED BY <1>2, <1>7, <1>8, <2>1, <2>2
<1> QED BY <1>9, <1>10, <1>11

\* grep so far: every line of the files that matched, or as many as it may
\* tell, or those of the first MaxResults files.
AllTold(walk, pattern, line, i) == walk.hits = HeardIn(Met(pattern, i), line)

GrepTold(walk, pattern, line, limit, i) ==
  /\ walk.over = "no" =>
       /\ walk.matches = Met(pattern, i) /\ Len(walk.matches) < MaxResults
       /\ AllTold(walk, pattern, line, i) /\ Len(walk.hits) <= limit
  /\ walk.over = "stopped" =>
       /\ Begins(Nat, walk.matches, Met(pattern, i))
       /\ Begins(Pairs, walk.hits, HeardIn(Met(pattern, i), line))
       /\ \/ Len(walk.hits) = limit
          \/ Len(walk.matches) = MaxResults /\ (walk.matches = Met(pattern, i) => AllTold(walk, pattern, line, i))

\* What is told stays right when the walk is over and further files go by.
LEMMA StoppedStays ==
  ASSUME SearchInv, SearchAssumption, NEW pattern, NEW line, NEW limit \in Nat \ {0},
         NEW i \in 1..Len(Search!Walked), NEW walk \in WalkStates,
         GrepTold(walk, pattern, line, limit, i - 1), walk.over # "no"
  PROVE  GrepTold(walk, pattern, line, limit, i)
<1>1. PICK f \in Search!TreeFiles : f = Search!Walked[i] /\ f \in Nat
  BY MetNext
<1>2. PICK M \in Seq(Search!TreeFiles) : M = Met(pattern, i - 1) /\ M \in Seq(Nat)
  BY MetNext
<1>3. PICK L \in Seq(Nat) : L = Met(pattern, i)
  BY MetNext
<1>4. MatchedAt(pattern, i, f) \/ PassedAt(pattern, i, f)
  BY <1>1, MetNext
<1>5. walk.matches \in Seq(Nat) /\ walk.hits \in Seq(Pairs)
  BY DEF WalkStates
<1>6. CASE PassedAt(pattern, i, f)
  BY <1>6 DEF PassedAt, GrepTold, AllTold
<1>7. CASE MatchedAt(pattern, i, f) /\ walk.over = "stopped"
  <2> DEFINE heard == HeardIn(M, line)
             found == Search!HitsIn(f, line)
  <2>1. L = Append(M, f) /\ Len(L) = Len(M) + 1 /\ L = M \o <<f>> /\ <<f>> \in Seq(Nat)
    <3>1. L = Append(M, f) /\ Len(L) = Len(M) + 1
      BY <1>2, <1>3, <1>7 DEF MatchedAt
    <3>2. f \in Nat /\ M \in Seq(Nat) /\ <<f>> \in Seq(Nat)
      BY <1>1, <1>2
    <3>3. Append(M, f) = M \o <<f>>
      BY <3>2, AppendJoins
    <3> QED BY <3>1, <3>2, <3>3
  <2>2. heard \in Seq(Pairs) /\ found \in Seq(Pairs) /\ HeardIn(L, line) = heard \o found
    BY <1>1, <1>2, <2>1, HeardSteps, HitsFacts
  <2>3. Begins(Nat, walk.matches, M) /\ Begins(Pairs, walk.hits, heard)
    BY <1>2, <1>7 DEF GrepTold
  <2> HIDE DEF heard, found
  <2>4. Begins(Nat, walk.matches, L)
    BY <1>2, <1>5, <2>1, <2>3, BeginsLonger
  <2>5. Begins(Pairs, walk.hits, HeardIn(L, line))
    BY <1>5, <2>2, <2>3, BeginsLonger
  <2>6. walk.matches # L
    <3>1. Len(walk.matches) <= Len(M) /\ Len(M) \in Nat
      BY <1>2, <1>5, <2>3, BeginsFacts
    <3>2. Len(walk.matches) # Len(L)
      BY <2>1, <3>1
    <3> QED BY <3>2
  <2>7. Len(walk.hits) = limit \/ Len(walk.matches) = MaxResults
    BY <1>7 DEF GrepTold
  <2> QED BY <1>3, <1>7, <2>4, <2>5, <2>6, <2>7 DEF GrepTold
<1>8. CASE walk.over # "stopped"
  BY <1>8 DEF GrepTold
<1> QED BY <1>4, <1>6, <1>7, <1>8

LEMMA GrepStep ==
  ASSUME SearchInv, SearchAssumption, NEW pattern, NEW line \in Lines, NEW limit \in Nat \ {0},
         NEW i \in 1..Len(Search!Walked), NEW walk \in WalkStates,
         GrepTold(walk, pattern, line, limit, i - 1)
  PROVE  GrepTold(Search!Reach(walk, i, pattern, Search!LinesLike(line, limit)), pattern, line, limit, i)
<1> DEFINE search == Search!LinesLike(line, limit)
           after == Search!Reach(walk, i, pattern, search)
<1>1. PICK f \in Search!TreeFiles : f = Search!Walked[i] /\ f \in Nat
  BY MetNext
<1>2. PICK M \in Seq(Search!TreeFiles) : M = Met(pattern, i - 1) /\ M \in Seq(Nat)
  BY MetNext
<1>3. PICK L \in Seq(Nat) : L = Met(pattern, i)
  BY MetNext
<1>4. MatchedAt(pattern, i, f) \/ PassedAt(pattern, i, f)
  BY <1>1, MetNext
<1>5. walk.matches \in Seq(Nat) /\ walk.hits \in Seq(Pairs)
  BY DEF WalkStates
<1>6. CASE walk.over # "no"
  <2>1. after = walk
    BY <1>6 DEF Search!Reach
  <2> QED BY <1>6, <2>1, StoppedStays
<1>7. CASE walk.over = "no" /\ i > MaxWalkFiles
  <2>1. after = [walk EXCEPT !.over = "gave up"]
    BY <1>7 DEF Search!Reach
  <2>2. after.over = "gave up"
    BY <2>1 DEF WalkStates
  <2> QED BY <2>2 DEF GrepTold
<1>8. CASE walk.over = "no" /\ ~(i > MaxWalkFiles) /\ PassedAt(pattern, i, f)
  <2>1. after = walk
    BY <1>1, <1>8 DEF Search!Reach, PassedAt
  <2> QED BY <1>8, <2>1 DEF GrepTold, AllTold, PassedAt
<1>9. CASE walk.over = "no" /\ ~(i > MaxWalkFiles) /\ MatchedAt(pattern, i, f)
  <2> DEFINE scan == Search!Scan(walk.hits, f, line, limit)
             heard == HeardIn(M, line)
             found == Search!HitsIn(f, line)
  <2>1. after = Search!Visited(walk, f, search)
    BY <1>1, <1>9 DEF Search!Reach, MatchedAt
  <2>2. walk.matches = M /\ L = Append(M, f) /\ Len(L) = Len(M) + 1
    BY <1>2, <1>3, <1>9 DEF GrepTold, MatchedAt
  <2>3. Search!Visit(walk.hits, f, search) = scan
    <3>1. search # Search!Names /\ search.line = line /\ search.limit = limit
      BY DEF Search!LinesLike, Search!Names
    <3> QED BY <3>1 DEF Search!Visit
  <2>4. /\ after.matches = L /\ after.hits = scan.hits
        /\ after.over = IF ~scan.on \/ Len(L) >= MaxResults THEN "stopped" ELSE "no"
    BY <2>1, <2>2, <2>3 DEF Search!Visited
  <2>5. walk.hits = heard /\ Len(walk.hits) <= limit
    BY <1>2, <1>9 DEF GrepTold, AllTold
  <2>6. found \in Seq(Pairs) /\ HeardIn(L, line) = heard \o found /\ HeardIn(L, line) \in Seq(Pairs)
    <3>1. heard \in Seq(Pairs) /\ HeardIn(L, line) = heard \o found
      BY <1>1, <1>2, <2>2, HeardSteps
    <3>2. found \in Seq(Pairs)
      BY <1>1, HitsFacts
    <3> QED BY <3>1, <3>2, ConcatFacts
  <2>7. /\ scan.on => scan.hits = HeardIn(L, line) /\ Len(scan.hits) <= limit
        /\ ~scan.on => Len(scan.hits) = limit /\ Begins(Pairs, scan.hits, HeardIn(L, line))
    <3>1. limit \in Nat /\ walk.hits \in Seq(Pairs) /\ f \in Search!TreeFiles
      BY <1>1, <1>5
    <3>2. ScanTells(scan, walk.hits, found, limit)
      BY <3>1, ScanFacts
    <3>3. heard \o found = HeardIn(L, line) /\ walk.hits = heard
      BY <2>5, <2>6
    <3> HIDE DEF scan, found, heard
    <3> QED BY <2>5, <3>2, <3>3 DEF ScanTells
  <2>8. PICK n \in Nat : n = Len(L) /\ n <= MaxResults /\ MaxResults \in Nat
    <3>1. Len(M) < MaxResults
      BY <1>9, <2>2 DEF GrepTold
    <3>2. MaxResults \in Nat /\ Len(M) \in Nat
      BY <1>2, SearchAssumption
    <3> QED BY <2>2, <3>1, <3>2
  <2> HIDE DEF after, scan, heard, found, search
  <2>9. Begins(Nat, L, L) /\ Begins(Pairs, HeardIn(L, line), HeardIn(L, line))
    BY <2>6, BeginsSame
  <2>10. CASE ~scan.on
    <3>1. after.over = "stopped"
      BY <2>4, <2>10
    <3> QED BY <1>3, <2>4, <2>7, <2>9, <2>10, <3>1 DEF GrepTold, after, search
  <2>11. CASE scan.on /\ n < MaxResults
    <3>1. after.over = "no"
      BY <2>4, <2>8, <2>11
    <3> QED BY <1>3, <2>4, <2>7, <2>8, <2>11, <3>1 DEF GrepTold, AllTold, after, search
  <2>12. CASE scan.on /\ n = MaxResults
    <3>1. after.over = "stopped"
      BY <2>4, <2>8, <2>12
    <3> QED BY <1>3, <2>4, <2>7, <2>8, <2>9, <2>12, <3>1 DEF GrepTold, AllTold, after, search
  <2> QED BY <2>8, <2>10, <2>11, <2>12
<1> QED BY <1>4, <1>6, <1>7, <1>8, <1>9

LEMMA GrepTells ==
  ASSUME SearchInv, SearchAssumption, NEW pattern, NEW line \in Lines, NEW limit \in Nat \ {0},
         NEW grep, grep = Search!Walk(pattern, Search!LinesLike(line, limit)), Search!Answers(grep)
  PROVE  LET all == Search!AllHits(pattern, line) IN
         /\ grep.hits = Search!FirstOf(all, Len(grep.hits))
         /\ Len(Search!Matches(pattern)) <= MaxResults /\ Len(grep.hits) < limit => grep.hits = all
<1> DEFINE N == Len(Search!Walked)
           search == Search!LinesLike(line, limit)
<1>1. search \in Searches /\ N \in Nat
  BY TreeFacts DEF Searches
<1>2. PICK walk : Walks(walk, pattern, search) /\ grep = walk[N]
  BY <1>1, WalkUnfolds
<1>3. \A i \in 0..N : walk[i] \in WalkStates
  BY <1>2 DEF Walks
<1> DEFINE P == {i \in 0..N : GrepTold(walk[i], pattern, line, limit, i)}
<1>4. 0 \in P
  <2>1. walk[0].over = "no" /\ walk[0].matches = <<>> /\ walk[0].hits = <<>> /\ Met(pattern, 0) = <<>>
    BY <1>2, MetSteps DEF Walks, WalkStart
  <2>2. HeardIn(<<>>, line) = <<>>
    BY HeardNothing
  <2>3. 0 \in 0..N /\ Len(<<>>) = 0 /\ 0 < MaxResults /\ 0 <= limit
    BY <1>1, SearchAssumption
  <2> QED BY <2>1, <2>2, <2>3 DEF GrepTold, AllTold
<1>5. ASSUME NEW i \in 1..N, i - 1 \in P PROVE i \in P
  <2>1. i - 1 \in 0..N /\ i \in 0..N /\ GrepTold(walk[i - 1], pattern, line, limit, i - 1)
    BY <1>1, <1>5
  <2>2. walk[i] = Search!Reach(walk[i - 1], i, pattern, search) /\ walk[i - 1] \in WalkStates
    BY <1>2, <1>3, <2>1 DEF Walks
  <2>3. PICK w \in WalkStates : w = walk[i - 1]
    BY <2>2
  <2>4. GrepTold(Search!Reach(w, i, pattern, search), pattern, line, limit, i)
    BY <2>1, <2>3, GrepStep
  <2> QED BY <2>1, <2>2, <2>3, <2>4
<1> HIDE DEF P
<1>6. N \in P
  <2>1. N \in Nat /\ N \in 0..N
    BY <1>1
  <2> HIDE DEF N
  <2>2. 0..N \subseteq P
    BY <1>4, <1>5, <2>1, IntervalInduction
  <2> QED BY <2>1, <2>2
<1>7. grep \in WalkStates /\ GrepTold(grep, pattern, line, limit, N)
  BY <1>1, <1>2, <1>3, <1>6 DEF P
<1>8. PICK files \in Seq(Search!TreeFiles) : files = Search!Matches(pattern) /\ files = Met(pattern, N)
  <2>1. N \in 0..N
    BY <1>1
  <2> QED BY <2>1, MetSteps
<1>9. files \in Seq(Nat)
  BY <1>8, TreeFacts, SeqWider
<1>10. PICK all \in Seq(Pairs) : all = HeardIn(files, line) /\ all = Search!AllHits(pattern, line)
  <2>1. HeardIn(files, line) \in Seq(Pairs)
    <3>1. CASE Search!TreeFiles = {}
      <4>1. files = <<>>
        BY <1>8, <3>1
      <4>2. HeardIn(files, line) = <<>>
        BY <4>1, HeardNothing
      <4> QED BY <4>2
    <3>2. CASE Search!TreeFiles # {}
      BY <1>8, <3>2, HeardSteps
    <3> QED BY <3>1, <3>2
  <2>2. HeardIn(files, line) = Search!AllHits(pattern, line)
    BY <1>8, FlatThere DEF HeardIn, Search!AllHits
  <2> QED BY <2>1, <2>2
<1>11. grep.matches \in Seq(Nat) /\ grep.hits \in Seq(Pairs) /\ grep.over \in {"no", "stopped"}
  BY <1>7 DEF WalkStates, Search!Answers
<1>12. CASE grep.over = "no"
  <2>1. grep.hits = all
    BY <1>7, <1>8, <1>10, <1>12 DEF GrepTold, AllTold
  <2>2. Search!FirstOf(all, Len(all)) = all
    <3>1. Len(all) \in Int /\ Len(all) >= Len(all)
      OBVIOUS
    <3> QED BY <3>1, FirstFacts
  <2> QED BY <1>10, <2>1, <2>2
<1>13. CASE grep.over = "stopped"
  <2>1. /\ Begins(Nat, grep.matches, files) /\ Begins(Pairs, grep.hits, all)
        /\ \/ Len(grep.hits) = limit
           \/ Len(grep.matches) = MaxResults /\ (grep.matches = files => grep.hits = all)
    BY <1>7, <1>8, <1>10, <1>13 DEF GrepTold, AllTold
  <2>2. Search!FirstOf(all, Len(grep.hits)) = grep.hits
    BY <1>11, <2>1, BeginsFacts
  <2>3. ASSUME Len(files) <= MaxResults, Len(grep.hits) < limit PROVE grep.hits = all
    <3>1. Len(grep.matches) = MaxResults /\ (grep.matches = files => grep.hits = all)
      BY <1>11, <2>1, <2>3
    <3>2. Len(files) <= Len(grep.matches)
      BY <2>3, <3>1
    <3>3. grep.matches = files
      BY <1>9, <1>11, <2>1, <3>2, BeginsFacts
    <3> QED BY <3>1, <3>3
  <2> QED BY <1>8, <1>10, <2>2, <2>3
<1> QED BY <1>11, <1>12, <1>13

LEMMA SearchTells == ASSUME SearchInv, SearchAssumption PROVE Search!SearchTellsAll
<1>1. ASSUME NEW pattern \in Patterns, Search!Answers(Search!Glob(pattern))
      PROVE  Search!Glob(pattern).matches = Search!FirstOf(Search!Matches(pattern), MaxResults)
  BY <1>1, GlobTells
<1>2. ASSUME NEW pattern \in Patterns, NEW line \in Lines, NEW limit \in 0..(MaxResults + 1),
             Search!Answers(Search!Grep(pattern, line, limit))
      PROVE  LET grep == Search!Grep(pattern, line, limit)
                 all == Search!AllHits(pattern, line) IN
             /\ grep.hits = Search!FirstOf(all, Len(grep.hits))
             /\ Len(Search!Matches(pattern)) <= MaxResults /\ Len(grep.hits) < Search!GrepLimit(limit)
                  => grep.hits = all
  <2>1. PICK most \in Nat \ {0} : most = Search!GrepLimit(limit)
    BY SearchAssumption DEF Search!GrepLimit
  <2>2. PICK grep : grep = Search!Walk(pattern, Search!LinesLike(line, most))
    OBVIOUS
  <2>3. grep = Search!Grep(pattern, line, limit)
    BY <2>1, <2>2 DEF Search!Grep
  <2>4. Search!Answers(grep)
    BY <1>2, <2>3
  <2>5. /\ grep.hits = Search!FirstOf(Search!AllHits(pattern, line), Len(grep.hits))
        /\ Len(Search!Matches(pattern)) <= MaxResults /\ Len(grep.hits) < most
             => grep.hits = Search!AllHits(pattern, line)
    BY <2>2, <2>4, GrepTells
  <2> QED BY <2>1, <2>3, <2>5
<1> QED BY <1>1, <1>2 DEF Search!SearchTellsAll

-----------------------------------------------------------------------------
(* The pack that was chosen keeps its invariant, whatever it does. *)
PacksInv ==
  /\ pack = "fetch" => FetchInv
  /\ pack = "exec" => ExecInv
  /\ pack = "marks" => MarksInv
  /\ pack = "chrome" => ChromeInv
  /\ pack = "edit" => EditInv
  /\ pack = "search" => SearchInv

LEMMA InitPacksInv == Init => PacksInv
<1> SUFFICES ASSUME Init PROVE PacksInv
  OBVIOUS
<1>1. pack = "fetch" => F!Init
  BY DEF Init
<1>2. pack = "exec" => E!Init
  BY DEF Init
<1>3. pack = "marks" => B!Init
  BY DEF Init
<1>4. pack = "chrome" => C!Init
  BY DEF Init
<1>5. pack = "edit" => W!Init
  BY DEF Init
<1>6. pack = "search" => Search!Init
  BY DEF Init
<1> QED BY <1>1, <1>2, <1>3, <1>4, <1>5, <1>6,
           FetchInit, ExecInit, MarksInit, ChromeInit, EditInit, SearchInit DEF PacksInv

(* A step of the composition is one of the chosen pack, or of none. *)
LEMMA PackSteps ==
  ASSUME Next
  PROVE  /\ pack' = pack
         /\ pack = "fetch" => F!Next
         /\ pack = "exec" => E!Next
         /\ pack = "marks" => B!Next
         /\ pack = "chrome" => C!Next
         /\ pack = "edit" => W!Next
         /\ pack = "search" => Search!Changes
BY DEF Next

LEMMA PacksStep == PacksInv /\ [Next]_vars => PacksInv'
<1> SUFFICES ASSUME PacksInv, [Next]_vars PROVE PacksInv'
  OBVIOUS
<1>1. CASE Next
  BY <1>1, PackSteps, FetchNext, ExecNext, MarksNext, ChromeNext, EditNext, SearchNext DEF PacksInv
<1>2. CASE UNCHANGED vars
  <2>1. pack' = pack
    BY <1>2 DEF vars
  <2>2. FetchInv => FetchInv'
    BY <1>2 DEF vars, fetchVars, FetchInv, F!SessionAllowed, F!Covered, F!PolicyAllows, F!Check
  <2>3. ExecInv => ExecInv'
    BY <1>2 DEF vars, fetchRest, execVars, ExecInv, ExecChild, ExecErr
  <2>4. MarksInv => MarksInv'
    BY <1>2 DEF vars, fetchRest, marksVars, MarksInv
  <2>5. ChromeInv => ChromeInv'
    BY <1>2 DEF vars, fetchRest, chromeVars, ChromeInv, ChromeTypes, ChromeLocks, ChromeProcess
  <2>6. EditInv => EditInv'
    BY <1>2 DEF vars, fetchRest, editVars, EditInv, EditTypes, EditSteps, W!Goal, Found
  <2>7. SearchInv => SearchInv'
    BY <1>2 DEF vars, fetchRest, SearchInv
  <2> QED BY <2>1, <2>2, <2>3, <2>4, <2>5, <2>6, <2>7 DEF PacksInv
<1> QED BY <1>1, <1>2

LEMMA PacksInvariant == Spec => []PacksInv
BY InitPacksInv, PacksStep, PTL DEF Spec

(* The user is never asked about a host he has allowed, by name or through a
   domain above it, in one allowUrls() or across calls; and the request a call
   makes was allowed by him or by the policies (requestAccess).  Where redirects
   take it from there, nobody is asked about. *)
THEOREM FetchAsksOnce == Spec => []AsksOnceThenHonours
<1>1. PacksInv => AsksOnceThenHonours
  BY FetchAsks DEF PacksInv, AsksOnceThenHonours
<1> QED BY <1>1, PacksInvariant, PTL

(* What exec() returns is the command's own status, unless it says "timed out"
   or the Run was cancelled; a command that failed by itself never throws. *)
THEOREM StatusIsReported == Spec => []StatusIsTheCommands
<1>1. PacksInv => StatusIsTheCommands
  BY ExecReports DEF PacksInv, StatusIsTheCommands
<1> QED BY <1>1, PacksInvariant, PTL

(* Whatever the page does between two primitives, what an action by number
   reaches is what the last listing seen gave that number, in that document;
   the keys of typeMark too, unless the page took or refused the focus. *)
THEOREM ActionsFollowTheNumbering == Spec => NumbersAreLatest
<1> DEFINE Tells == pack = "marks" /\ acted' \notin {acted, B!Nowhere} /\ ~lost
                      /\ ~(acted'.how = "keys" /\ strayed)
<1>1. ASSUME PacksInv, [Next]_vars, Tells PROVE B!ListedIsHit(acted')
  <2>1. Next
    BY <1>1 DEF vars, fetchRest, marksVars
  <2> QED BY <1>1, <2>1, PackSteps, MarksActs DEF PacksInv
<1>2. PacksInv /\ [Next]_vars => [Tells => B!ListedIsHit(acted')]_vars
  BY <1>1
<1> QED BY <1>2, PacksInvariant, PTL DEF Spec, NumbersAreLatest

(* A closed driver without a screencast has no Chrome running, and one call at
   a time is on the page: for any number of calls, crashes and cancellations. *)
THEOREM ChromeIsReleased == Spec => []CloseReleasesChrome
<1>1. PacksInv => CloseReleasesChrome
  BY ChromeReleased DEF PacksInv, CloseReleasesChrome
<1> QED BY <1>1, PacksInvariant, PTL

(* Unless someone else writes the file meanwhile, a mutation that never opened
   it leaves it as it was, and one that returns has written what it was given,
   or the text as it was read with what it was to find replaced, all of it or
   the one occurrence no other follows: for files and texts of any length, a
   replacement that holds the text to find included. *)
THEOREM EditsAreExact == Spec => []EditIsExact
<1>1. PacksInv => EditIsExact
  BY EditExact DEF PacksInv, EditIsExact
<1> QED BY <1>1, PacksInvariant, PTL

(* On any disk, and for any tree, skipped directories, globs and caps: a glob
   or grep that answers passes over no matching file and no matching line
   before the point it tells up to, but those in what it cannot read or does
   not look into, and a short grep of a tree with few matching files is a
   complete one. *)
THEOREM SearchesTellAll == Spec => []SearchTellsAll
<1>1. PacksInv => SearchTellsAll
  BY SearchTells, SearchAssumption DEF PacksInv, SearchTellsAll
<1> QED BY <1>1, PacksInvariant, PTL
=============================================================================
