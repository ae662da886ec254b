--------------------------- MODULE BrowserMarks ---------------------------
(***************************************************************************)
(* The browser pack's numbered marks over a page that changes by itself.   *)
(*                                                                         *)
(* mark() numbers the visible elements inside the page (window.__som) and  *)
(* returns the listing; clickMark() and typeMark() act by number.  The pack*)
(* remembers only whether marks are valid; the numbers live in the         *)
(* document and go with it.  Every primitive is a separate round trip to   *)
(* the page, which may fail after it took effect.                          *)
(***************************************************************************)
EXTENDS Integers, Sequences, SequencesExt

CONSTANTS
  PageElements,      \* interactive elements a document may show
  MaxDocs        \* bound: how often the document is replaced

Pages == {p \in UNION {[1..n -> PageElements] : n \in 0..2} : IsInjective(p)}
NoMap == [doc |-> 0, elements |-> <<>>]
Nowhere == [how |-> "none", id |-> 0, doc |-> 0, aim |-> "none", element |-> "none"]

VARIABLES
  doc,           \* the document in the page
  page,          \* its visible elements, in document order
  som,           \* window.__som: the map id -> element of a document
  marksValid,    \* the pack's flag
  shot,          \* askMarks: the numbers in the picture it took
  listed,        \* the listing the script, or the vision model, was given last
  lost,          \* ghost: the latest numbering is not the one listed last
  focus,         \* the element with the focus
  strayed,       \* ghost: the element typeMark is to type into lacks the focus
  pc,            \* the primitive under way
  acted          \* where the last primitive by number landed: the element its id
                 \* stands for (aim), and the one it reached (element)

vars == <<doc, page, som, marksValid, shot, listed, lost, focus, strayed, pc, acted>>

Init ==
  /\ doc = 1 /\ page \in Pages
  /\ som = NoMap /\ marksValid = FALSE
  /\ shot = <<>> /\ listed = <<>> /\ lost = FALSE
  /\ focus = "none" /\ strayed = FALSE /\ pc = "idle" /\ acted = Nowhere

(* A new document has no map, whatever the pack believes. *)
Replaced ==
  /\ doc < MaxDocs
  /\ doc' = doc + 1
  /\ page' \in Pages
  /\ som' = NoMap
  /\ focus' = "none" /\ strayed' = (pc = "keys")

(* The page by itself: it re-renders or moves the focus, or it navigates (a
   link clicked by selector, a redirect, a script's eval). *)
Rerenders ==
  /\ page' \in Pages
  /\ focus' \in PageElements \cup {"none"}
  /\ strayed' = (pc = "keys" /\ (strayed \/ focus' # focus))
  /\ UNCHANGED <<doc, som, marksValid, shot, listed, lost, pc, acted>>

Navigates ==
  /\ Replaced
  /\ UNCHANGED <<marksValid, shot, listed, lost, pc, acted>>

-----------------------------------------------------------------------------
Goto ==
  /\ pc = "idle"
  /\ Replaced
  /\ marksValid' = FALSE
  /\ acted' = Nowhere
  /\ UNCHANGED <<shot, listed, lost, pc>>

(* A slip: install() that does not clear. *)
InstallOver ==
  /\ som' = [doc |-> doc, elements |->
        page \o (IF som.doc = doc THEN SubSeq(som.elements, Len(page) + 1, Len(som.elements))
                                  ELSE <<>>)]
  /\ acted' = Nowhere

(* install(): clear, then number what is visible. *)
Install ==
  /\ som' = [doc |-> doc, elements |-> page]
  /\ acted' = Nowhere

Mark ==
  /\ pc = "idle"
  /\ Install
  /\ marksValid' = TRUE
  /\ listed' = page /\ lost' = FALSE
  /\ UNCHANGED <<doc, page, shot, focus, strayed, pc>>

(* The evaluation took effect and its answer was lost; or not even that. *)
MarkFails ==
  /\ pc = "idle"
  /\ Install
  /\ lost' = TRUE
  /\ UNCHANGED <<doc, page, marksValid, shot, listed, focus, strayed, pc>>

(* askMarks: mark, screenshot, strip the boxes, ask. *)
AskMarks ==
  /\ pc = "idle"
  /\ Install
  /\ marksValid' = TRUE /\ lost' = TRUE
  /\ pc' = "shoot"
  /\ UNCHANGED <<doc, page, shot, listed, focus, strayed>>

(* The picture shows the boxes of the map that is there now, if any. *)
Screenshot ==
  /\ pc = "shoot"
  /\ shot' = IF som.doc = doc THEN som.elements ELSE <<>>
  /\ pc' = "vision"
  /\ UNCHANGED <<doc, page, som, marksValid, listed, lost, focus, strayed, acted>>

AskFails ==
  /\ pc \in {"shoot", "vision"}
  /\ pc' = "idle"
  /\ UNCHANGED <<doc, page, som, marksValid, shot, listed, lost, focus, strayed, acted>>

VisionAnswers ==
  /\ pc = "vision"
  /\ listed' = shot /\ lost' = FALSE
  /\ pc' = "idle"
  /\ UNCHANGED <<doc, page, som, marksValid, shot, focus, strayed, acted>>

(* By number: refused without valid marks; injecting somJS into a document
   without a map gives it an empty one, which knows no number. *)
Resolves(id) == marksValid /\ som.doc = doc /\ id \in DOMAIN som.elements

Landing(how, id, reached) ==
  [how |-> how, id |-> id, doc |-> doc, aim |-> som.elements[id], element |-> reached]

ClickMark ==
  /\ pc = "idle"
  /\ \E id \in DOMAIN som.elements :
       /\ Resolves(id)
       /\ acted' = Landing("click", id, som.elements[id])
  /\ UNCHANGED <<doc, page, som, marksValid, shot, listed, lost, focus, strayed, pc>>

(* A slip: typeMark goes on to type when the page knows no such number. *)
TypeMarkRegardless ==
  /\ pc = "idle" /\ marksValid
  /\ \E id \in 1..2 :
       /\ acted' = IF Resolves(id) THEN Landing("focus", id, som.elements[id])
                                  ELSE [Nowhere EXCEPT !.how = "focus", !.id = id]
       /\ focus' = IF Resolves(id) THEN som.elements[id] ELSE focus
  /\ pc' = "keys" /\ strayed' = FALSE
  /\ UNCHANGED <<doc, page, som, marksValid, shot, listed, lost>>

(* typeMark focuses in one round trip and types in the next.  An element that
   takes no focus, or has left the page, leaves it where it is. *)
TypeMark ==
  /\ pc = "idle"
  /\ \E id \in DOMAIN som.elements :
       /\ Resolves(id)
       /\ acted' = Landing("focus", id, som.elements[id])
       /\ focus' \in {focus, som.elements[id]}
       /\ strayed' = (focus' # som.elements[id])
  /\ pc' = "keys"
  /\ UNCHANGED <<doc, page, som, marksValid, shot, listed, lost>>

(* The keys go to whatever has the focus by now. *)
KeyEvent ==
  /\ pc = "keys"
  /\ acted' = [acted EXCEPT !.how = "keys", !.element = focus]
  /\ pc' = "idle" /\ strayed' = FALSE
  /\ UNCHANGED <<doc, page, som, marksValid, shot, listed, lost, focus>>

Next ==
  \/ Rerenders \/ Navigates \/ Goto
  \/ Mark \/ MarkFails \/ AskMarks \/ Screenshot \/ AskFails \/ VisionAnswers
  \/ ClickMark \/ TypeMark \/ KeyEvent

Spec == Init /\ [][Next]_vars

-----------------------------------------------------------------------------
(* Unless the answer to the latest numbering was lost, a click by number lands
   on the element that the listing seen last gave the number, and so do the keys
   of typeMark unless the element did not take or keep the focus: whatever the
   page does between the round trips, a number of a document that is gone, or of
   a listing that a later one replaced, is an error (requireMarks, install). *)
ListedIsHit(landing) ==
  /\ landing.doc = doc
  /\ landing.id \in DOMAIN listed
  /\ landing.aim = listed[landing.id]
  /\ landing.element = landing.aim

NumbersAreLatest ==
  [][acted' \notin {acted, Nowhere} /\ ~lost /\ ~(acted'.how = "keys" /\ strayed)
       => ListedIsHit(acted')]_vars

-----------------------------------------------------------------------------
(* Two claims of the repository that this code does not keep. *)

(* The help text: "acting on a stale id throws rather than clicking the wrong
   thing", the ids being those of the last listing.  A numbering whose answer
   was lost is acted on all the same. *)
ActsOnListed ==
  [][acted' # acted /\ acted'.how = "click" => ListedIsHit(acted')]_vars

(* The help text: "Focus a marked element by id and type into it".  The page may
   take the focus elsewhere before the keys arrive, or never give it. *)
TypesIntoMark == acted.how = "keys" => acted.element = acted.aim
=============================================================================
