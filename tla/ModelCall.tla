------------------------------ MODULE ModelCall ------------------------------
(***************************************************************************)
(* One call to the model: openAIClient.Stream or Complete, the retrying    *)
(* POST under both, the responseStreamer that decides from the first       *)
(* chunks whether the reply is shown to the user as it arrives, and the    *)
(* parser that reads a script or an answer out of the whole of it.  The    *)
(* upstream answers as it likes, cuts a streamed reply anywhere, and the   *)
(* caller's context may be cancelled at any time.                          *)
(***************************************************************************)
EXTENDS Integers, Sequences, SequencesExt

CONSTANTS
    Configs,    \* what NewOpenAI may be given: [retries: Int, base: Int]
    Symbols,    \* characters
    Replies,    \* what the model may say; a stream may break off anywhere in it
    HoldBack,   \* characters held back before an undecided reply is shown (32)
    Cap,        \* maxRetryDelay
    Headers     \* Retry-After values: [form: {"none", "seconds", "date"}, at: Int]

Newline == "newline"
Return == "return"
White == {Newline, Return, "space"}

Fence == <<"tick", "tick", "tick">>
Script == Fence \o <<"j", "s">>
Done == <<"D", "O", "N", "E">>
DoneMarks == {Done \o <<Newline>>, Done \o <<Return, Newline>>}

DefaultRetries == 3
DefaultBase == 1
Absent == -1        \* no Retry-After hint

ASSUME ModelCallAssumption ==
    /\ \A c \in Configs : c.retries \in Int /\ c.base \in Int
    /\ {"tick", "D", "O", "N", "E", Return, Newline} \subseteq Symbols
    /\ Replies \subseteq Seq(Symbols)
    /\ HoldBack \in Nat /\ Cap \in Nat \ {0}
    /\ \A h \in Headers : h.form \in {"none", "seconds", "date"} /\ h.at \in Int

VARIABLES
    pc,         \* where the call is
    method,     \* what the caller called
    wire,       \* what is being posted: a streaming or a plain request
    maxRetries, base,   \* the client's configuration
    attempt,    \* retries of the current request so far
    delay,      \* the backoff slept before the next one
    cancelled,  \* the caller's context has ended
    sawFrame,   \* the body is an event stream
    ended,      \* the upstream sent its [DONE] frame (history)
    content,    \* streamChat's accumulated text
    heard,      \* all text handed to onChunk: responseStreamer.buf
    mode,       \* responseStreamer.mode
    emitted,    \* text sent on as response_chunk events
    outcome,    \* what the caller gets
    reply       \* CompletionResponse.Content

configVars == <<method, maxRetries, base>>
postVars == <<wire, attempt, delay>>
bodyVars == <<sawFrame, ended, content>>
streamerVars == <<heard, mode, emitted>>
resultVars == <<outcome, reply>>
vars == <<pc, configVars, postVars, cancelled, bodyVars, streamerVars, resultVars>>

\* A reply, or as much of it as arrives.
Texts == UNION {{SubSeq(text, 1, n) : n \in 0..Len(text)} : text \in Replies}

\* NewOpenAI: zero retries means the default, a negative number none.
Retries(n) == IF n = 0 THEN DefaultRetries ELSE IF n < 0 THEN 0 ELSE n

BaseDelay(d) == IF d <= 0 THEN DefaultBase ELSE d

\* A call of the loop streams; one of the ai() and aiJSON() primitives does not.
Init ==
    /\ pc = "post"
    /\ method \in {"stream", "complete"}
    /\ wire = method
    /\ \E c \in Configs : maxRetries = Retries(c.retries) /\ base = BaseDelay(c.base)
    /\ attempt = 0
    /\ delay = 0
    /\ cancelled = FALSE
    /\ sawFrame = FALSE
    /\ ended = FALSE
    /\ content = <<>>
    /\ heard = <<>>
    /\ mode = ""
    /\ emitted = <<>>
    /\ outcome = "none"
    /\ reply = <<>>

Finish(result, text) == pc' = "done" /\ outcome' = result /\ reply' = text

-----------------------------------------------------------------------------
(* Retry delays.                                                           *)

CapDelay(d) == IF d < 0 THEN 0 ELSE IF d > Cap THEN Cap ELSE d

\* Slip: the doubling has no ceiling, nor has its result.
ExponentialUncapped(n) == base * 2 ^ n

\* The base, doubled n times and stopped where doubling would pass the cap.
Exponential(n) ==
    LET doubled[k \in 0..n] ==
            IF k = 0 THEN base
            ELSE IF doubled[k - 1] >= Cap \div 2 THEN Cap ELSE 2 * doubled[k - 1]
    IN CapDelay(doubled[n])

\* What the jitter may add: half the delay, and not past the cap.
Span(d) == IF d \div 2 > Cap - d THEN Cap - d ELSE d \div 2

RetryAfter(h) ==
    IF h.form = "none" \/ (h.form = "seconds" /\ h.at < 0) THEN Absent ELSE CapDelay(h.at)

\* retryDelay: the upstream's hint, or backoff with jitter.
RetryDelays(hint) ==
    LET d == Exponential(attempt)
    IN IF hint # Absent THEN {CapDelay(hint)}
       ELSE IF d >= Cap THEN {d}
       ELSE {CapDelay(d + j) : j \in 0..Span(d)}

-----------------------------------------------------------------------------
(* The response streamer.                                                  *)

TrimLeft(text) ==
    LET seen == {i \in DOMAIN text : text[i] \notin White}
    IN IF seen = {} THEN <<>> ELSE SubSeq(text, CHOOSE i \in seen : \A j \in seen : i <= j, Len(text))

Fenced(prefix) == IsPrefix(Fence, prefix)

Marks(prefix) == {mark \in DoneMarks : IsPrefix(mark, prefix)}

Marked(prefix) == Marks(prefix) # {}

\* What follows the marker, the line's end included.
Unmarked(prefix) ==
    SubSeq(prefix, Len(CHOOSE mark \in Marks(prefix) : TRUE) + 1, Len(prefix))

Undecided(text, prefix) == Len(text) < HoldBack /\ Newline \notin ToSet(prefix)

\* The mode is decided by the first chunks, then kept.
Decide(text) ==
    LET prefix == TrimLeft(text)
    IN CASE mode # "" -> mode
         [] mode = "" /\ Fenced(prefix) -> "js"
         [] mode = "" /\ ~Fenced(prefix) /\ ~Marked(prefix) /\ Undecided(text, prefix) -> ""
         [] OTHER -> "final"

\* Slip: what was held back is forgotten once the reply is shown.
HearLatest(chunk) ==
    /\ heard' = heard \o chunk
    /\ mode' = Decide(heard \o chunk)
    /\ emitted' = IF Decide(heard \o chunk) = "final" THEN emitted \o chunk ELSE emitted

\* onChunk: the deciding chunk brings out what was held back, less the marker.
Hear(chunk) ==
    LET text == heard \o chunk
        prefix == TrimLeft(text)
    IN /\ heard' = text
       /\ mode' = Decide(text)
       /\ emitted' = CASE Decide(text) # "final" -> emitted
                       [] mode = "final" -> emitted \o chunk
                       [] OTHER -> IF Marked(prefix) THEN Unmarked(prefix) ELSE prefix

\* Stream and streamChat call onChunk with text only.
HearText(text) == IF text = <<>> THEN UNCHANGED streamerVars ELSE Hear(text)

-----------------------------------------------------------------------------
(* The parser.                                                             *)

IsWhite(text) == ToSet(text) \subseteq White

At(word, text, i) == IsPrefix(word, SubSeq(text, i, Len(text)))

\* ExtractDoneMarker: the marker alone, or on a line of its own with more after.
HasDone(text) ==
    \E i, j \in DOMAIN text :
        /\ i <= j /\ At(Done, text, i)
        /\ \E start \in 1..i : /\ start = 1 \/ text[start - 1] = Newline
                              /\ IsWhite(SubSeq(text, start, i - 1))
        /\ \/ j >= i + Len(Done) /\ text[j] = Newline /\ IsWhite(SubSeq(text, i + Len(Done), j))
           \/ /\ IsWhite(SubSeq(text, 1, i - 1))
              /\ IsWhite(SubSeq(text, i + Len(Done), Len(text)))

\* jsFenceRe: the fence with its tag at i, white space up to the line end at j,
\* and behind the body the closing fence, on the line after the one ending at k.
Matches(text, i, j, k) ==
    /\ At(Script, text, i)
    /\ i + Len(Script) <= j /\ j < k
    /\ IsWhite(SubSeq(text, i + Len(Script), j)) /\ text[j] = Newline
    /\ At(<<Newline>> \o Fence, text, k)

\* ExtractJSBlock: the leftmost match, its opening line as long and its body as
\* short as can be; "" when nothing is left of the body.
HasBlock(text) ==
    \E i, j, k \in DOMAIN text :
        /\ Matches(text, i, j, k)
        /\ \A x, y, z \in DOMAIN text : Matches(text, x, y, z) =>
              \/ i < x
              \/ i = x /\ j > y
              \/ i = x /\ j = y /\ k <= z
        /\ ~IsWhite(SubSeq(text, j + 1, k - 1))

\* runTurn looks for the marker first, then for a script.
RunsScript(text) == ~HasDone(text) /\ HasBlock(text)

-----------------------------------------------------------------------------
(* doJSONPost.                                                             *)

Cancel ==
    /\ pc # "done"
    /\ ~cancelled
    /\ cancelled' = TRUE
    /\ UNCHANGED <<pc, configVars, postVars, bodyVars, streamerVars, resultVars>>

\* Sending the next request: with an ended context it fails at once, and the
\* call is reported as cancelled.
Post ==
    IF cancelled THEN Finish("cancelled", <<>>) ELSE pc' = "post" /\ UNCHANGED resultVars

\* A failed attempt: a cancelled call is reported as itself, the last failure
\* once the retries are used up; otherwise the client backs off.
AttemptFailed(failure, hint) ==
    \/ /\ cancelled
       /\ Finish("cancelled", <<>>)
       /\ UNCHANGED delay
    \/ /\ ~cancelled /\ attempt >= maxRetries
       /\ Finish(failure, <<>>)
       /\ UNCHANGED delay
    \/ /\ ~cancelled /\ attempt < maxRetries
       /\ delay' \in RetryDelays(hint)
       /\ pc' = "sleep"
       /\ UNCHANGED resultVars

Unanswered ==
    /\ pc = "post"
    /\ AttemptFailed("transport", Absent)
    /\ UNCHANGED <<configVars, wire, attempt, cancelled, bodyVars, streamerVars>>

\* 429 or 5xx.
Overloaded ==
    /\ pc = "post"
    /\ \E h \in Headers : AttemptFailed("overloaded", RetryAfter(h))
    /\ UNCHANGED <<configVars, wire, attempt, cancelled, bodyVars, streamerVars>>

\* Slip: a fallback that is rejected falls back again.
RejectedAgain ==
    /\ pc = "post"
    /\ wire' = "complete"
    /\ attempt' = 0
    /\ Post
    /\ UNCHANGED <<configVars, delay, cancelled, bodyVars, streamerVars>>

\* Any other 4xx: a streaming request falls back to a plain one.
Rejected ==
    /\ pc = "post"
    /\ IF wire = "stream"
       THEN wire' = "complete" /\ attempt' = 0 /\ Post
       ELSE Finish("rejected", <<>>) /\ UNCHANGED <<wire, attempt>>
    /\ UNCHANGED <<configVars, delay, cancelled, bodyVars, streamerVars>>

\* A status that is neither 2xx, 4xx nor 5xx.
Odd ==
    /\ pc = "post"
    /\ Finish("odd", <<>>)
    /\ UNCHANGED <<configVars, postVars, cancelled, bodyVars, streamerVars>>

\* 2xx: the body is returned unread.
Accepted ==
    /\ pc = "post"
    /\ pc' = "read"
    /\ UNCHANGED <<configVars, postVars, cancelled, bodyVars, streamerVars, resultVars>>

\* sleepCtx: with no delay only the context is looked at; with one, either
\* event may win when both are ready.
Wake ==
    /\ pc = "sleep"
    /\ delay > 0 \/ ~cancelled
    /\ attempt' = attempt + 1
    /\ Post
    /\ UNCHANGED <<configVars, wire, delay, cancelled, bodyVars, streamerVars>>

SleepCancelled ==
    /\ pc = "sleep"
    /\ cancelled
    /\ Finish("cancelled", <<>>)
    /\ UNCHANGED <<configVars, postVars, cancelled, bodyVars, streamerVars>>

-----------------------------------------------------------------------------
(* Reading the answer.                                                     *)

Streaming == pc = "read" /\ wire = "stream"

\* A frame with a delta.
Delta ==
    /\ Streaming
    /\ sawFrame' = TRUE
    /\ \E text \in Texts :
          /\ IsStrictPrefix(content, text)
          /\ content' = text
          /\ Hear(SubSeq(text, Len(content) + 1, Len(text)))
    /\ UNCHANGED <<pc, configVars, postVars, cancelled, ended, resultVars>>

\* A frame without one: blank, malformed, usage only, or the [DONE] frame.
OtherFrame ==
    /\ Streaming
    /\ sawFrame' = TRUE
    /\ ended' \in {ended, TRUE}
    /\ UNCHANGED <<pc, configVars, postVars, cancelled, content, streamerVars, resultVars>>

\* The body ends; nothing asks whether [DONE] was seen.
StreamEnds ==
    /\ Streaming
    /\ sawFrame
    /\ Finish("ok", content)
    /\ UNCHANGED <<configVars, postVars, cancelled, bodyVars, streamerVars>>

\* Slip: a stream that breaks is posted again.
StreamBreaksRetried ==
    /\ Streaming
    /\ IF attempt < maxRetries
       THEN pc' = "post" /\ attempt' = attempt + 1 /\ content' = <<>> /\ UNCHANGED resultVars
       ELSE Finish("broken", <<>>) /\ UNCHANGED <<attempt, content>>
    /\ UNCHANGED <<configVars, wire, delay, cancelled, sawFrame, ended, streamerVars>>

\* The scanner fails: connection, context, or a line that is too long.
StreamBreaks ==
    /\ Streaming
    /\ Finish("broken", <<>>)
    /\ UNCHANGED <<configVars, postVars, cancelled, bodyVars, streamerVars>>

\* The upstream ignored stream:true: the body is a completion, or nothing known.
PlainBody ==
    /\ Streaming
    /\ ~sawFrame
    /\ \/ \E text \in Texts : Finish("ok", text) /\ HearText(text)
       \/ Finish("broken", <<>>) /\ UNCHANGED streamerVars
    /\ UNCHANGED <<configVars, postVars, cancelled, bodyVars>>

\* Complete's decode, and Stream's trailing chunk when it fell back.
Completed ==
    /\ pc = "read"
    /\ wire = "complete"
    /\ \/ \E text \in Texts :
             /\ Finish("ok", text)
             /\ IF method = "stream" THEN HearText(text) ELSE UNCHANGED streamerVars
       \/ Finish("broken", <<>>) /\ UNCHANGED streamerVars
    /\ UNCHANGED <<configVars, postVars, cancelled, bodyVars>>

Upstream ==
    \/ Unanswered \/ Overloaded \/ Rejected \/ Odd \/ Accepted
    \/ StreamEnds \/ StreamBreaks \/ PlainBody \/ Completed

Next == Cancel \/ Upstream \/ Delta \/ OtherFrame \/ Wake \/ SleepCancelled

Spec == Init /\ [][Next]_vars

(* The HTTP client has a deadline (5 minutes, the body included), so every  *)
(* request is answered or fails, and every body ends; timers fire.          *)
Fairness == WF_vars(Upstream) /\ WF_vars(Wake \/ SleepCancelled)

FairSpec == Spec /\ Fairness

-----------------------------------------------------------------------------
\* Type invariant of the call and of the streamer.
TypeOK ==
    /\ pc \in {"post", "sleep", "read", "done"}
    /\ {method, wire} \subseteq {"stream", "complete"}
    /\ maxRetries \in Nat /\ base \in Nat \ {0}
    /\ attempt \in 0..maxRetries
    /\ delay \in 0..Cap
    /\ {cancelled, sawFrame, ended} \subseteq BOOLEAN
    /\ {content, heard, emitted, reply} \subseteq Seq(Symbols)
    /\ mode \in {"", "js", "final"}
    /\ outcome \in {"none", "ok", "transport", "overloaded", "rejected", "odd", "broken", "cancelled"}

\* The caller of Stream has been handed, chunk by chunk, exactly the text that
\* is returned: no retry, fallback or plain body repeats a piece or skips one
\* (openai.go, Config.MaxRetries: "never replays deltas the caller already saw").
ChunksAreReply ==
    IF method = "complete" THEN heard = <<>>
    ELSE outcome = "ok" => heard = reply

\* However the chunks cut it, what the user sees grow is the reply itself:
\* nothing of it is missing but leading white space and a leading DONE marker,
\* and nothing comes twice.  A reply that opens with a code fence is not shown
\* at all, and a leading marker is not shown either, as long as the fence or the
\* marker lies within the hold-back; behind more white space a cut within it
\* decides too early (streamer.go, onChunk and emitFinal).
ShownIsReply ==
    LET hidden == SubSeq(heard, 1, Len(heard) - Len(emitted))
        body == TrimLeft(heard)
        Opens(word) == IsPrefix(word, body) /\ Len(heard) - Len(body) + Len(word) <= HoldBack
    IN /\ mode = "final" => /\ heard = hidden \o emitted
                            /\ TrimLeft(hidden) \in {<<>>} \cup DoneMarks
                            /\ (\E mark \in DoneMarks : Opens(mark)) => TrimLeft(hidden) # <<>>
       /\ mode # "final" \/ Opens(Fence) => emitted = <<>>

\* No wait is longer than the cap, whatever the base, the attempt, the jitter
\* or a Retry-After asks for, and a backoff is never shorter than the base
\* (retry.go: "caps any single backoff, including one a server asks for").
BackoffBounded ==
    [][pc' = "sleep" /\ pc # "sleep" =>
          /\ delay' <= Cap
          /\ delay' < base => delay' = Cap \/ \E h \in Headers : RetryAfter(h) = delay']_vars

\* Every call returns: retries run out, a fallback is tried once, and a
\* cancelled call does not go on posting for ever.
CallReturns == <>(pc = "done")

-----------------------------------------------------------------------------
(* Claims of the repository that this code does not keep.                  *)

\* client.go, Client: Stream "still returns the full accumulated response".  A
\* body that ends without its [DONE] frame is returned as if it were complete.
FullResponse == outcome = "ok" /\ sawFrame => ended

\* streamer.go, responseStreamer: it forwards chunks "only once it's confident
\* the current iteration is a final-response turn (not a JS code-emission turn)".
\* The streamer looks at how the reply opens, the parser for a fence anywhere:
\* a reply that is run as a script is shown when prose comes before the fence.
ShowsNoScript == outcome = "ok" /\ RunsScript(reply) => emitted = <<>>
=============================================================================
