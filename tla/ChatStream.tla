------------------------------- MODULE ChatStream -------------------------------
(***************************************************************************)
(* One streamed chat: AssistantClient.chat (core/client.py) reads chunks    *)
(* from an httpx response into the decoder of EventStream and yields        *)
(* StreamEvents; the generators of _openai_stream_response and              *)
(* _anthropic_stream_response (service/server.py) turn them into            *)
(* server-sent events, which the WSGI server pulls one at a time until the  *)
(* HTTP client leaves or the generator returns.  One thread runs it all;    *)
(* chunking, upstream failures and the client's leaving are the inputs.     *)
(***************************************************************************)
EXTENDS EventStream, FiniteSets

VARIABLES
    provider,   \* "openai" or "anthropic"
    chat,       \* the chat generator
    conn,       \* the upstream HTTP response: "none", "open" or "closed"
    handled,    \* frames the loop over feed()'s result has gone through
    sse,        \* the SSE generator
    failure,    \* its variable of that name is not None
    out         \* the server-sent events so far, a text with its frame

streamVars == <<provider, chat, conn, handled, sse, failure, out>>
vars == <<decoderVars, streamVars>>

Emit(event) == out' = Append(out, <<event, 0>>)
EmitText(k) == out' = Append(out, <<"text", k>>)

Init ==
    /\ DecoderInit
    /\ provider \in {"openai", "anthropic"}
    /\ chat = "none" /\ conn = "none" /\ handled = 0
    /\ sse = "begin" /\ failure = FALSE /\ out = <<>>

-----------------------------------------------------------------------------
(* The chat generator, which runs while the SSE generator waits for it.      *)

ChatGoes(from, to) == sse = "pull" /\ chat = from /\ chat' = to

\* An exception leaves the `with` block and ends the generator; the SSE
\* generator catches it.
ChatFails(from) ==
    /\ ChatGoes(from, "dead")
    /\ conn' = IF conn = "open" THEN "closed" ELSE conn
    /\ sse' = "close" /\ failure' = TRUE
    /\ UNCHANGED <<provider, handled, out>>

\* Not authenticated, or the request fails; then the status.
Request ==
    /\ \/ ChatFails("created")
       \/ /\ ChatGoes("created", "status") /\ conn' = "open"
          /\ UNCHANGED <<provider, handled, sse, failure, out>>
    /\ UNCHANGED decoderVars

Status ==
    /\ \/ ChatFails("status")       \* any status but 200
       \/ /\ ChatGoes("status", "chunk")
          /\ UNCHANGED <<provider, conn, handled, sse, failure, out>>
    /\ UNCHANGED decoderVars

\* iter_bytes() yields a chunk: decoder.feed(chunk), or its StreamError.
Chunk ==
    \E n \in 1 .. (size - fed) :
        \/ /\ Feed(n, FALSE) /\ ChatGoes("chunk", "frames")
           /\ UNCHANGED <<provider, conn, handled, sse, failure, out>>
        \/ Feed(n, TRUE) /\ ChatFails("chunk")

\* The connection breaks.
ChunkFails == ChatFails("chunk") /\ UNCHANGED decoderVars

\* The response ends with the `with` block; "end" is yielded outside it.
Ended(from) ==
    /\ ChatGoes(from, "end") /\ conn' = "closed"
    /\ UNCHANGED <<provider, handled, sse, failure, out>>

EndUnchecked == UNCHANGED decoderVars /\ Ended("chunk")   \* mutation: no finalize
EndChecked ==
    \/ Finalize(FALSE) /\ Ended("chunk")
    \/ Finalize(TRUE) /\ ChatFails("chunk")

BodyEnds == fed = size /\ EndChecked

\* for message_frame in decoder.feed(chunk)
Frame == wire[handled + 1].kind
MoreFrames == handled < taken

FramesDone ==
    /\ ~MoreFrames /\ ChatGoes("frames", "chunk")
    /\ UNCHANGED <<decoderVars, provider, conn, handled, sse, failure, out>>

BadFrame ==
    /\ MoreFrames /\ Frame \in {"not_object", "not_string"}
    /\ ChatFails("frames")
    /\ UNCHANGED decoderVars

TerminalFrame ==
    /\ MoreFrames /\ Frame = "terminal"
    /\ \/ Finalize(FALSE) /\ Ended("frames")
       \/ Finalize(TRUE) /\ ChatFails("frames")

\* A StreamEvent is yielded; the SSE generator passes texts on and skips the
\* rest (`if not event.content: continue`).
EventFrame ==
    /\ MoreFrames /\ Frame \in {"content", "empty", "other"}
    /\ ChatGoes("frames", "frames")
    /\ handled' = handled + 1
    /\ IF Frame = "content" THEN sse' = "yield" /\ EmitText(handled + 1)
                            ELSE UNCHANGED <<sse, out>>
    /\ UNCHANGED <<decoderVars, provider, conn, failure>>

\* The final event: `if event.done: break`.
EndEvent ==
    /\ ChatGoes("end", "end") /\ sse' = "close"
    /\ UNCHANGED <<decoderVars, provider, conn, handled, failure, out>>

ChatStep ==
    \/ Request \/ Status \/ Chunk \/ ChunkFails \/ BodyEnds \/ FramesDone
    \/ BadFrame \/ TerminalFrame \/ EventFrame \/ EndEvent

-----------------------------------------------------------------------------
(* The SSE generators.  "yield" labels are where the client can leave.      *)

SseGoes(from, to) == sse = from /\ sse' = to
SseOnly == UNCHANGED <<decoderVars, provider, chat, conn, handled, failure>>

\* upstream = client.chat(...), at once or after the two opening events.
CreateUpstream(from) ==
    /\ SseGoes(from, "pull") /\ chat' = "created"
    /\ UNCHANGED <<decoderVars, provider, conn, handled, failure, out>>

OpenStream ==
    \/ provider = "openai" /\ CreateUpstream("begin")
    \/ /\ provider = "anthropic"
       /\ \/ SseGoes("begin", "yield_start") /\ Emit("message_start") /\ SseOnly
          \/ SseGoes("yield_start", "yield_block") /\ Emit("block_start") /\ SseOnly
          \/ CreateUpstream("yield_block")

\* The WSGI server asks for the next event.
Resume == SseGoes("yield", "pull") /\ SseOnly /\ UNCHANGED out

\* _close_upstream: generator.close() raises GeneratorExit where the chat
\* generator is suspended, so a `with` block it is in closes the response.
NotClosed == UNCHANGED <<chat, conn>>   \* mutation: _close_upstream is not called
UpstreamClosed ==
    /\ chat' = IF chat = "none" THEN "none" ELSE "dead"
    /\ conn' = IF conn = "open" THEN "closed" ELSE conn

Close ==
    /\ SseGoes("close", "verdict") /\ UpstreamClosed
    /\ UNCHANGED <<decoderVars, provider, handled, failure, out>>

\* After the try statement: the verdict.
FallsThrough == "message_delta"   \* mutation: the error branch does not return
AfterError == "over"

Verdict ==
    /\ SseOnly
    /\ \/ /\ provider = "openai"
          /\ \/ SseGoes("verdict", "done") /\ Emit(IF failure THEN "error" ELSE "finish")
             \/ SseGoes("done", "over") /\ Emit("[DONE]")
       \/ /\ provider = "anthropic"
          /\ \/ failure /\ SseGoes("verdict", AfterError) /\ Emit("error")
             \/ ~failure /\ SseGoes("verdict", "message_delta") /\ Emit("block_stop")
             \/ SseGoes("message_delta", "message_stop") /\ Emit("message_delta")
             \/ SseGoes("message_stop", "over") /\ Emit("message_stop")

\* The HTTP client is gone: the WSGI server closes the SSE generator.
Leave ==
    /\ sse \notin {"pull", "close", "over", "gone"} /\ sse' = "gone"
    /\ UpstreamClosed
    /\ UNCHANGED <<decoderVars, provider, handled, failure, out>>

SseStep == OpenStream \/ Resume \/ Close \/ Verdict \/ Leave

Finished == sse \in {"over", "gone"} /\ UNCHANGED vars

Next == ChatStep \/ SseStep \/ Finished

Spec == Init /\ [][Next]_vars

-----------------------------------------------------------------------------
Verdicts == {"error", "finish", "block_stop"}
Named(events) == {i \in 1 .. Len(out) : out[i][1] \in events}

\* Every variable keeps to its type.
TypeOK ==
    /\ wire \in Seq(Frames) /\ Len(wire) <= MaxFrames
    /\ size \in Nat /\ fed \in 0 .. size
    /\ taken \in 0 .. Len(wire) /\ EndOf(wire, taken) <= fed
    /\ finalized \in BOOLEAN /\ failure \in BOOLEAN
    /\ provider \in {"openai", "anthropic"}
    /\ chat \in {"none", "created", "status", "chunk", "frames", "end", "dead"}
    /\ conn \in {"none", "open", "closed"}
    /\ handled \in 0 .. taken
    /\ sse \in {"begin", "yield_start", "yield_block", "pull", "yield", "close",
                "verdict", "done", "message_delta", "message_stop", "over",
                "gone"}
    /\ out \in Seq((Verdicts \cup {"text", "message_start", "block_start",
                    "[DONE]", "message_delta", "message_stop"}) \X (0 .. MaxFrames))

\* What may follow what in the two protocols; "" is the start.
Follows ==
    IF provider = "openai"
    THEN {"", "text"} \X {"text", "finish", "error"}
         \cup {"finish", "error"} \X {"[DONE]"}
    ELSE {<<"", "message_start">>, <<"message_start", "block_start">>}
         \cup {"block_start", "text"} \X {"text", "block_stop", "error"}
         \cup {<<"block_stop", "message_delta">>, <<"message_delta", "message_stop">>}
Last == IF provider = "openai" THEN {"[DONE]"} ELSE {"error", "message_stop"}

\* A client that knows the protocol can parse the stream at any moment, and a
\* stream that was not abandoned ends with the event that says so, whatever
\* upstream sent and wherever it failed.
WellFormed ==
    /\ \A i \in 1 .. Len(out) :
          <<IF i = 1 THEN "" ELSE out[i - 1][1], out[i][1]>> \in Follows
    /\ sse = "over" => out[Len(out)][1] \in Last

\* The upstream response is released before the client is told how the answer
\* ended, and when the client leaves in the middle of it.
ReleasedBeforeVerdict ==
    conn = "open" => Named(Verdicts) = {} /\ sse \notin {"over", "gone"}

\* The frame that ends the answer: the first that is not an ordinary event.
AnswerEnd ==
    CHOOSE k \in 1 .. Len(wire) + 1 :
        /\ \A j \in 1 .. (k - 1) : wire[j].kind \in {"content", "empty", "other"}
        /\ k <= Len(wire) => wire[k].kind \notin {"content", "empty", "other"}

\* f[1], ..., f[n] without those whose index is not in S.
InOrder(f, S, n) ==
    LET chosen[k \in 0 .. n] ==
            IF k = 0 THEN <<>>
            ELSE IF k \in S THEN Append(chosen[k - 1], f[k]) ELSE chosen[k - 1]
    IN  chosen[n]

FramesWithText == {k \in 1 .. Len(wire) : wire[k].kind = "content"}

Texts == InOrder([k \in 1 .. Len(wire) |-> k], FramesWithText, AnswerEnd - 1)
WholeAnswer ==
    IF AnswerEnd <= Len(wire)
    THEN wire[AnswerEnd].kind = "terminal" /\ size >= EndOf(wire, AnswerEnd)
    ELSE size = EndOf(wire, Len(wire))
Relayed == InOrder([i \in 1 .. Len(out) |-> out[i][2]], Named({"text"}), Len(out))
VerdictSent ==
    CASE sse = "gone" -> "gone"
      [] sse # "gone" /\ Named({"error"}) # {} -> "error"
      [] sse # "gone" /\ Named(Verdicts) = {} -> "none"
      [] OTHER -> "complete"

\* The stream is a Relay of the texts before that frame, however the bytes are
\* cut into chunks: none is lost, repeated or reordered, and an answer that was
\* cut short or corrupted is never called complete.
Answer == INSTANCE Relay WITH
    texts <- Texts, complete <- WholeAnswer, relayed <- Relayed, verdict <- VerdictSent
RelaySpec == Answer!Spec
=============================================================================
