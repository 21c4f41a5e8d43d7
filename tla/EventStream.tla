------------------------------ MODULE EventStream ------------------------------
(***************************************************************************)
(* EventStreamDecoder (core/eventstream.py): bytes of the AWS EventStream   *)
(* protocol arrive in chunks that know nothing of frames; feed() returns    *)
(* the frames that are complete and raises StreamError at the first bad     *)
(* one, finalize() refuses what is left over.                               *)
(*                                                                          *)
(* A frame is its length and what is special about it.  The buffer holds    *)
(* the bytes from the end of the last frame taken to the last byte fed, so  *)
(* two counters stand for it.                                               *)
(***************************************************************************)
EXTENDS Naturals, Sequences

CONSTANTS
    PreludeSize,  \* the two lengths and their CRC, in units of bytes
    Lengths,      \* total lengths of frames; the shortest has no header and
                  \* no body
    MaxFrames     \* bound on the frames of one response

ASSUME Sizes ==
    /\ PreludeSize \in Nat \ {0} /\ MaxFrames \in Nat
    /\ \A n \in Lengths : n \in Nat /\ n > PreludeSize

\* Frames feed() refuses: on the prelude alone, or once they are complete.
PreludeFaults == {"bad_lengths", "bad_prelude_crc"}
FrameFaults   == {"bad_message_crc", "bad_headers"}

\* Frames it returns, by what AssistantClient.chat makes of them.
GoodKinds == {"content",      \* assistantResponseEvent with text
              "empty",        \* ... with the empty string
              "terminal",     \* ... without content
              "not_string",   \* ... with content of another type
              "not_object",   \* the body is not a JSON object
              "other"}        \* any other event type
Kinds  == PreludeFaults \cup FrameFaults \cup GoodKinds
Frames == [kind : Kinds, length : Lengths]

VARIABLES
    wire,       \* the frames upstream sends
    size,       \* how many bytes of them it sends before it ends the body
    fed,        \* how many feed() has got
    taken,      \* how many frames were deleted from the front of _buffer
    finalized   \* EventStreamDecoder._finalized

decoderVars == <<wire, size, fed, taken, finalized>>

\* Where frame k of a sequence of frames ends, and where it starts.
EndOf(frames, k) ==
    LET end[j \in 0 .. k] == IF j = 0 THEN 0 ELSE end[j - 1] + frames[j].length
    IN  end[k]
StartOf(frames, k) == EndOf(frames, k - 1)

\* A body may be cut anywhere in its last frame.
DecoderInit ==
    /\ \E n \in 0 .. MaxFrames : wire \in [1 .. n -> Frames]
    /\ size \in 0 .. EndOf(wire, Len(wire))
    /\ wire # <<>> => size > StartOf(wire, Len(wire))
    /\ fed = 0 /\ taken = 0 /\ finalized = FALSE

Buffered == fed - EndOf(wire, taken)

\* What feed() sees of frame k when n bytes have arrived.
PreludeArrived(k, n) == n >= StartOf(wire, k) + PreludeSize
PreludeIsEnough(k, n) == PreludeArrived(k, n)   \* mutation: no wait for the rest
FrameArrived(k, n)   == n >= EndOf(wire, k)

Refused(k, n) ==
    PreludeArrived(k, n) /\
    \/ wire[k].kind \in PreludeFaults
    \/ FrameArrived(k, n) /\ wire[k].kind \in FrameFaults

\* The loop of feed() takes the longest run of complete frames that are not
\* refused, and raises if the frame after them is.
Decodes(n, last) ==
    /\ last \in taken .. Len(wire)
    /\ \A k \in (taken + 1) .. last : FrameArrived(k, n) /\ ~Refused(k, n)
    /\ last < Len(wire) => ~FrameArrived(last + 1, n) \/ Refused(last + 1, n)
Raises(n, last) == last < Len(wire) /\ Refused(last + 1, n)

\* feed(): either way the frames in front have left the buffer; only when it
\* does not raise does the caller get them.
Feed(chunk, raised) ==
    /\ ~finalized
    /\ fed' = fed + chunk
    /\ \E last \in taken .. Len(wire) :
          /\ Decodes(fed', last)
          /\ taken' = last
          /\ raised = Raises(fed', last)
    /\ UNCHANGED <<wire, size, finalized>>

\* finalize(): raises on what is left, the first time it is called.
Finalize(raised) ==
    /\ raised = (~finalized /\ Buffered > 0)
    /\ finalized' = TRUE
    /\ UNCHANGED <<wire, size, fed, taken>>
=============================================================================
