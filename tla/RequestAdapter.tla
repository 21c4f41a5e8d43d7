------------------------------ MODULE RequestAdapter ------------------------------
(***************************************************************************)
(* parse_openai_request and parse_anthropic_request (_http_adapter.py): the  *)
(* checks of a chat request in their order, the field that is reported for   *)
(* the first that fails, and the transcript of a request that passes.        *)
(*                                                                          *)
(* Of a value it matters how it fails: "absent", "bad" (its type), "blank",  *)
(* or "ok".  Messages and blocks are counted from 1.                         *)
(***************************************************************************)
EXTENDS Naturals, Sequences

CONSTANTS
    Payloads    \* JSON objects, by what is wrong with them

\* The text of a message or of "system": its blocks are there if it is a list.
TextShapes ==
    {content \in [is : {"absent", "bad", "text", "blocks"}, blocks : Seq(STRING)] :
        content.is # "blocks" => content.blocks = <<>>}
MessageShapes ==
    [object : BOOLEAN, extra : BOOLEAN, role : STRING, content : TextShapes]

ASSUME PayloadsHaveShape ==
    Payloads \subseteq
        [object : BOOLEAN, extra : BOOLEAN, system : TextShapes, model : STRING,
         messages : [is : {"bad", "list"}, items : Seq(MessageShapes)],
         stream : STRING, max_tokens : STRING]

VARIABLES
    anthropic,  \* which of the two endpoints
    payload,
    check,      \* the check it is at, or "accepted", "refused"
    index,      \* the message it is at
    messages,   \* the roles it has collected, with the message each is from
    error       \* the field it reports

adapterVars == <<anthropic, payload, check, index, messages, error>>

\* A field: its name, and the message and the block it is in, or 0.
Field(name, message, block) == [name |-> name, message |-> message, block |-> block]
NoField == Field("", 0, 0)

Items == payload.messages.items
Message(i) == Items[i]

AdapterInit ==
    /\ payload \in Payloads /\ anthropic \in BOOLEAN
    /\ check = "object" /\ index = 1 /\ messages = <<>> /\ error = NoField

Passes(next) == check' = next /\ UNCHANGED <<error>>
Refuse(field) == check' = "refused" /\ error' = field
Checks(good, field, next) == IF good THEN Passes(next) ELSE Refuse(field)

\* _parse_text_content: the first block with something wrong, or the whole.
Faulty(content) == {j \in 1 .. Len(content.blocks) : content.blocks[j] # "ok"}
FirstOf(S) == CHOOSE j \in S : \A k \in S : j <= k
Readable(content) ==
    \/ content.is = "text"
    \/ content.is = "blocks" /\ content.blocks # <<>> /\ Faulty(content) = {}
ContentFault(content, i) ==
    IF content.is = "blocks" /\ Faulty(content) # {}
    THEN Field(content.blocks[FirstOf(Faulty(content))], i, FirstOf(Faulty(content)))
    ELSE Field("content", i, 0)

-----------------------------------------------------------------------------
Same == UNCHANGED <<anthropic, payload, index, messages>>

CheckObject ==
    check = "object" /\ Checks(payload.object, Field("body", 0, 0), "fields") /\ Same

\* "system" is a field of one endpoint only.
Unknown == payload.extra \/ (~anthropic /\ payload.system.is # "absent")
CheckFields ==
    check = "fields" /\ Checks(~Unknown, Field("unknown", 0, 0), "system") /\ Same

CheckSystem ==
    /\ check = "system"
    /\ IF payload.system.is = "absent" THEN Passes("model") /\ UNCHANGED messages
       ELSE /\ Checks(Readable(payload.system), ContentFault(payload.system, 0), "model")
            /\ messages' = IF Readable(payload.system) THEN << <<"system", 0>> >> ELSE messages
    /\ UNCHANGED <<anthropic, payload, index>>

CheckModel ==
    check = "model" /\ Checks(payload.model = "ok", Field("model", 0, 0), "messages") /\ Same

CheckMessages ==
    /\ check = "messages"
    /\ Checks(payload.messages.is = "list" /\ Items # <<>>, Field("messages", 0, 0), "message")
    /\ Same

Roles == {"system", "user", "assistant"}
GoodMessage(m) == m.object /\ ~m.extra /\ m.role \in Roles /\ Readable(m.content)
MessageFault(m, i) ==
    IF ~m.object THEN Field("message", i, 0)
    ELSE IF m.extra THEN Field("unknown", i, 0)
    ELSE IF m.role \notin Roles THEN Field("role", i, 0)
    ELSE ContentFault(m.content, i)

CheckMessage ==
    /\ check = "message" /\ index <= Len(Items)
    /\ Checks(GoodMessage(Message(index)), MessageFault(Message(index), index), "message")
    /\ IF GoodMessage(Message(index))
       THEN messages' = Append(messages, <<Message(index).role, index>>) /\ index' = index + 1
       ELSE UNCHANGED <<messages, index>>
    /\ UNCHANGED <<anthropic, payload>>

\* The index is that of the request, not of what has been collected.
CollectedIndex == Len(messages)         \* mutation: the system text counts
LastIndex == Len(Items)

CheckLast ==
    /\ check = "message" /\ index > Len(Items)
    /\ Checks(messages[Len(messages)][1] = "user", Field("role", LastIndex, 0), "stream")
    /\ Same

CheckStream ==
    check = "stream" /\ Checks(payload.stream # "bad", Field("stream", 0, 0), "max_tokens") /\ Same

CheckMaxTokens ==
    /\ check = "max_tokens"
    /\ Checks(payload.max_tokens # "bad", Field("max_tokens", 0, 0), "accepted")
    /\ Same

AdapterNext ==
    \/ CheckObject \/ CheckFields \/ CheckSystem \/ CheckModel \/ CheckMessages
    \/ CheckMessage \/ CheckLast \/ CheckStream \/ CheckMaxTokens

AdapterSpec == AdapterInit /\ [][AdapterNext]_adapterVars

-----------------------------------------------------------------------------
(* What may be said of a request, in any order.                             *)

TextFaults(content, i) ==
    {Field(content.blocks[j], i, j) : j \in Faulty(content)}
        \cup {f \in {Field("content", i, 0)} :
                 content.is \in {"absent", "bad"} \/ content = [is |-> "blocks", blocks |-> <<>>]}

MessageFaults(i) ==
    IF ~Message(i).object THEN {Field("message", i, 0)}
    ELSE LET roles == IF i = Len(Items) THEN {"user"} ELSE Roles
         IN  TextFaults(Message(i).content, i)
             \cup {f \in {Field("unknown", i, 0)} : Message(i).extra}
             \cup {f \in {Field("role", i, 0)} : Message(i).role \notin roles}

Faults ==
    IF ~payload.object THEN {Field("body", 0, 0)}
    ELSE {f \in {Field("model", 0, 0)} : payload.model # "ok"}
         \cup {f \in {Field("stream", 0, 0)} : payload.stream = "bad"}
         \cup {f \in {Field("max_tokens", 0, 0)} : payload.max_tokens = "bad"}
         \cup {f \in {Field("unknown", 0, 0)} : Unknown}
         \cup (IF anthropic /\ payload.system.is # "absent" THEN TextFaults(payload.system, 0) ELSE {})
         \cup (IF payload.messages.is = "list" /\ Items # <<>>
               THEN UNION {MessageFaults(i) : i \in 1 .. Len(Items)}
               ELSE {Field("messages", 0, 0)})

\* A request is accepted exactly if nothing is wrong with it; the field that is
\* reported otherwise, with its position in the request that was sent, is one
\* with something wrong, although the Anthropic system text is put in front of
\* the messages while they are read.  The transcript of an accepted request is
\* the system text and every message once, in order.
ErrorNamesOffender ==
    /\ check = "refused" => error \in Faults
    /\ check = "accepted" =>
          /\ Faults = {}
          /\ messages = (IF payload.system.is = "absent" THEN <<>> ELSE << <<"system", 0>> >>)
                            \o [i \in 1 .. Len(Items) |-> <<Message(i).role, i>>]
=============================================================================
