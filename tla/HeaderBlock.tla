------------------------------ MODULE HeaderBlock ------------------------------
(***************************************************************************)
(* _read_headers (core/eventstream.py): the loop that takes the header block *)
(* of an EventStream frame apart.  The block is what lies before blockEnd;   *)
(* the bytes behind it, the payload, are in the same buffer.  Of a name and  *)
(* of a string value it matters whether they are UTF-8, of a name also how   *)
(* many colons are in front; a value is known by where it begins and its type. *)
(***************************************************************************)
EXTENDS Naturals, Sequences

CONSTANTS
    Bytes,      \* values of a byte
    MaxBytes,   \* bound on the length of a buffer
    MaxBehind,  \* bound on its bytes behind the block
    Colon,      \* the byte of ":"
    Invalid     \* bytes that no UTF-8 text holds

ASSUME BytesAreNumbers == Bytes \subseteq Nat

Buffers == UNION {[1 .. n -> Bytes] : n \in 0 .. MaxBytes}

VARIABLES
    buffer,     \* data
    blockEnd,   \* offset + length
    pos,        \* position
    part,       \* what it reads next: "name", "type", "value", or "done", "error"
    name, type, \* of the header it is in
    headers     \* what it returns

headerVars == <<buffer, blockEnd, pos, part, name, type, headers>>

Byte(p) == buffer[p + 1]
Range(from, size) == SubSeq(buffer, from + 1, from + size)
Utf8(text) == \A i \in 1 .. Len(text) : text[i] \notin Invalid

\* lstrip(":")
Leading(text) == {n \in 0 .. Len(text) : \A i \in 1 .. n : text[i] = Colon}
Stripped(text) ==
    LET colons == CHOOSE n \in Leading(text) : \A m \in Leading(text) : m <= n
    IN  SubSeq(text, colons + 1, Len(text))

\* _require_header_bytes; the mutation compares with the buffer.
FitsBuffer(p, size) == p + size <= Len(buffer)
Fits(p, size) == p + size <= blockEnd

\* The bytes of a value, without the two of a length: Boolean values have none.
Fixed == [t \in {0, 1, 2, 3, 4, 5, 8, 9} |->
            CASE t \in {0, 1} -> 0 [] t = 2 -> 1 [] t = 3 -> 2 [] t = 4 -> 4
              [] t \in {5, 8} -> 8 [] t = 9 -> 16]
Counted == {6, 7}
String == 7
Types == DOMAIN Fixed \cup Counted

Length16(p) == 256 * Byte(p) + Byte(p + 1)

HeaderInit ==
    /\ buffer \in Buffers
    /\ blockEnd \in {e \in 0 .. Len(buffer) : Len(buffer) - e <= MaxBehind}
    /\ pos = 0 /\ part = "name" /\ name = <<>> /\ type = 0
    /\ headers = <<>>

Raise == part' = "error" /\ UNCHANGED <<pos, name, type, headers>>

ReadName ==
    /\ part = "name" /\ pos < blockEnd
    /\ LET length == Byte(pos)
           good == length # 0 /\ Fits(pos + 1, length)
       IN  IF good /\ Utf8(Range(pos + 1, length)) /\ Stripped(Range(pos + 1, length)) # <<>>
           THEN /\ name' = Stripped(Range(pos + 1, length))
                /\ pos' = pos + 1 + length /\ part' = "type"
                /\ UNCHANGED <<type, headers>>
           ELSE Raise
    /\ UNCHANGED <<buffer, blockEnd>>

ReadType ==
    /\ part = "type"
    /\ IF Fits(pos, 1) /\ Byte(pos) \in Types
       THEN /\ type' = Byte(pos) /\ pos' = pos + 1 /\ part' = "value"
            /\ UNCHANGED <<name, headers>>
       ELSE Raise
    /\ UNCHANGED <<buffer, blockEnd>>

Take(from, size) ==
    /\ headers' = [n \in DOMAIN headers \cup {name} |->
                      IF n = name THEN <<type, from, size>> ELSE headers[n]]
    /\ pos' = from + size /\ part' = "name"
    /\ UNCHANGED <<name, type>>

ReadFixed ==
    /\ part = "value" /\ type \in DOMAIN Fixed
    /\ IF Fits(pos, Fixed[type]) THEN Take(pos, Fixed[type]) ELSE Raise
    /\ UNCHANGED <<buffer, blockEnd>>

ReadCounted ==
    /\ part = "value" /\ type \in Counted
    /\ IF /\ Fits(pos, 2) /\ Fits(pos + 2, Length16(pos))
          /\ type = String => Utf8(Range(pos + 2, Length16(pos)))
       THEN Take(pos + 2, Length16(pos))
       ELSE Raise
    /\ UNCHANGED <<buffer, blockEnd>>

ReadEnd ==
    /\ part = "name" /\ pos >= blockEnd /\ part' = "done"
    /\ UNCHANGED <<buffer, blockEnd, pos, name, type, headers>>

HeaderNext == ReadName \/ ReadType \/ ReadFixed \/ ReadCounted \/ ReadEnd

HeaderSpec == HeaderInit /\ [][HeaderNext]_headerVars

-----------------------------------------------------------------------------
(* The same without a loop: how bytes a to b are one header, and a block     *)
(* several.                                                                  *)

NameSize(a) == Byte(a)
TypeAt(a) == Byte(a + 1 + NameSize(a))
ValueAt(a) == a + 2 + NameSize(a)

IsHeader(a, b) ==
    /\ a < b /\ b >= ValueAt(a)
    /\ LET text == Range(a + 1, NameSize(a))
       IN  Utf8(text) /\ \E i \in 1 .. Len(text) : text[i] # Colon
    /\ \/ TypeAt(a) \in DOMAIN Fixed /\ b = ValueAt(a) + Fixed[TypeAt(a)]
       \/ /\ TypeAt(a) \in Counted /\ b >= ValueAt(a) + 2
          /\ b = ValueAt(a) + 2 + Length16(ValueAt(a))
          /\ TypeAt(a) = String => Utf8(Range(ValueAt(a) + 2, b - ValueAt(a) - 2))

Next2(cuts, a) == CHOOSE b \in cuts : b > a /\ \A c \in cuts : c > a => b <= c
Cuts == {cuts \in SUBSET (0 .. blockEnd) :
            /\ {0, blockEnd} \subseteq cuts
            /\ \A a \in cuts \ {blockEnd} : IsHeader(a, Next2(cuts, a))}

\* A block is accepted exactly if it can be cut into headers, whatever bytes
\* follow it; every header's value lies inside the block, and of several
\* headers that have a name, colons aside, the last one counts.
HeadersExact ==
    /\ part = "error" => Cuts = {}
    /\ part = "done" => \E cuts \in Cuts :
          LET starts == cuts \ {blockEnd}
              key(a) == Stripped(Range(a + 1, NameSize(a)))
          IN  /\ DOMAIN headers = {key(a) : a \in starts}
              /\ \A a \in starts :
                    (\A b \in starts : b > a => key(b) # key(a)) =>
                        headers[key(a)][1] = TypeAt(a)
                        /\ headers[key(a)][2] + headers[key(a)][3] = Next2(cuts, a)
=============================================================================
