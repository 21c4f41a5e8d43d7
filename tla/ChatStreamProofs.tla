--------------------------- MODULE ChatStreamProofs ---------------------------
(***************************************************************************)
(* Theorems about ChatStream for answers of any length, frames of any size, *)
(* every chunking and every failure: the stream is well-formed, the         *)
(* upstream response is released before the verdict, and the HTTP client    *)
(* gets what Relay promises.                                                *)
(***************************************************************************)
EXTENDS ChatStream, TLAPS, WellFoundedInduction

-----------------------------------------------------------------------------
(* Induction, by the least counterexample.                                  *)

\* A set of natural numbers has a least one.
LEMMA Least ==
    ASSUME NEW S \in SUBSET Nat, S # {}
    PROVE  \E n \in S : \A m \in S : n <= m
<1> DEFINE Less == {p \in Nat \X Nat : p[1] < p[2]}
<1>1. IsWellFoundedOn(Less, Nat)
  BY NatLessThanWellFounded DEF OpToRel
<1>2. \A m, n \in Nat : m < n => <<m, n>> \in Less
  OBVIOUS
<1> HIDE DEF Less
<1>3. PICK n \in S : \A m \in S : <<m, n>> \notin Less
  BY <1>1, WFMin, Zenon
<1>4. ASSUME NEW m \in S PROVE n <= m
  <2>1. m \in Nat /\ n \in Nat /\ ~(m < n)
    BY <1>2, <1>3
  <2> QED
    BY <2>1
<1> QED
  BY <1>4

-----------------------------------------------------------------------------
(* What the recursive functions compute.                                    *)

\* The functions inside EndOf and InOrder, by the equations that define them.
AreEnds(end, frames, n) ==
    end = [j \in 0 .. n |-> IF j = 0 THEN 0 ELSE end[j - 1] + frames[j].length]
Ends(frames, n) == CHOOSE end : AreEnds(end, frames, n)

\* There is such a function for every number of frames.
LEMMA EndsExist ==
    ASSUME NEW frames, NEW n \in Nat
    PROVE  AreEnds(Ends(frames, n), frames, n) /\ EndOf(frames, n) = Ends(frames, n)[n]
<1>1. \E end : AreEnds(end, frames, n)
  <2> DEFINE Bad == {m \in Nat : ~\E end : AreEnds(end, frames, m)}
  <2>1. SUFFICES ASSUME Bad # {} PROVE FALSE
    OBVIOUS
  <2>2. PICK m \in Bad : \A k \in Bad : m <= k
    BY <2>1, Least
  <2>3. m # 0
    <3> DEFINE zero == [j \in 0 .. 0 |-> 0]
    <3>1. AreEnds(zero, frames, 0)
      BY DEF AreEnds
    <3> QED
      BY <3>1
  <2>4. PICK end : AreEnds(end, frames, m - 1)
    BY <2>2, <2>3
  <2> DEFINE more == [j \in 0 .. m |-> IF j < m THEN end[j]
                                       ELSE end[m - 1] + frames[m].length]
  <2>5. AreEnds(more, frames, m)
    BY <2>3, <2>4 DEF AreEnds
  <2> QED
    BY <2>2, <2>5
<1>2. AreEnds(Ends(frames, n), frames, n)
  BY <1>1, Zenon DEF Ends
<1> QED
  BY <1>2 DEF EndOf, Ends, AreEnds

\* Two such functions agree on the frames both know.
LEMMA EndsAgree ==
    ASSUME NEW frames, NEW m \in Nat, NEW n \in Nat, m <= n,
           NEW d, AreEnds(d, frames, m), NEW e, AreEnds(e, frames, n)
    PROVE  \A j \in 0 .. m : d[j] = e[j]
<1> DEFINE Bad == {j \in 0 .. m : d[j] # e[j]}
<1>1. SUFFICES ASSUME Bad # {} PROVE FALSE
  OBVIOUS
<1>2. Bad \in SUBSET Nat
  OBVIOUS
<1> HIDE DEF Bad
<1>3. PICK j \in Bad : \A k \in Bad : j <= k
  BY <1>1, <1>2, Least
<1> USE DEF Bad
<1>4. j = 0 \/ (j - 1 \in 0 .. m /\ d[j - 1] = e[j - 1])
  BY <1>3
<1>5. d[j] = e[j]
  BY <1>4 DEF AreEnds
<1> QED
  BY <1>3, <1>5

\* Frames lie one behind the other.
LEMMA EndOfNext ==
    ASSUME NEW frames, NEW n \in Nat
    PROVE  /\ EndOf(frames, 0) = 0
           /\ EndOf(frames, n + 1) = EndOf(frames, n) + frames[n + 1].length
<1>1. EndOf(frames, 0) = 0
  BY EndsExist DEF AreEnds
<1>2. \A j \in 0 .. n : Ends(frames, n)[j] = Ends(frames, n + 1)[j]
  BY EndsExist, EndsAgree
<1>3. Ends(frames, n + 1)[n + 1] = Ends(frames, n + 1)[n] + frames[n + 1].length
  BY EndsExist DEF AreEnds
<1> QED
  BY <1>1, <1>2, <1>3, EndsExist

\* In a response frames have lengths, so their ends are numbers that grow.
LEMMA EndsGrow ==
    ASSUME NEW frames \in Seq(Frames)
    PROVE  /\ \A n \in 0 .. Len(frames) : EndOf(frames, n) \in Nat
           /\ \A m, n \in 0 .. Len(frames) : m < n => EndOf(frames, m) < EndOf(frames, n)
<1>1. ASSUME NEW n \in 1 .. Len(frames) PROVE frames[n].length \in Nat \ {0}
  <2>1. frames[n].length \in Lengths
    <3>1. frames[n] \in Frames
      OBVIOUS
    <3> QED
      BY <3>1 DEF Frames
  <2> QED
    BY <2>1, Sizes
<1>2. ASSUME NEW n \in 0 .. Len(frames), n # 0
      PROVE  /\ n - 1 \in 0 .. Len(frames) /\ n \in 1 .. Len(frames)
             /\ EndOf(frames, n) = EndOf(frames, n - 1) + frames[n].length
  <2>1. n - 1 \in Nat /\ (n - 1) + 1 = n
    BY <1>2
  <2>2. EndOf(frames, (n - 1) + 1) = EndOf(frames, n - 1) + frames[(n - 1) + 1].length
    BY <2>1, EndOfNext
  <2> QED
    BY <1>2, <2>1, <2>2
<1>3. \A n \in 0 .. Len(frames) : EndOf(frames, n) \in Nat
  <2> DEFINE Bad == {n \in 0 .. Len(frames) : EndOf(frames, n) \notin Nat}
  <2>1. SUFFICES ASSUME Bad # {} PROVE FALSE
    OBVIOUS
  <2>2. Bad \in SUBSET Nat
    OBVIOUS
  <2> HIDE DEF Bad
  <2>3. PICK n \in Bad : \A k \in Bad : n <= k
    BY <2>1, <2>2, Least
  <2> USE DEF Bad
  <2>4. n # 0
    BY <2>3, EndOfNext
  <2>5. EndOf(frames, n - 1) \in Nat
    BY <1>2, <2>3, <2>4
  <2> QED
    BY <1>1, <1>2, <2>3, <2>4, <2>5
<1>4. ASSUME NEW m \in 0 .. Len(frames)
      PROVE  \A n \in 0 .. Len(frames) : m < n => EndOf(frames, m) < EndOf(frames, n)
  <2> DEFINE Bad == {n \in 0 .. Len(frames) : m < n /\ ~(EndOf(frames, m) < EndOf(frames, n))}
  <2>1. SUFFICES ASSUME Bad # {} PROVE FALSE
    OBVIOUS
  <2>2. Bad \in SUBSET Nat
    OBVIOUS
  <2> HIDE DEF Bad
  <2>3. PICK n \in Bad : \A k \in Bad : n <= k
    BY <2>1, <2>2, Least
  <2> USE DEF Bad
  <2>4. n # 0 /\ n \in 0 .. Len(frames)
    BY <2>3
  <2>5. m < n /\ n - 1 \in 0 .. Len(frames) /\ n - 1 < n /\ n \in Nat
    BY <1>2, <2>3, <2>4
  <2>6. EndOf(frames, n) = EndOf(frames, n - 1) + frames[n].length
        /\ frames[n].length \in Nat \ {0}
    BY <1>1, <1>2, <2>4
  <2>7. EndOf(frames, n - 1) \in Nat /\ EndOf(frames, m) \in Nat
    BY <1>3, <2>5
  <2>8. EndOf(frames, m) <= EndOf(frames, n - 1)
    <3>1. CASE m = n - 1
      BY <2>7, <3>1
    <3>2. CASE m < n - 1
      <4>1. n - 1 \notin Bad
        <5> HIDE DEF Bad
        <5> QED
          BY <2>3, <2>5
      <4>2. EndOf(frames, m) < EndOf(frames, n - 1)
        BY <2>5, <3>2, <4>1
      <4> QED
        BY <2>7, <4>2
    <3> QED
      BY <2>5, <3>1, <3>2
  <2>9. EndOf(frames, m) < EndOf(frames, n)
    BY <2>6, <2>7, <2>8
  <2> QED
    BY <2>3, <2>9
<1> QED
  BY <1>3, <1>4

AreChosen(chosen, f, S, n) ==
    chosen = [k \in 0 .. n |->
                IF k = 0 THEN <<>>
                ELSE IF k \in S THEN Append(chosen[k - 1], f[k]) ELSE chosen[k - 1]]
Chosen(f, S, n) == CHOOSE chosen : AreChosen(chosen, f, S, n)

\* There is such a function for every length.
LEMMA ChosenExist ==
    ASSUME NEW f, NEW S, NEW n \in Nat
    PROVE  AreChosen(Chosen(f, S, n), f, S, n) /\ InOrder(f, S, n) = Chosen(f, S, n)[n]
<1>1. \E chosen : AreChosen(chosen, f, S, n)
  <2> DEFINE Bad == {m \in Nat : ~\E chosen : AreChosen(chosen, f, S, m)}
  <2>1. SUFFICES ASSUME Bad # {} PROVE FALSE
    OBVIOUS
  <2>2. PICK m \in Bad : \A k \in Bad : m <= k
    BY <2>1, Least
  <2>3. m # 0
    <3> DEFINE zero == [j \in 0 .. 0 |-> <<>>]
    <3>1. AreChosen(zero, f, S, 0)
      BY DEF AreChosen
    <3> QED
      BY <3>1
  <2>4. PICK chosen : AreChosen(chosen, f, S, m - 1)
    BY <2>2, <2>3
  <2> DEFINE more == [j \in 0 .. m |->
                        IF j < m THEN chosen[j]
                        ELSE IF m \in S THEN Append(chosen[m - 1], f[m]) ELSE chosen[m - 1]]
  <2>5. ASSUME NEW k \in 0 .. m
        PROVE  more[k] = IF k = 0 THEN <<>>
                         ELSE IF k \in S THEN Append(more[k - 1], f[k]) ELSE more[k - 1]
    <3>1. m \in Nat \ {0}
      BY <2>3
    <3>2. CASE k = m
      <4>1. m - 1 \in 0 .. m /\ m - 1 < m /\ ~(m < m) /\ m \in 0 .. m
        BY <3>1
      <4> QED
        BY <2>3, <3>2, <4>1, Zenon
    <3>3. CASE k # m
      <4>1. k \in 0 .. (m - 1) /\ k < m
        BY <3>1, <3>3
      <4>2. more[k] = chosen[k]
        BY <4>1
      <4>3. chosen[k] = IF k = 0 THEN <<>>
                        ELSE IF k \in S THEN Append(chosen[k - 1], f[k]) ELSE chosen[k - 1]
        BY <2>4, <4>1, Zenon DEF AreChosen
      <4>4. k # 0 => more[k - 1] = chosen[k - 1]
        BY <3>1, <4>1
      <4> QED
        BY <4>2, <4>3, <4>4, Zenon
    <3> QED
      BY <3>2, <3>3
  <2>6. AreChosen(more, f, S, m)
    BY <2>5, Zenon DEF AreChosen
  <2> QED
    BY <2>2, <2>6
<1>2. AreChosen(Chosen(f, S, n), f, S, n)
  BY <1>1, Zenon DEF Chosen
<1> QED
  BY <1>2 DEF InOrder, Chosen, AreChosen

\* Two such functions agree where their sequences do.
LEMMA ChosenAgree ==
    ASSUME NEW f, NEW S, NEW g, NEW T, NEW m \in Nat, NEW n \in Nat, m <= n,
           NEW d, AreChosen(d, f, S, m), NEW e, AreChosen(e, g, T, n),
           \A k \in 1 .. m : f[k] = g[k] /\ (k \in S <=> k \in T)
    PROVE  d[m] = e[m]
<1> DEFINE Bad == {j \in 0 .. m : d[j] # e[j]}
<1>1. SUFFICES ASSUME Bad # {} PROVE FALSE
  OBVIOUS
<1>2. Bad \in SUBSET Nat
  OBVIOUS
<1> HIDE DEF Bad
<1>3. PICK j \in Bad : \A k \in Bad : j <= k
  BY <1>1, <1>2, Least
<1> USE DEF Bad
<1>4. j = 0 \/ (j \in 1 .. m /\ j - 1 \in 0 .. m /\ d[j - 1] = e[j - 1])
  BY <1>3
<1>8. j \in 0 .. m /\ j \in 0 .. n
  BY <1>3
<1>5. d[j] = IF j = 0 THEN <<>> ELSE IF j \in S THEN Append(d[j - 1], f[j]) ELSE d[j - 1]
  BY <1>8, Zenon DEF AreChosen
<1>6. e[j] = IF j = 0 THEN <<>> ELSE IF j \in T THEN Append(e[j - 1], g[j]) ELSE e[j - 1]
  BY <1>8, Zenon DEF AreChosen
<1>7. d[j] = e[j]
  BY <1>4, <1>5, <1>6
<1> QED
  BY <1>3, <1>7

\* One element more, or not.
LEMMA InOrderNext ==
    ASSUME NEW f, NEW S, NEW n \in Nat
    PROVE  /\ InOrder(f, S, 0) = <<>>
           /\ InOrder(f, S, n + 1) = IF n + 1 \in S THEN Append(InOrder(f, S, n), f[n + 1])
                                     ELSE InOrder(f, S, n)
<1>1. InOrder(f, S, 0) = <<>>
  BY ChosenExist DEF AreChosen
<1>2. Chosen(f, S, n)[n] = Chosen(f, S, n + 1)[n]
  BY ChosenExist, ChosenAgree
<1>3. Chosen(f, S, n + 1)[n + 1] =
         IF n + 1 \in S THEN Append(Chosen(f, S, n + 1)[n], f[n + 1])
         ELSE Chosen(f, S, n + 1)[n]
  <2>1. n + 1 # 0 /\ n + 1 \in 0 .. (n + 1) /\ (n + 1) - 1 = n
    OBVIOUS
  <2>2. AreChosen(Chosen(f, S, n + 1), f, S, n + 1)
    BY ChosenExist
  <2> QED
    BY <2>1, <2>2 DEF AreChosen
<1> QED
  BY <1>1, <1>2, <1>3, ChosenExist

\* It depends on the first n elements only.
LEMMA InOrderSame ==
    ASSUME NEW f, NEW S, NEW g, NEW T, NEW n \in Nat,
           \A k \in 1 .. n : f[k] = g[k] /\ (k \in S <=> k \in T)
    PROVE  InOrder(f, S, n) = InOrder(g, T, n)
  BY ChosenExist, ChosenAgree

\* With more elements it only becomes longer.
LEMMA InOrderGrows ==
    ASSUME NEW f, NEW S, NEW V, NEW m \in Nat, NEW n \in Nat, m <= n,
           \A k \in 1 .. n : f[k] \in V
    PROVE  /\ InOrder(f, S, m) \in Seq(V) /\ InOrder(f, S, n) \in Seq(V)
           /\ Len(InOrder(f, S, m)) <= Len(InOrder(f, S, n))
           /\ \A i \in 1 .. Len(InOrder(f, S, m)) :
                 InOrder(f, S, m)[i] = InOrder(f, S, n)[i]
<1> DEFINE In(k) == InOrder(f, S, k)
<1>1. ASSUME NEW k \in 0 .. n, k # 0
      PROVE  /\ k - 1 \in 0 .. n /\ k \in 1 .. n
             /\ In(k) = IF k \in S THEN Append(In(k - 1), f[k]) ELSE In(k - 1)
  <2>1. k - 1 \in Nat /\ (k - 1) + 1 = k
    BY <1>1
  <2>2. ASSUME NEW j \in Nat
        PROVE  In(j + 1) = IF j + 1 \in S THEN Append(In(j), f[j + 1]) ELSE In(j)
    BY InOrderNext
  <2>3. In(k) = IF k \in S THEN Append(In(k - 1), f[k]) ELSE In(k - 1)
    BY <2>1, <2>2, Zenon
  <2> QED
    BY <1>1, <2>1, <2>3
<1>2. \A k \in 0 .. n : In(k) \in Seq(V)
  <2> DEFINE Bad == {k \in 0 .. n : In(k) \notin Seq(V)}
  <2>1. SUFFICES ASSUME Bad # {} PROVE FALSE
    OBVIOUS
  <2>2. Bad \in SUBSET Nat
    OBVIOUS
  <2> HIDE DEF Bad
  <2>3. PICK k \in Bad : \A j \in Bad : k <= j
    BY <2>1, <2>2, Least
  <2> USE DEF Bad
  <2>4. k # 0
    <3>1. In(0) = <<>> /\ <<>> \in Seq(V)
      BY InOrderNext
    <3> QED
      BY <3>1, <2>3
  <2>5. In(k - 1) \in Seq(V) /\ k \in 1 .. n /\ f[k] \in V
    BY <1>1, <2>3, <2>4
  <2> HIDE DEF In
  <2>6. Append(In(k - 1), f[k]) \in Seq(V)
    BY <2>5
  <2> QED
    BY <1>1, <2>3, <2>4, <2>5, <2>6
<1>3. m \in 0 .. n /\ n \in 0 .. n
  OBVIOUS
<1> DEFINE Keeps(k) == /\ Len(In(m)) <= Len(In(k))
                       /\ \A i \in 1 .. Len(In(m)) : In(m)[i] = In(k)[i]
<1> HIDE DEF In
<1>4. \A k \in 0 .. n : m <= k => Keeps(k)
  <2> DEFINE Bad == {k \in 0 .. n : m <= k /\ ~Keeps(k)}
  <2>1. SUFFICES ASSUME Bad # {} PROVE FALSE
    OBVIOUS
  <2>2. Bad \in SUBSET Nat
    OBVIOUS
  <2> HIDE DEF Bad
  <2>3. PICK k \in Bad : \A j \in Bad : k <= j
    BY <2>1, <2>2, Least
  <2> USE DEF Bad
  <2>4. Len(In(m)) \in Nat
    BY <1>2, <1>3
  <2>5. k # m
    BY <2>3, <2>4
  <2>6. k - 1 \in 0 .. n /\ m <= k - 1 /\ k # 0 /\ f[k] \in V /\ k \in 0 .. n
    BY <2>3, <2>5
  <2>7. Keeps(k - 1)
    BY <2>3, <2>6
  <2>8. In(k) = Append(In(k - 1), f[k]) \/ In(k) = In(k - 1)
    BY <1>1, <2>6
  <2>9. In(k - 1) \in Seq(V)
    BY <1>2, <2>6
  <2>10. Keeps(k)
    <3>1. CASE In(k) = In(k - 1)
      BY <2>7, <3>1
    <3>2. CASE In(k) = Append(In(k - 1), f[k])
      <4>1. /\ Len(In(k)) = Len(In(k - 1)) + 1 /\ Len(In(k - 1)) \in Nat
            /\ \A i \in 1 .. Len(In(k - 1)) : In(k)[i] = In(k - 1)[i]
        BY <2>6, <2>9, <3>2
      <4>2. \A i \in 1 .. Len(In(m)) : i \in 1 .. Len(In(k - 1))
        BY <2>4, <2>7, <4>1
      <4> QED
        BY <2>4, <2>7, <4>1, <4>2
    <3> QED
      BY <2>8, <3>1, <3>2
  <2> QED
    BY <2>3, <2>10
<1> QED
  BY <1>2, <1>3, <1>4 DEF In

-----------------------------------------------------------------------------
(* Where the SSE generator is, and what it has sent.                        *)

Names == Verdicts \cup {"text", "message_start", "block_start", "[DONE]",
                        "message_delta", "message_stop"}

\* What the HTTP client saw last; "" if nothing.
LastName == IF Len(out) = 0 THEN "" ELSE out[Len(out)][1]

\* Every event may follow the one before it.
Parsable ==
    \A i \in 1 .. Len(out) :
        <<IF i = 1 THEN "" ELSE out[i - 1][1], out[i][1]>> \in Follows

StreamTypes ==
    /\ out \in Seq(Names \X Nat) /\ handled \in Nat
    /\ provider \in {"openai", "anthropic"}

\* Where the generator is says what it has sent last.
OpenaiPlace ==
    \/ sse = "begin" /\ LastName = ""
    \/ sse \in {"pull", "yield", "close", "verdict"} /\ LastName \in {"", "text"}
    \/ sse = "done" /\ LastName \in {"finish", "error"}
    \/ sse = "over" /\ LastName = "[DONE]"
    \/ sse = "gone"
AnthropicPlace ==
    \/ sse = "begin" /\ LastName = ""
    \/ sse = "yield_start" /\ LastName = "message_start"
    \/ sse = "yield_block" /\ LastName = "block_start"
    \/ sse \in {"pull", "yield", "close", "verdict"} /\ LastName \in {"block_start", "text"}
    \/ sse = "message_delta" /\ LastName = "block_stop"
    \/ sse = "message_stop" /\ LastName = "message_delta"
    \/ sse = "over" /\ LastName \in {"error", "message_stop"}
    \/ sse = "gone"
PlaceInv == IF provider = "openai" THEN OpenaiPlace ELSE AnthropicPlace

\* No verdict has been sent.
Neutral == \A i \in 1 .. Len(out) : out[i][1] \notin Verdicts

\* The response is open only while the chat generator reads it and the client
\* is there, and no verdict has been sent by then.
Undecided == {"begin", "yield_start", "yield_block", "pull", "yield", "close", "verdict"}
ReleaseInv ==
    /\ conn = "open" => chat \in {"status", "chunk", "frames"} /\ sse \in {"pull", "yield"}
    /\ sse \in Undecided => Neutral

StreamInv == StreamTypes /\ Parsable /\ PlaceInv /\ ReleaseInv

\* The inductive invariant holds before the generator is first asked.
LEMMA StreamInit == Init => StreamInv
<1> SUFFICES ASSUME Init PROVE StreamInv
  OBVIOUS
<1>1. Len(out) = 0 /\ StreamTypes
  BY DEF Init, StreamTypes
<1>2. LastName = ""
  BY <1>1, Zenon DEF LastName
<1>3. Parsable /\ Neutral
  BY <1>1 DEF Parsable, Neutral
<1> QED
  BY <1>1, <1>2, <1>3
  DEF Init, StreamInv, PlaceInv, OpenaiPlace, AnthropicPlace, ReleaseInv

-----------------------------------------------------------------------------
\* An event that may follow the last one keeps the stream parsable.
LEMMA Emitted ==
    ASSUME StreamTypes, Parsable, NEW e \in Names, NEW k \in Nat,
           out' = Append(out, <<e, k>>), provider' = provider, handled' \in Nat,
           <<LastName, e>> \in Follows
    PROVE  /\ StreamTypes' /\ Parsable' /\ LastName' = e
           /\ Neutral /\ e \notin Verdicts => Neutral'
<1>1. /\ out \in Seq(Names \X Nat) /\ <<e, k>> \in Names \X Nat
      /\ provider \in {"openai", "anthropic"}
  BY DEF StreamTypes
<1>2. /\ out' \in Seq(Names \X Nat) /\ Len(out') = Len(out) + 1 /\ Len(out) \in Nat
      /\ \A i \in 1 .. Len(out) : out'[i] = out[i]
      /\ out'[Len(out) + 1] = <<e, k>>
  BY <1>1
<1>3. Follows' = Follows
  BY DEF Follows
<1>4. StreamTypes'
  BY <1>1, <1>2 DEF StreamTypes
<1>5. LastName' = e
  <2>1. Len(out') # 0 /\ out'[Len(out')] = <<e, k>>
    BY <1>2
  <2>2. <<e, k>>[1] = e
    OBVIOUS
  <2> QED
    BY <2>1, <2>2, Zenon DEF LastName
<1>6. Len(out) = 0 => LastName = ""
  BY Zenon DEF LastName
<1>7. Len(out) # 0 => LastName = out[Len(out)][1]
  BY Zenon DEF LastName
<1>8. ASSUME NEW i \in 1 .. Len(out')
      PROVE  <<IF i = 1 THEN "" ELSE out'[i - 1][1], out'[i][1]>> \in Follows
  <2>1. CASE i = Len(out) + 1
    <3>1. out'[i][1] = e
      BY <1>2, <2>1
    <3>2. CASE i = 1
      <4>1. Len(out) = 0
        BY <1>2, <2>1, <3>2
      <4>2. LastName = ""
        BY <1>6, <4>1, Zenon
      <4> QED
        BY <3>1, <3>2, <4>2, Zenon
    <3>3. CASE i # 1
      <4>1. Len(out) # 0 /\ i - 1 = Len(out) /\ out'[i - 1] = out[Len(out)]
        BY <1>2, <2>1, <3>3
      <4> QED
        BY <1>7, <3>1, <3>3, <4>1
    <3> QED
      BY <3>2, <3>3
  <2>2. CASE i \in 1 .. Len(out)
    <3>1. out'[i] = out[i] /\ (i # 1 => out'[i - 1] = out[i - 1])
      BY <1>2, <2>2
    <3> QED
      BY <2>2, <3>1 DEF Parsable
  <2>3. i = Len(out) + 1 \/ i \in 1 .. Len(out)
    BY <1>2
  <2> QED
    BY <2>1, <2>2, <2>3, Zenon
<1>9. Parsable'
  BY <1>3, <1>8 DEF Parsable
<1>10. ASSUME Neutral, e \notin Verdicts PROVE Neutral'
  <2> SUFFICES ASSUME NEW i \in 1 .. Len(out') PROVE out'[i][1] \notin Verdicts
    BY DEF Neutral, Verdicts
  <2>1. CASE i = Len(out) + 1
    BY <1>2, <1>10, <2>1
  <2>2. CASE i \in 1 .. Len(out)
    BY <1>2, <1>10, <2>2 DEF Neutral
  <2>3. i = Len(out) + 1 \/ i \in 1 .. Len(out)
    BY <1>2
  <2> QED
    BY <2>1, <2>2, <2>3
<1> QED
  BY <1>4, <1>5, <1>9, <1>10

\* A step that sends nothing keeps what has been sent as it is.
LEMMA Silent ==
    ASSUME StreamTypes, Parsable, out' = out, provider' = provider, handled' \in Nat
    PROVE  StreamTypes' /\ Parsable' /\ LastName' = LastName /\ Neutral' = Neutral
  BY DEF Neutral, StreamTypes, Parsable, LastName, Follows

-----------------------------------------------------------------------------
(* Step by step.                                                            *)

\* Every step keeps the invariant.
LEMMA StreamStep == StreamInv /\ [Next]_vars => StreamInv'
<1> SUFFICES ASSUME StreamInv, [Next]_vars PROVE StreamInv'
  OBVIOUS
<1> USE DEF decoderVars
<1>1. ASSUME NEW from, ChatFails(from) PROVE StreamInv'
  <2>1. out' = out /\ provider' = provider /\ handled' = handled /\ conn' # "open"
        /\ sse = "pull" /\ sse' = "close"
    BY <1>1 DEF ChatFails, ChatGoes
  <2>2. StreamTypes' /\ Parsable' /\ LastName' = LastName /\ Neutral' = Neutral
    BY <2>1, Silent DEF StreamInv, StreamTypes
  <2> QED
    BY <2>1, <2>2 DEF StreamInv, PlaceInv, OpenaiPlace, AnthropicPlace, ReleaseInv, Undecided
<1>2. ASSUME out' = out, provider' = provider, handled' = handled,
             \/ sse' = sse
             \/ sse \in {"yield", "pull"} /\ sse' \in {"pull", "close"},
             conn' = "open" => chat' \in {"status", "chunk", "frames"} /\ sse' \in {"pull", "yield"}
      PROVE  StreamInv'
  <2>1. StreamTypes' /\ Parsable' /\ LastName' = LastName /\ Neutral' = Neutral
    BY <1>2, Silent DEF StreamInv, StreamTypes
  <2> QED
    BY <1>2, <2>1 DEF StreamInv, PlaceInv, OpenaiPlace, AnthropicPlace, ReleaseInv, Undecided
<1>3. ASSUME NEW from, Ended(from) PROVE StreamInv'
  BY <1>2, <1>3 DEF Ended, ChatGoes
<1>4. CASE Request
  BY <1>1, <1>2, <1>4 DEF Request, ChatGoes
<1>5. CASE Status \/ FramesDone
  BY <1>1, <1>2, <1>5 DEF Status, FramesDone, ChatGoes
<1>6. CASE Chunk
  BY <1>1, <1>2, <1>6 DEF Chunk, ChatGoes
<1>7. CASE ChunkFails \/ BadFrame
  BY <1>1, <1>7 DEF ChunkFails, BadFrame
<1>8. CASE BodyEnds \/ TerminalFrame
  BY <1>1, <1>3, <1>8 DEF BodyEnds, EndChecked, TerminalFrame
<1>9. CASE EventFrame
  <2>1. /\ sse = "pull" /\ chat' = "frames" /\ conn' = conn /\ provider' = provider
        /\ handled' = handled + 1 /\ handled' \in Nat
    BY <1>9 DEF EventFrame, ChatGoes, StreamInv, StreamTypes
  <2>2. CASE sse' = "yield" /\ EmitText(handled + 1)
    <3>1. <<LastName, "text">> \in Follows
      BY <2>1 DEF StreamInv, PlaceInv, OpenaiPlace, AnthropicPlace, Follows, StreamTypes
    <3>2. /\ StreamTypes' /\ Parsable' /\ LastName' = "text"
          /\ Neutral'
      BY <2>1, <2>2, <3>1, Emitted
      DEF EmitText, Names, Verdicts, StreamInv, ReleaseInv, Undecided
    <3> QED
      BY <2>1, <2>2, <3>2 DEF StreamInv, PlaceInv, OpenaiPlace, AnthropicPlace, ReleaseInv
  <2>3. CASE UNCHANGED <<sse, out>>
    <3>1. StreamTypes' /\ Parsable' /\ LastName' = LastName /\ Neutral' = Neutral
      BY <2>1, <2>3, Silent DEF StreamInv
    <3> QED
      BY <2>1, <2>3, <3>1 DEF StreamInv, PlaceInv, OpenaiPlace, AnthropicPlace, ReleaseInv, Undecided
  <2> QED
    BY <1>9, <2>2, <2>3 DEF EventFrame
<1>10. CASE EndEvent
  <2>1. conn' # "open"
    BY <1>10 DEF EndEvent, ChatGoes, StreamInv, ReleaseInv
  <2> QED
    BY <1>2, <1>10, <2>1 DEF EndEvent, ChatGoes
<1>11. ASSUME NEW from \in {"begin", "yield_block"}, CreateUpstream(from),
              provider = "openai" => from = "begin",
              provider = "anthropic" => from = "yield_block"
       PROVE  StreamInv'
  <2>1. /\ sse = from /\ sse' = "pull" /\ out' = out /\ provider' = provider
        /\ handled' = handled /\ conn' = conn
    BY <1>11 DEF CreateUpstream, SseGoes
  <2>2. StreamTypes' /\ Parsable' /\ LastName' = LastName /\ Neutral' = Neutral
    BY <2>1, Silent DEF StreamInv, StreamTypes
  <2> QED
    BY <1>11, <2>1, <2>2
    DEF StreamInv, StreamTypes, PlaceInv, OpenaiPlace, AnthropicPlace, ReleaseInv, Undecided
<1>12. CASE OpenStream
  <2>1. ASSUME NEW from, NEW to, NEW e \in {"message_start", "block_start"},
               SseGoes(from, to), Emit(e), SseOnly, provider = "anthropic",
               \/ from = "begin" /\ to = "yield_start" /\ e = "message_start"
               \/ from = "yield_start" /\ to = "yield_block" /\ e = "block_start"
        PROVE  StreamInv'
    <3>1. <<LastName, e>> \in Follows
      BY <2>1 DEF SseGoes, StreamInv, PlaceInv, AnthropicPlace, Follows
    <3>2. /\ StreamTypes' /\ Parsable' /\ LastName' = e /\ provider' = provider
          /\ conn' = conn
          /\ Neutral'
      BY <2>1, <3>1, Emitted DEF SseGoes, SseOnly, Emit, Names, Verdicts, StreamInv,
         StreamTypes, ReleaseInv, Undecided
    <3> QED
      BY <2>1, <3>2 DEF SseGoes, StreamInv, PlaceInv, AnthropicPlace, ReleaseInv
  <2>2. CASE provider = "openai" /\ CreateUpstream("begin")
    BY <1>11, <2>2
  <2>3. CASE provider = "anthropic" /\ CreateUpstream("yield_block")
    BY <1>11, <2>3
  <2> QED
    BY <1>12, <2>1, <2>2, <2>3 DEF OpenStream
<1>13. CASE Resume
  <2>1. conn = "open" => chat \in {"status", "chunk", "frames"}
    BY DEF StreamInv, ReleaseInv
  <2> QED
    BY <1>2, <1>13, <2>1 DEF Resume, SseGoes, SseOnly
<1>14. CASE Close \/ Leave
  <2>1. out' = out /\ provider' = provider /\ handled' = handled /\ conn' # "open"
        /\ ((sse = "close" /\ sse' = "verdict") \/ sse' = "gone")
    BY <1>14 DEF Close, Leave, UpstreamClosed, SseGoes
  <2>2. StreamTypes' /\ Parsable' /\ LastName' = LastName /\ Neutral' = Neutral
    BY <2>1, Silent DEF StreamInv, StreamTypes
  <2> QED
    BY <2>1, <2>2 DEF StreamInv, PlaceInv, OpenaiPlace, AnthropicPlace, ReleaseInv, Undecided
<1>15. CASE Verdict
  <2>1. ASSUME NEW from, NEW to, NEW e \in Names, SseGoes(from, to), Emit(e),
               \/ provider = "openai" /\ from = "verdict" /\ to = "done" /\ e \in {"error", "finish"}
               \/ provider = "openai" /\ from = "done" /\ to = "over" /\ e = "[DONE]"
               \/ provider = "anthropic" /\ from = "verdict" /\ to = "over" /\ e = "error"
               \/ provider = "anthropic" /\ from = "verdict" /\ to = "message_delta" /\ e = "block_stop"
               \/ provider = "anthropic" /\ from = "message_delta" /\ to = "message_stop" /\ e = "message_delta"
               \/ provider = "anthropic" /\ from = "message_stop" /\ to = "over" /\ e = "message_stop"
        PROVE  StreamInv'
    <3>1. <<LastName, e>> \in Follows
      BY <2>1 DEF SseGoes, StreamInv, PlaceInv, OpenaiPlace, AnthropicPlace, Follows
    <3>2. /\ StreamTypes' /\ Parsable' /\ LastName' = e /\ provider' = provider
          /\ conn' = conn
      BY <1>15, <2>1, <3>1, Emitted DEF Verdict, SseOnly, Emit, StreamInv, StreamTypes
    <3>3. ReleaseInv'
      BY <2>1, <3>2 DEF SseGoes, StreamInv, ReleaseInv, Undecided
    <3> QED
      BY <2>1, <3>2, <3>3 DEF SseGoes, StreamInv, PlaceInv, OpenaiPlace, AnthropicPlace
  <2>2. CASE /\ provider = "openai" /\ SseGoes("verdict", "done")
             /\ Emit(IF failure THEN "error" ELSE "finish")
    <3>1. CASE failure
      BY <2>1, <2>2, <3>1 DEF Names, Verdicts
    <3>2. CASE ~failure
      BY <2>1, <2>2, <3>2 DEF Names, Verdicts
    <3> QED
      BY <3>1, <3>2
  <2>3. CASE provider = "openai" /\ SseGoes("done", "over") /\ Emit("[DONE]")
    BY <2>1, <2>3 DEF Names
  <2>4. CASE provider = "anthropic" /\ SseGoes("verdict", "over") /\ Emit("error")
    BY <2>1, <2>4 DEF Names, Verdicts
  <2>5. CASE provider = "anthropic" /\ SseGoes("verdict", "message_delta") /\ Emit("block_stop")
    BY <2>1, <2>5 DEF Names, Verdicts
  <2>6. CASE provider = "anthropic" /\ SseGoes("message_delta", "message_stop") /\ Emit("message_delta")
    BY <2>1, <2>6 DEF Names
  <2>7. CASE provider = "anthropic" /\ SseGoes("message_stop", "over") /\ Emit("message_stop")
    BY <2>1, <2>7 DEF Names
  <2> QED
    BY <1>15, <2>2, <2>3, <2>4, <2>5, <2>6, <2>7 DEF Verdict, AfterError
<1>16. CASE Finished \/ UNCHANGED vars
  <2>1. UNCHANGED vars
    BY <1>16 DEF Finished
  <2> QED
    BY <1>2, <2>1 DEF vars, streamVars, StreamInv, ReleaseInv
<1> QED
  BY <1>4, <1>5, <1>6, <1>7, <1>8, <1>9, <1>10, <1>12, <1>13, <1>14, <1>15, <1>16
  DEF Next, ChatStep, SseStep

\* So it always holds.
LEMMA StreamSafety == Spec => []StreamInv
  BY StreamInit, StreamStep, PTL DEF Spec

-----------------------------------------------------------------------------
(* Types.                                                                   *)

\* What feed() and finalize() change, and what they cannot.
DecoderTypes ==
    /\ wire \in Seq(Frames) /\ Len(wire) <= MaxFrames
    /\ size \in Nat /\ fed \in 0 .. size
    /\ taken \in 0 .. Len(wire) /\ EndOf(wire, taken) <= fed
    /\ finalized \in BOOLEAN
DecoderStep ==
    \/ UNCHANGED decoderVars
    \/ \E n \in 1 .. (size - fed), raised \in BOOLEAN : Feed(n, raised)
    \/ \E raised \in BOOLEAN : Finalize(raised)

\* No call makes the decoder look past what it has been fed, and no frame it
\* has taken comes back.
LEMMA DecoderTypesStep ==
    ASSUME DecoderTypes, DecoderStep
    PROVE  DecoderTypes' /\ wire' = wire /\ size' = size /\ taken' >= taken
<1>1. CASE UNCHANGED decoderVars
  BY <1>1 DEF DecoderTypes, decoderVars
<1>2. ASSUME NEW n \in 1 .. (size - fed), NEW raised \in BOOLEAN, Feed(n, raised)
      PROVE  DecoderTypes' /\ wire' = wire /\ size' = size /\ taken' >= taken
  <2>1. fed \in Nat /\ size \in Nat /\ fed' = fed + n /\ taken \in Nat /\ Len(wire) \in Nat
    BY <1>2 DEF Feed, DecoderTypes
  <2>2. PICK last \in taken .. Len(wire) : Decodes(fed', last) /\ taken' = last
    BY <1>2, Zenon DEF Feed
  <2>3. EndOf(wire, taken') <= fed'
    <3>1. CASE last = taken
      <4>1. EndOf(wire, taken) \in Nat
        BY EndsGrow DEF DecoderTypes
      <4> QED
        BY <1>2, <2>1, <2>2, <3>1, <4>1 DEF DecoderTypes
    <3>2. CASE last # taken
      <4>1. last \in (taken + 1) .. last
        BY <2>1, <2>2, <3>2
      <4>2. FrameArrived(last, fed')
        BY <2>2, <4>1 DEF Decodes
      <4>3. EndOf(wire, last) \in Nat
        BY <2>1, <2>2, EndsGrow DEF DecoderTypes
      <4> QED
        BY <2>1, <2>2, <4>2, <4>3 DEF FrameArrived
    <3> QED
      BY <3>1, <3>2
  <2>4. wire' = wire /\ size' = size /\ finalized' = finalized
    BY <1>2 DEF Feed
  <2>5. fed' \in 0 .. size /\ taken' \in 0 .. Len(wire) /\ taken' >= taken
    BY <1>2, <2>1, <2>2
  <2> QED
    BY <2>3, <2>4, <2>5 DEF DecoderTypes
<1>3. ASSUME NEW raised \in BOOLEAN, Finalize(raised)
      PROVE  DecoderTypes' /\ wire' = wire /\ size' = size /\ taken' >= taken
  <2>1. finalized' \in BOOLEAN
    BY <1>3, Zenon DEF Finalize
  <2> QED
    BY <1>3, <2>1 DEF Finalize, DecoderTypes
<1> QED
  BY <1>1, <1>2, <1>3 DEF DecoderStep

Places == {"begin", "yield_start", "yield_block", "pull", "yield", "close",
           "verdict", "done", "message_delta", "message_stop", "over", "gone"}
Generator == {"none", "created", "status", "chunk", "frames", "end", "dead"}

GeneratorTypes ==
    /\ failure \in BOOLEAN
    /\ provider \in {"openai", "anthropic"}
    /\ chat \in Generator /\ conn \in {"none", "open", "closed"}
    /\ handled \in 0 .. taken /\ sse \in Places
    /\ out \in Seq(Names \X (0 .. MaxFrames))

\* TypeOK is the types of the decoder and those of the generators.
LEMMA TypesOfBoth == TypeOK <=> DecoderTypes /\ GeneratorTypes
  BY DEF TypeOK, DecoderTypes, GeneratorTypes, Places, Generator, Names

\* Events can be appended to the stream.
LEMMA OutTypes ==
    ASSUME out \in Seq(Names \X (0 .. MaxFrames)), NEW e \in Names, NEW k \in 0 .. MaxFrames,
           out' = Append(out, <<e, k>>)
    PROVE  out' \in Seq(Names \X (0 .. MaxFrames))
  OBVIOUS

\* Nothing has been read before the first step.
LEMMA TypesInit == Init => TypeOK
<1> SUFFICES ASSUME Init PROVE DecoderTypes /\ GeneratorTypes
  BY TypesOfBoth
<1>1. PICK n \in 0 .. MaxFrames : wire \in [1 .. n -> Frames]
  BY DEF Init, DecoderInit
<1>2. wire \in Seq(Frames) /\ Len(wire) = n /\ n <= MaxFrames /\ n \in Nat
  BY <1>1, Sizes
<1>3. EndOf(wire, 0) = 0 /\ EndOf(wire, Len(wire)) \in Nat
  BY <1>2, EndOfNext, EndsGrow
<1>4. finalized \in BOOLEAN /\ failure \in BOOLEAN
  BY Zenon DEF Init, DecoderInit
<1>5. size \in Nat /\ fed = 0 /\ taken = 0
  BY <1>3 DEF Init, DecoderInit
<1>6. DecoderTypes
  BY <1>2, <1>3, <1>4, <1>5 DEF DecoderTypes
<1> QED
  BY <1>4, <1>5, <1>6 DEF Init, GeneratorTypes, Generator, Places

\* Every step of a generator is one of the decoder or leaves it alone.
LEMMA StepsOfDecoder == [Next]_vars => DecoderStep
<1> SUFFICES ASSUME [Next]_vars PROVE DecoderStep
  OBVIOUS
<1> USE DEF DecoderStep
<1>1. CASE Chunk
  BY <1>1, Zenon DEF Chunk
<1>2. CASE BodyEnds \/ TerminalFrame
  BY <1>2, Zenon DEF BodyEnds, EndChecked, TerminalFrame
<1>3. CASE Request \/ Status \/ ChunkFails \/ FramesDone \/ BadFrame \/ EventFrame \/ EndEvent
  BY <1>3, Zenon DEF Request, Status, ChunkFails, FramesDone, BadFrame, EventFrame, EndEvent
<1>4. CASE SseStep
  BY <1>4, Zenon DEF SseStep, OpenStream, CreateUpstream, SseOnly, Resume, Close, Verdict, Leave
<1>5. CASE Finished \/ UNCHANGED vars
  BY <1>5 DEF Finished, vars
<1> QED
  BY <1>1, <1>2, <1>3, <1>4, <1>5, Zenon DEF Next, ChatStep

\* Every variable keeps to its type in every step.
LEMMA TypesStep == TypeOK /\ [Next]_vars => TypeOK'
<1> SUFFICES ASSUME TypeOK, [Next]_vars PROVE TypeOK'
  OBVIOUS
<1>0. DecoderTypes /\ GeneratorTypes /\ (DecoderTypes' /\ GeneratorTypes' => TypeOK')
  BY TypesOfBoth DEF TypeOK, DecoderTypes, GeneratorTypes, Places, Generator, Names
<1>1. DecoderTypes' /\ wire' = wire /\ size' = size /\ taken' >= taken
  BY <1>0, DecoderTypesStep, StepsOfDecoder
<1> SUFFICES GeneratorTypes'
  BY <1>0, <1>1
<1>2. taken \in Nat /\ taken' \in Nat /\ handled \in Nat
  BY <1>0, <1>1 DEF DecoderTypes, GeneratorTypes
<1>3. handled' = handled => handled' \in 0 .. taken'
  BY <1>0, <1>1, <1>2 DEF GeneratorTypes
<1>4. ASSUME NEW from, ChatFails(from) PROVE GeneratorTypes'
  <2>1. /\ handled' = handled /\ provider' = provider /\ out' = out
        /\ chat' = "dead" /\ sse' = "close"
        /\ conn' = IF conn = "open" THEN "closed" ELSE conn
    BY <1>4 DEF ChatFails, ChatGoes
  <2>2. failure' \in BOOLEAN
    BY <1>4, Zenon DEF ChatFails
  <2> QED
    BY <1>0, <1>3, <2>1, <2>2 DEF GeneratorTypes, Generator, Places
<1>5. ASSUME handled' = handled, provider' = provider, out' = out, failure' = failure,
             chat' = chat \/ chat' \in Generator, sse' = sse \/ sse' \in Places,
             conn' = conn \/ conn' \in {"none", "open", "closed"}
      PROVE  GeneratorTypes'
  BY <1>0, <1>3, <1>5 DEF GeneratorTypes
<1>6. ASSUME NEW from, Ended(from) PROVE GeneratorTypes'
  BY <1>5, <1>6 DEF Ended, ChatGoes, Generator
<1>7. CASE Request
  BY <1>4, <1>5, <1>7 DEF Request, ChatGoes, Generator
<1>8. CASE Status \/ FramesDone
  BY <1>4, <1>5, <1>8 DEF Status, FramesDone, ChatGoes, Generator
<1>9. CASE Chunk
  BY <1>4, <1>5, <1>9 DEF Chunk, ChatGoes, Generator
<1>10. CASE ChunkFails \/ BadFrame
  BY <1>4, <1>10 DEF ChunkFails, BadFrame
<1>11. CASE BodyEnds \/ TerminalFrame
  BY <1>4, <1>6, <1>11 DEF BodyEnds, EndChecked, TerminalFrame
<1>12. CASE EventFrame
  <2>1. /\ handled' = handled + 1 /\ handled < taken /\ chat' = "frames"
        /\ provider' = provider /\ conn' = conn /\ failure' = failure /\ taken' = taken
        /\ (sse' = "yield" /\ EmitText(handled + 1)) \/ (sse' = sse /\ out' = out)
    BY <1>12 DEF EventFrame, MoreFrames, ChatGoes, decoderVars
  <2>2. handled' \in 0 .. taken' /\ handled + 1 \in 0 .. MaxFrames
    BY <1>0, <1>2, <2>1, Sizes DEF DecoderTypes
  <2>3. out' \in Seq(Names \X (0 .. MaxFrames))
    BY <1>0, <2>1, <2>2, OutTypes DEF EmitText, Names, GeneratorTypes
  <2> QED
    BY <1>0, <2>1, <2>2, <2>3 DEF GeneratorTypes, Generator, Places
<1>13. CASE EndEvent
  BY <1>5, <1>13 DEF EndEvent, ChatGoes, Generator, Places
<1>14. ASSUME NEW from, CreateUpstream(from) PROVE GeneratorTypes'
  BY <1>5, <1>14 DEF CreateUpstream, SseGoes, Generator, Places
<1>15. CASE Resume
  BY <1>5, <1>15 DEF Resume, SseGoes, SseOnly, Places
<1>16. CASE Close \/ Leave
  BY <1>5, <1>16 DEF Close, Leave, SseGoes, UpstreamClosed, Generator, Places
<1>17. ASSUME NEW from, NEW to \in Places, NEW e \in Names, SseGoes(from, to), Emit(e), SseOnly
       PROVE  GeneratorTypes'
  <2>1. out' \in Seq(Names \X (0 .. MaxFrames))
    BY <1>0, <1>17, OutTypes, Sizes DEF Emit, GeneratorTypes
  <2>2. /\ provider' = provider /\ chat' = chat /\ conn' = conn /\ handled' = handled
        /\ failure' = failure /\ sse' \in Places
    BY <1>17 DEF SseGoes, SseOnly
  <2> QED
    BY <1>0, <1>3, <2>1, <2>2 DEF GeneratorTypes
<1>18. CASE OpenStream
  BY <1>14, <1>17, <1>18 DEF OpenStream, Names, Places
<1>19. CASE Verdict
  <2>1. {"error", "finish", "[DONE]", "block_stop", "message_delta", "message_stop"} \subseteq Names
    BY DEF Names, Verdicts
  <2>2. {"done", "over", "message_delta", "message_stop"} \subseteq Places
    BY DEF Places
  <2>3. (IF failure THEN "error" ELSE "finish") \in Names
    BY <2>1
  <2> QED
    BY <1>17, <1>19, <2>1, <2>2, <2>3, Zenon DEF Verdict, AfterError
<1>20. CASE Finished \/ UNCHANGED vars
  BY <1>5, <1>20 DEF Finished, vars, streamVars
<1> QED
  BY <1>7, <1>8, <1>9, <1>10, <1>11, <1>12, <1>13, <1>15, <1>16, <1>18, <1>19, <1>20
  DEF Next, ChatStep, SseStep

-----------------------------------------------------------------------------
(* What the generators know of the response.                                *)

Ordinary == {"content", "empty", "other"}

\* The texts among the first n frames.
TextsIn(n) == InOrder([k \in 1 .. Len(wire) |-> k], FramesWithText, n)

\* The chat generator has been through the whole answer.
Seen == handled = AnswerEnd - 1 /\ WholeAnswer

\* What the two generators know of the response: which frames they have been
\* through, that these were ordinary, that their texts were relayed, and that
\* who goes on to the verdict without a failure has seen everything.
ReadInv ==
    /\ wire # <<>> => size > StartOf(wire, Len(wire))
    /\ \A k \in 1 .. handled : wire[k].kind \in Ordinary
    /\ chat \in {"none", "created", "status", "chunk"} => handled = taken
    /\ finalized => chat \in {"end", "dead"}
    /\ sse \in {"begin", "yield_start", "yield_block"} => chat = "none"
    /\ chat = "end" \/ (sse \in {"close", "verdict"} /\ ~failure) => Seen
    /\ Relayed = TextsIn(handled)

\* AnswerEnd is the first frame that is not ordinary, or behind the last frame.
LEMMA FirstOther ==
    ASSUME wire \in Seq(Frames)
    PROVE  /\ AnswerEnd \in 1 .. Len(wire) + 1
           /\ \A j \in 1 .. (AnswerEnd - 1) : wire[j].kind \in Ordinary
           /\ AnswerEnd <= Len(wire) => wire[AnswerEnd].kind \notin Ordinary
<1> DEFINE Stops == {k \in 1 .. Len(wire) + 1 : k <= Len(wire) => wire[k].kind \notin Ordinary}
<1>1. Len(wire) \in Nat /\ Len(wire) + 1 \in Stops /\ Stops \in SUBSET Nat
  OBVIOUS
<1>2. PICK k \in Stops : \A m \in Stops : k <= m
  <2> HIDE DEF Stops
  <2> QED
    BY <1>1, Least
<1>3. k \in 1 .. Len(wire) + 1 /\ (k <= Len(wire) => wire[k].kind \notin Ordinary)
  BY <1>2
<1>4. ASSUME NEW j \in 1 .. (k - 1) PROVE wire[j].kind \in Ordinary
  <2>1. j \notin Stops /\ j \in 1 .. Len(wire) + 1
    BY <1>1, <1>2, <1>3
  <2> QED
    BY <2>1
<1> QED
  BY <1>3, <1>4, Zenon DEF AnswerEnd, Ordinary

\* Behind ordinary frames: the answer ends there, or later.
LEMMA EndsThere ==
    ASSUME wire \in Seq(Frames), NEW n \in 0 .. Len(wire),
           \A k \in 1 .. n : wire[k].kind \in Ordinary
    PROVE  /\ AnswerEnd \in Nat /\ n < AnswerEnd
           /\ (n = Len(wire) \/ wire[n + 1].kind \notin Ordinary) => AnswerEnd = n + 1
<1>1. Len(wire) \in Nat /\ AnswerEnd \in Nat
  BY FirstOther
<1>2. n < AnswerEnd
  <2> SUFFICES ASSUME AnswerEnd <= n PROVE FALSE
    BY <1>1
  <2>1. AnswerEnd \in 1 .. n /\ AnswerEnd <= Len(wire)
    BY <1>1, FirstOther
  <2> QED
    BY <2>1, FirstOther
<1>3. ASSUME n = Len(wire) \/ wire[n + 1].kind \notin Ordinary PROVE AnswerEnd = n + 1
  <2> SUFFICES ASSUME AnswerEnd # n + 1 PROVE FALSE
    OBVIOUS
  <2>1. n + 1 \in 1 .. (AnswerEnd - 1) /\ AnswerEnd \in 1 .. Len(wire) + 1
    BY <1>1, <1>2, FirstOther
  <2>2. n + 1 <= Len(wire)
    BY <1>1, <2>1
  <2> QED
    BY <1>3, <2>1, <2>2, FirstOther
<1> QED
  BY <1>1, <1>2, <1>3

-----------------------------------------------------------------------------
(* What is relayed, one event at a time.                                    *)

\* What is relayed changes with the texts that are sent, and nothing else.
LEMMA RelayedSilent ==
    ASSUME out' = out PROVE Relayed' = Relayed /\ \A S : Named(S)' = Named(S)
  BY DEF Relayed, Named

\* ... one by one.
LEMMA RelayedEmits ==
    ASSUME out \in Seq(Names \X (0 .. MaxFrames)), NEW e \in Names, NEW k \in 0 .. MaxFrames,
           out' = Append(out, <<e, k>>)
    PROVE  /\ Relayed' = IF e = "text" THEN Append(Relayed, k) ELSE Relayed
           /\ \A S : Named(S)' = {} <=> Named(S) = {} /\ e \notin S
<1>1. /\ Len(out) \in Nat /\ Len(out') = Len(out) + 1
      /\ \A i \in 1 .. Len(out) : out'[i] = out[i]
      /\ out'[Len(out) + 1] = <<e, k>>
  OBVIOUS
<1>2. \A S, i : i \in Named(S)' <=> \/ i \in Named(S)
                                    \/ i = Len(out) + 1 /\ e \in S
  <2> SUFFICES ASSUME NEW S, NEW i
               PROVE  i \in Named(S)' <=> i \in Named(S) \/ (i = Len(out) + 1 /\ e \in S)
    OBVIOUS
  <2>1. CASE i = Len(out) + 1
    BY <1>1, <2>1 DEF Named
  <2>2. CASE i \in 1 .. Len(out)
    BY <1>1, <2>2 DEF Named
  <2>3. CASE i \notin 1 .. Len(out) + 1
    BY <1>1, <2>3 DEF Named
  <2> QED
    BY <1>1, <2>1, <2>2, <2>3
<1>3. \A S : Named(S)' = {} <=> Named(S) = {} /\ e \notin S
  BY <1>2
<1> DEFINE f == [i \in 1 .. Len(out) |-> out[i][2]]
           g == [i \in 1 .. Len(out') |-> out'[i][2]]
           S == Named({"text"})
           T == Named({"text"})'
<1>4. \A i \in 1 .. Len(out) : g[i] = f[i] /\ (i \in T <=> i \in S)
  <2>1. \A i \in 1 .. Len(out) : i \in T <=> i \in S
    BY <1>1, <1>2
  <2>2. \A i \in 1 .. Len(out) : g[i] = f[i]
    BY <1>1
  <2> QED
    BY <2>1, <2>2
<1>5. g[Len(out) + 1] = k /\ (Len(out) + 1 \in T <=> e = "text")
  <2>1. Len(out) + 1 \notin S
    BY <1>1 DEF Named
  <2>2. Len(out) + 1 \in T <=> e = "text"
    BY <1>2, <2>1
  <2>3. Len(out) + 1 \in 1 .. Len(out')
    BY <1>1
  <2> QED
    BY <1>1, <2>2, <2>3
<1>6. Relayed = InOrder(f, S, Len(out)) /\ Relayed' = InOrder(g, T, Len(out) + 1)
  BY <1>1 DEF Relayed
<1> HIDE DEF f, g, S, T
<1>7. InOrder(g, T, Len(out)) = InOrder(f, S, Len(out))
  BY <1>1, <1>4, InOrderSame
<1>8. InOrder(g, T, Len(out) + 1) = IF Len(out) + 1 \in T
                                    THEN Append(InOrder(g, T, Len(out)), g[Len(out) + 1])
                                    ELSE InOrder(g, T, Len(out))
  BY <1>1, InOrderNext
<1>9. Relayed' = IF e = "text" THEN Append(Relayed, k) ELSE Relayed
  BY <1>5, <1>6, <1>7, <1>8, Zenon
<1> QED
  BY <1>3, <1>9

\* Frame by frame, the texts of the frames that were gone through.
LEMMA TextsNext ==
    ASSUME NEW n \in 0 .. Len(wire), n < Len(wire), wire \in Seq(Frames)
    PROVE  /\ TextsIn(0) = <<>>
           /\ TextsIn(n + 1) = IF wire[n + 1].kind = "content" THEN Append(TextsIn(n), n + 1)
                               ELSE TextsIn(n)
<1> DEFINE f == [k \in 1 .. Len(wire) |-> k]
<1>1. n \in Nat /\ n + 1 \in 1 .. Len(wire) /\ f[n + 1] = n + 1
  OBVIOUS
<1>2. n + 1 \in FramesWithText <=> wire[n + 1].kind = "content"
  BY <1>1 DEF FramesWithText
<1> HIDE DEF f
<1>3. InOrder(f, FramesWithText, n + 1) =
         IF n + 1 \in FramesWithText THEN Append(InOrder(f, FramesWithText, n), f[n + 1])
         ELSE InOrder(f, FramesWithText, n)
  BY <1>1, InOrderNext
<1>4. InOrder(f, FramesWithText, 0) = <<>>
  BY InOrderNext
<1>5. TextsIn(n + 1) = InOrder(f, FramesWithText, n + 1)
      /\ TextsIn(n) = InOrder(f, FramesWithText, n) /\ TextsIn(0) = InOrder(f, FramesWithText, 0)
  BY DEF TextsIn, f
<1>6. TextsIn(n + 1) = IF n + 1 \in FramesWithText THEN Append(TextsIn(n), n + 1) ELSE TextsIn(n)
  BY <1>1, <1>3, <1>5, Zenon
<1> QED
  BY <1>2, <1>4, <1>5, <1>6, Zenon

\* The texts of a part of the answer are a beginning of its texts.
LEMMA TextsBegin ==
    ASSUME wire \in Seq(Frames), NEW m \in Nat, NEW n \in 0 .. Len(wire), m <= n
    PROVE  /\ TextsIn(m) \in Seq(Nat) /\ TextsIn(n) \in Seq(Nat)
           /\ Len(TextsIn(m)) <= Len(TextsIn(n))
           /\ \A i \in 1 .. Len(TextsIn(m)) : TextsIn(m)[i] = TextsIn(n)[i]
<1> DEFINE f == [k \in 1 .. Len(wire) |-> k]
<1>1. n \in Nat /\ \A k \in 1 .. n : f[k] \in Nat
  OBVIOUS
<1>2. TextsIn(m) = InOrder(f, FramesWithText, m) /\ TextsIn(n) = InOrder(f, FramesWithText, n)
  BY DEF TextsIn
<1> HIDE DEF f
<1> DEFINE In(k) == InOrder(f, FramesWithText, k)
<1>3. /\ In(m) \in Seq(Nat) /\ In(n) \in Seq(Nat) /\ Len(In(m)) <= Len(In(n))
      /\ \A i \in 1 .. Len(In(m)) : In(m)[i] = In(n)[i]
  BY <1>1, InOrderGrows, SMTT(60)
<1> QED
  BY <1>2, <1>3

\* What the response is, is settled from the start.
LEMMA Settled ==
    ASSUME wire' = wire, size' = size
    PROVE  /\ AnswerEnd' = AnswerEnd /\ WholeAnswer' = WholeAnswer /\ Texts' = Texts
           /\ \A n : TextsIn(n)' = TextsIn(n)
<1>1. AnswerEnd' = AnswerEnd
  BY Zenon DEF AnswerEnd
<1>2. WholeAnswer' = WholeAnswer
  BY <1>1, Zenon DEF WholeAnswer
<1> QED
  BY <1>1, <1>2 DEF Texts, TextsIn, FramesWithText

-----------------------------------------------------------------------------
(* Step by step.                                                            *)

\* Nothing has been read and nothing relayed at first.
LEMMA ReadInit == Init => ReadInv
<1> SUFFICES ASSUME Init PROVE ReadInv
  OBVIOUS
<1>1. TypeOK
  BY TypesInit
<1>2. wire \in Seq(Frames) /\ 0 \in Nat /\ Len(wire) \in Nat /\ handled = 0
  BY <1>1 DEF TypeOK, Init
<1>3. TextsIn(handled) = <<>>
  <2>1. InOrder([k \in 1 .. Len(wire) |-> k], FramesWithText, 0) = <<>>
    BY <1>2, InOrderNext
  <2> QED
    BY <1>2, <2>1 DEF TextsIn
<1>4. Relayed = <<>>
  <2>1. InOrder([i \in 1 .. Len(out) |-> out[i][2]], Named({"text"}), 0) = <<>>
    BY <1>2, InOrderNext
  <2>2. Len(out) = 0
    BY DEF Init
  <2> QED
    BY <2>1, <2>2 DEF Relayed
<1>5. \A k \in 1 .. handled : wire[k].kind \in Ordinary
  BY <1>2
<1> QED
  BY <1>3, <1>4, <1>5 DEF Init, DecoderInit, ReadInv

\* Every step keeps it.
LEMMA ReadStep == TypeOK /\ ReadInv /\ [Next]_vars => ReadInv'
<1> SUFFICES ASSUME TypeOK, ReadInv, [Next]_vars PROVE ReadInv'
  OBVIOUS
<1>1. DecoderTypes /\ GeneratorTypes
  BY TypesOfBoth
<1>2. DecoderTypes' /\ wire' = wire /\ size' = size /\ taken' >= taken
  BY <1>1, DecoderTypesStep, StepsOfDecoder
<1>3. /\ AnswerEnd' = AnswerEnd /\ WholeAnswer' = WholeAnswer
      /\ \A n : TextsIn(n)' = TextsIn(n)
  BY <1>2, Settled
<1>4. /\ taken \in 0 .. Len(wire) /\ taken' \in 0 .. Len(wire) /\ Len(wire) \in Nat
      /\ handled \in 0 .. taken
  BY <1>1, <1>2 DEF DecoderTypes, GeneratorTypes
<1>5. ASSUME handled' = handled,
             chat' \in {"none", "created", "status", "chunk"} => handled' = taken',
             finalized' => chat' \in {"end", "dead"},
             sse' \in {"begin", "yield_start", "yield_block"} => chat' = "none",
             chat' = "end" \/ (sse' \in {"close", "verdict"} /\ ~failure') => Seen,
             Relayed' = Relayed
      PROVE  ReadInv'
  <2>1. TextsIn(handled)' = TextsIn(handled)
    BY <1>3, <1>5 DEF TextsIn
  <2>2. Seen' <=> Seen
    BY <1>3, <1>5 DEF Seen
  <2>3. wire' # <<>> => size' > StartOf(wire', Len(wire'))
    BY <1>2 DEF ReadInv
  <2>4. \A k \in 1 .. handled' : wire'[k].kind \in Ordinary
    BY <1>2, <1>5 DEF ReadInv
  <2> QED
    BY <1>5, <2>1, <2>2, <2>3, <2>4 DEF ReadInv
<1>6. ASSUME NEW from, ChatFails(from) PROVE ReadInv'
  <2>1. /\ handled' = handled /\ chat' = "dead" /\ sse' = "close" /\ failure' = TRUE
        /\ out' = out
    BY <1>6 DEF ChatFails, ChatGoes
  <2> QED
    BY <1>5, <2>1, RelayedSilent
<1>7. ASSUME NEW from, Ended(from), Seen PROVE ReadInv'
  <2>1. handled' = handled /\ chat' = "end" /\ sse = "pull" /\ sse' = "pull" /\ out' = out
    BY <1>7 DEF Ended, ChatGoes
  <2> QED
    BY <1>5, <1>7, <2>1, RelayedSilent
<1>8. ASSUME UNCHANGED <<decoderVars, handled, out>>, UNCHANGED failure,
             \/ UNCHANGED <<chat, sse>>
             \/ sse = "pull" /\ sse' = "pull" /\ chat' \in {"status", "chunk"}
                             /\ chat \in {"created", "status"}
             \/ chat = "frames" /\ chat' = "chunk" /\ sse = "pull" /\ sse' = "pull"
                                /\ handled = taken
             \/ chat = "end" /\ chat' = "end" /\ sse' = "close"
             \/ sse \in {"begin", "yield_block"} /\ sse' = "pull" /\ chat' = "created"
             \/ sse = "yield" /\ sse' = "pull" /\ chat' = chat
             \/ (sse' = "gone" \/ (sse = "close" /\ sse' = "verdict"))
                /\ chat' = (IF chat = "none" THEN "none" ELSE "dead")
      PROVE  ReadInv'
  <2>1. finalized' = finalized /\ taken' = taken /\ handled' = handled /\ Relayed' = Relayed
        /\ failure' = failure
    BY <1>8, RelayedSilent DEF decoderVars
  <2> QED
    BY <1>5, <1>8, <2>1 DEF ReadInv
<1>9. CASE Request
  BY <1>6, <1>8, <1>9 DEF Request, ChatGoes, decoderVars
<1>10. CASE Status
  BY <1>6, <1>8, <1>10 DEF Status, ChatGoes, decoderVars
<1>11. CASE Chunk
  <2> SUFFICES ASSUME NEW n, Feed(n, FALSE), ChatGoes("chunk", "frames"),
                      UNCHANGED <<provider, conn, handled, sse, failure, out>>
               PROVE  ReadInv'
    BY <1>6, <1>11, Zenon DEF Chunk
  <2>1. sse = "pull" /\ sse' = "pull" /\ chat' = "frames" /\ ~finalized'
    BY DEF Feed, ChatGoes
  <2> QED
    BY <1>5, <2>1, RelayedSilent
<1>12. CASE ChunkFails \/ BadFrame
  BY <1>6, <1>12 DEF ChunkFails, BadFrame
<1>13. CASE FramesDone
  <2>1. handled = taken
    BY <1>4, <1>13 DEF FramesDone, MoreFrames
  <2> QED
    BY <1>8, <1>13, <2>1 DEF FramesDone, ChatGoes, decoderVars
<1>14. CASE BodyEnds
  <2> SUFFICES ASSUME fed = size, Finalize(FALSE), Ended("chunk") PROVE Seen
    BY <1>6, <1>7, <1>14 DEF BodyEnds, EndChecked
  <2>1. handled = taken /\ ~finalized
    BY DEF ReadInv, Ended, ChatGoes
  <2>2. ~(Buffered > 0)
    BY <2>1, Zenon DEF Finalize
  <2>3. EndOf(wire, taken) = size /\ size \in Nat
    <3>1. EndOf(wire, taken) \in Nat /\ EndOf(wire, taken) <= size /\ size \in Nat
      BY <1>1, <1>4, EndsGrow DEF DecoderTypes
    <3> QED
      BY <2>2, <3>1 DEF Buffered
  <2>4. taken = Len(wire)
    <3> SUFFICES ASSUME taken # Len(wire) PROVE FALSE
      OBVIOUS
    <3>1. wire # <<>> /\ Len(wire) - 1 \in 0 .. Len(wire) /\ taken <= Len(wire) - 1
      BY <1>4
    <3>2. size > EndOf(wire, Len(wire) - 1)
      BY <3>1 DEF ReadInv, StartOf
    <3>3. \A m, n \in 0 .. Len(wire) : m < n => EndOf(wire, m) < EndOf(wire, n)
      BY <1>1, EndsGrow DEF DecoderTypes
    <3>4. EndOf(wire, Len(wire) - 1) \in Nat
      BY <1>1, <3>1, EndsGrow DEF DecoderTypes
    <3> QED
      BY <1>4, <2>3, <3>1, <3>2, <3>3, <3>4
  <2>5. AnswerEnd = handled + 1
    BY <1>1, <1>4, <2>1, <2>4, EndsThere DEF DecoderTypes, ReadInv
  <2> QED
    BY <1>4, <2>1, <2>3, <2>4, <2>5 DEF Seen, WholeAnswer
<1>15. CASE TerminalFrame
  <2> SUFFICES ASSUME MoreFrames, Frame = "terminal" PROVE Seen
    BY <1>6, <1>7, <1>15 DEF TerminalFrame
  <2>1. handled + 1 \in 0 .. Len(wire) /\ handled + 1 <= taken /\ handled \in 0 .. Len(wire)
    BY <1>4 DEF MoreFrames
  <2>2. AnswerEnd = handled + 1
    BY <1>1, <2>1, EndsThere DEF DecoderTypes, ReadInv, Frame, Ordinary
  <2>3. EndOf(wire, handled + 1) <= EndOf(wire, taken)
    <3>1. EndOf(wire, taken) \in Nat /\ EndOf(wire, handled + 1) \in Nat
      BY <1>1, <1>4, <2>1, EndsGrow DEF DecoderTypes
    <3>2. handled + 1 < taken => EndOf(wire, handled + 1) < EndOf(wire, taken)
      BY <1>1, <1>4, <2>1, EndsGrow DEF DecoderTypes
    <3> QED
      BY <1>4, <2>1, <3>1, <3>2
  <2>4. size >= EndOf(wire, handled + 1)
    <3>1. EndOf(wire, taken) \in Nat /\ EndOf(wire, handled + 1) \in Nat
      BY <1>1, <1>4, <2>1, EndsGrow DEF DecoderTypes
    <3> QED
      BY <1>1, <2>3, <3>1 DEF DecoderTypes
  <2> QED
    BY <1>4, <2>1, <2>2, <2>4 DEF Seen, WholeAnswer, Frame
<1>16. CASE EventFrame
  <2>1. /\ handled < taken /\ wire[handled + 1].kind \in Ordinary
        /\ sse = "pull" /\ sse' \in {"pull", "yield"} /\ chat = "frames" /\ chat' = "frames"
        /\ handled' = handled + 1 /\ finalized' = finalized
    BY <1>16 DEF EventFrame, MoreFrames, ChatGoes, decoderVars, Frame, Ordinary
  <2>2. handled + 1 \in 0 .. MaxFrames /\ handled \in 0 .. Len(wire) /\ handled < Len(wire)
    BY <1>1, <1>4, <2>1, Sizes DEF DecoderTypes
  <2>3. Relayed' = IF wire[handled + 1].kind = "content" THEN Append(Relayed, handled + 1)
                   ELSE Relayed
    <3>1. CASE Frame = "content"
      <4>1. out' = Append(out, <<"text", handled + 1>>)
        BY <1>16, <3>1 DEF EventFrame, EmitText
      <4>2. Relayed' = Append(Relayed, handled + 1)
        BY <1>1, <2>2, <4>1, RelayedEmits DEF GeneratorTypes, Names
      <4> QED
        BY <3>1, <4>2 DEF Frame
    <3>2. CASE Frame # "content"
      BY <1>16, <3>2, RelayedSilent DEF EventFrame, Frame
    <3> QED
      BY <3>1, <3>2
  <2>4. TextsIn(handled + 1) = IF wire[handled + 1].kind = "content"
                               THEN Append(TextsIn(handled), handled + 1) ELSE TextsIn(handled)
    BY <1>1, <2>2, TextsNext DEF DecoderTypes
  <2>5. Relayed' = TextsIn(handled + 1)
    BY <2>3, <2>4, Zenon DEF ReadInv
  <2>6. TextsIn(handled)' = TextsIn(handled + 1)
    BY <1>2, <2>1 DEF TextsIn, FramesWithText
  <2>7. \A k \in 1 .. handled' : wire'[k].kind \in Ordinary
    BY <1>2, <1>4, <2>1 DEF ReadInv
  <2>8. wire' # <<>> => size' > StartOf(wire', Len(wire'))
    BY <1>2 DEF ReadInv
  <2> QED
    BY <2>1, <2>5, <2>6, <2>7, <2>8 DEF ReadInv
<1>17. CASE EndEvent
  BY <1>8, <1>17 DEF EndEvent, ChatGoes, decoderVars
<1>18. ASSUME NEW from \in {"begin", "yield_block"}, CreateUpstream(from) PROVE ReadInv'
  BY <1>8, <1>18 DEF CreateUpstream, SseGoes, decoderVars
<1>19. ASSUME NEW from, NEW to, NEW e \in Names, SseGoes(from, to), Emit(e), SseOnly,
              e # "text", to \notin {"begin", "close", "verdict"},
              to \in {"yield_start", "yield_block"} => from \in {"begin", "yield_start"}
       PROVE  ReadInv'
  <2>1. Relayed' = Relayed
    BY <1>1, <1>19, RelayedEmits, Sizes DEF Emit, GeneratorTypes
  <2>2. /\ handled' = handled /\ chat' = chat /\ sse' = to /\ sse = from
        /\ finalized' = finalized /\ taken' = taken
    BY <1>19 DEF SseOnly, SseGoes, decoderVars
  <2> QED
    BY <1>5, <1>19, <2>1, <2>2 DEF ReadInv
<1>20. CASE OpenStream
  BY <1>18, <1>19, <1>20 DEF OpenStream, Names
<1>21. CASE Resume
  BY <1>8, <1>21 DEF Resume, SseGoes, SseOnly, decoderVars
<1>22. CASE Close \/ Leave
  BY <1>8, <1>22 DEF Close, Leave, SseGoes, UpstreamClosed, decoderVars
<1>23. CASE Verdict
  <2>1. {"error", "finish", "[DONE]", "block_stop", "message_delta", "message_stop"} \subseteq Names
    BY DEF Names, Verdicts
  <2>2. (IF failure THEN "error" ELSE "finish") \in {"error", "finish"}
    OBVIOUS
  <2> QED
    BY <1>19, <1>23, <2>1, <2>2 DEF Verdict, AfterError
<1>24. CASE Finished \/ UNCHANGED vars
  BY <1>8, <1>24 DEF Finished, vars, streamVars, decoderVars
<1> QED
  BY <1>9, <1>10, <1>11, <1>12, <1>13, <1>14, <1>15, <1>16, <1>17, <1>20, <1>21, <1>22,
     <1>23, <1>24 DEF Next, ChatStep, SseStep

-----------------------------------------------------------------------------
(* Steps of Relay.                                                          *)

\* The verdict the HTTP client has seen, before and after a step.
LEMMA VerdictValue ==
    /\ sse = "gone" => VerdictSent = "gone"
    /\ sse # "gone" /\ Named({"error"}) # {} => VerdictSent = "error"
    /\ sse # "gone" /\ Named(Verdicts) = {} => VerdictSent = "none"
    /\ sse # "gone" /\ Named({"error"}) = {} /\ Named(Verdicts) # {} => VerdictSent = "complete"
    /\ sse' = "gone" => VerdictSent' = "gone"
    /\ sse' # "gone" /\ Named({"error"})' # {} => VerdictSent' = "error"
    /\ sse' # "gone" /\ Named(Verdicts)' = {} => VerdictSent' = "none"
    /\ sse' # "gone" /\ Named({"error"})' = {} /\ Named(Verdicts)' # {}
          => VerdictSent' = "complete"
<1>1. Named(Verdicts) = {} => Named({"error"}) = {}
  BY DEF Named, Verdicts
<1>2. Named(Verdicts)' = {} => Named({"error"})' = {}
  BY DEF Named, Verdicts
<1>3. Verdicts' = Verdicts
  BY DEF Verdicts
<1> QED
  BY <1>1, <1>2, <1>3, Zenon DEF VerdictSent

\* Before the verdict there is none.
LEMMA NoneYet ==
    ASSUME StreamInv, sse \in Undecided PROVE sse # "gone" /\ Named(Verdicts) = {}
  BY DEF StreamInv, ReleaseInv, Undecided, Neutral, Named

\* An event that is no text relays nothing.
LEMMA EventEmits ==
    ASSUME GeneratorTypes, NEW e \in Names, e # "text", Emit(e)
    PROVE  /\ Relayed' = Relayed
           /\ \A S : Named(S)' = {} <=> Named(S) = {} /\ e \notin S
<1>1. /\ out \in Seq(Names \X (0 .. MaxFrames)) /\ 0 \in 0 .. MaxFrames
      /\ out' = Append(out, <<e, 0>>)
  BY Sizes DEF Emit, GeneratorTypes
<1>2. Relayed' = IF e = "text" THEN Append(Relayed, 0) ELSE Relayed
  BY <1>1, RelayedEmits, Zenon
<1>3. \A S : Named(S)' = {} <=> Named(S) = {} /\ e \notin S
  BY <1>1, RelayedEmits, Zenon
<1> QED
  BY <1>2, <1>3, Zenon

\* The first state is one of the promise.
LEMMA RelayInit == Init => Answer!Init
<1> SUFFICES ASSUME Init PROVE Answer!Init
  OBVIOUS
<1>1. WholeAnswer \in BOOLEAN
  <2>1. CASE AnswerEnd <= Len(wire)
    BY <2>1, Zenon DEF WholeAnswer
  <2>2. CASE ~(AnswerEnd <= Len(wire))
    BY <2>2, Zenon DEF WholeAnswer
  <2> QED
    BY <2>1, <2>2
<1>2. Relayed = <<>>
  <2>1. InOrder([i \in 1 .. Len(out) |-> out[i][2]], Named({"text"}), 0) = <<>>
    BY InOrderNext
  <2>2. Len(out) = 0
    BY DEF Init
  <2> QED
    BY <2>1, <2>2 DEF Relayed
<1>3. VerdictSent = "none"
  BY VerdictValue DEF Init, Named
<1> QED
  BY <1>1, <1>2, <1>3 DEF Answer!Init

\* Every step is one of the promise, or invisible.
LEMMA RelayStep ==
    TypeOK /\ StreamInv /\ StreamInv' /\ ReadInv /\ [Next]_vars
        => [Answer!Next]_(Answer!relayVars)
<1> SUFFICES ASSUME TypeOK, StreamInv, StreamInv', ReadInv, [Next]_vars
             PROVE  Answer!Next \/ UNCHANGED Answer!relayVars
  BY Zenon
<1> USE DEF Answer!Next, Answer!relayVars
<1>1. DecoderTypes /\ GeneratorTypes /\ wire' = wire /\ size' = size
  BY TypesOfBoth, DecoderTypesStep, StepsOfDecoder
<1>2. Texts' = Texts /\ WholeAnswer' = WholeAnswer
  BY <1>1, Settled
<1>3. ASSUME out' = out, sse = sse' \/ (sse # "gone" /\ sse' # "gone")
      PROVE  UNCHANGED Answer!relayVars
  <2>1. Relayed' = Relayed /\ \A S : Named(S)' = Named(S)
    BY <1>3, RelayedSilent
  <2>2. VerdictSent' = VerdictSent
    BY <1>3, <2>1, VerdictValue
  <2> QED
    BY <1>2, <2>1, <2>2
<1>4. ASSUME NEW from, ChatFails(from) PROVE UNCHANGED Answer!relayVars
  BY <1>3, <1>4 DEF ChatFails, ChatGoes
<1>5. ASSUME NEW from, Ended(from) PROVE UNCHANGED Answer!relayVars
  BY <1>3, <1>5 DEF Ended, ChatGoes
<1>6. CASE Request \/ Status \/ Chunk \/ ChunkFails \/ BadFrame \/ FramesDone
  BY <1>3, <1>4, <1>6 DEF Request, Status, Chunk, ChunkFails, BadFrame, FramesDone
<1>7. CASE BodyEnds \/ TerminalFrame
  BY <1>4, <1>5, <1>7 DEF BodyEnds, EndChecked, TerminalFrame
<1>8. CASE EventFrame
  <2>1. CASE Frame # "content"
    BY <1>3, <1>8, <2>1 DEF EventFrame
  <2>2. CASE Frame = "content"
    <3>1. /\ handled < taken /\ sse = "pull" /\ sse' = "yield"
          /\ out' = Append(out, <<"text", handled + 1>>)
      BY <1>8, <2>2 DEF EventFrame, MoreFrames, ChatGoes, EmitText
    <3>2. VerdictSent = "none" /\ VerdictSent' = "none"
      <4>1. Named(Verdicts) = {}
        BY <3>1, NoneYet DEF Undecided
      <4>2. Named(Verdicts)' = {}
        BY <3>1 DEF StreamInv, ReleaseInv, Undecided, Neutral, Named, Verdicts
      <4> QED
        BY <3>1, <4>1, <4>2, VerdictValue
    <3>3. /\ handled \in 0 .. Len(wire) /\ handled < Len(wire) /\ handled + 1 \in 0 .. MaxFrames
          /\ wire \in Seq(Frames) /\ wire[handled + 1].kind = "content"
      BY <1>1, <2>2, <3>1, Sizes DEF DecoderTypes, GeneratorTypes, Frame
    <3>4. Relayed' = Append(Relayed, handled + 1)
      BY <1>1, <3>1, <3>3, RelayedEmits DEF GeneratorTypes, Names
    <3>5. TextsIn(handled + 1) = Append(Relayed, handled + 1)
      <4>1. TextsIn(handled + 1) = Append(TextsIn(handled), handled + 1)
        BY <3>3, TextsNext
      <4> QED
        BY <4>1, Zenon DEF ReadInv
    <3>6. handled + 1 <= AnswerEnd - 1 /\ AnswerEnd - 1 \in 0 .. Len(wire)
      <4>1. \A k \in 1 .. handled + 1 : wire[k].kind \in Ordinary
        BY <3>3 DEF ReadInv, Ordinary
      <4>2. handled + 1 \in 0 .. Len(wire) /\ handled + 1 < AnswerEnd
        BY <3>3, <4>1, EndsThere
      <4> QED
        BY <3>3, <4>2, FirstOther
    <3>7. /\ TextsIn(handled + 1) \in Seq(Nat) /\ Len(TextsIn(handled + 1)) <= Len(Texts)
          /\ \A i \in 1 .. Len(TextsIn(handled + 1)) : TextsIn(handled + 1)[i] = Texts[i]
          /\ Texts \in Seq(Nat)
      <4>1. Texts = TextsIn(AnswerEnd - 1) /\ handled + 1 \in Nat
        BY <3>3 DEF Texts, TextsIn
      <4> QED
        BY <3>3, <3>6, <4>1, TextsBegin
    <3>8. Relayed \in Seq(Nat)
      <4>1. TextsIn(handled) \in Seq(Nat)
        BY <3>3, TextsBegin
      <4> QED
        BY <4>1, Zenon DEF ReadInv
    <3>9. Len(Relayed) < Len(Texts) /\ Texts[Len(Relayed) + 1] = handled + 1
      <4>1. /\ Len(TextsIn(handled + 1)) = Len(Relayed) + 1 /\ Len(Relayed) \in Nat
            /\ TextsIn(handled + 1)[Len(Relayed) + 1] = handled + 1
        BY <3>5, <3>8, <3>3
      <4>2. Len(Relayed) + 1 \in 1 .. Len(TextsIn(handled + 1)) /\ Len(Texts) \in Nat
        BY <3>7, <4>1
      <4>3. Texts[Len(Relayed) + 1] = handled + 1
        BY <3>7, <4>1, <4>2
      <4> QED
        BY <3>7, <4>1, <4>2, <4>3
    <3>10. Answer!Text
      BY <1>2, <3>2, <3>4, <3>9 DEF Answer!Text
    <3> QED
      BY <3>10
  <2> QED
    BY <2>1, <2>2
<1>9. CASE EndEvent
  BY <1>3, <1>9 DEF EndEvent, ChatGoes
<1>10. ASSUME NEW from, NEW to, NEW e \in Names, Emit(e), sse = from, sse' = to,
              from # "gone", to # "gone", e \notin Verdicts \cup {"text"}
       PROVE  UNCHANGED Answer!relayVars
  <2>1. /\ Relayed' = Relayed
        /\ \A S : Named(S)' = {} <=> Named(S) = {} /\ e \notin S
    BY <1>1, <1>10, EventEmits
  <2>2. (Named(Verdicts)' = {} <=> Named(Verdicts) = {})
        /\ (Named({"error"})' = {} <=> Named({"error"}) = {})
    BY <1>10, <2>1 DEF Verdicts
  <2>3. VerdictSent' = VerdictSent
    BY <1>10, <2>2, VerdictValue
  <2> QED
    BY <1>2, <2>1, <2>3
<1>11. CASE OpenStream
  <2>1. ASSUME NEW from, from # "gone", CreateUpstream(from) PROVE UNCHANGED Answer!relayVars
    BY <1>3, <2>1 DEF CreateUpstream, SseGoes
  <2> QED
    BY <1>10, <1>11, <2>1 DEF OpenStream, SseGoes, Names, Verdicts
<1>12. CASE Resume
  BY <1>3, <1>12 DEF Resume, SseGoes
<1>13. CASE Close
  BY <1>3, <1>13 DEF Close, SseGoes
<1>14. CASE Leave
  <2>1. VerdictSent # "gone" /\ VerdictSent' = "gone"
    BY <1>14, VerdictValue DEF Leave
  <2>2. Relayed' = Relayed
    BY <1>14, RelayedSilent DEF Leave
  <2>3. Answer!Leave
    BY <1>2, <2>1, <2>2 DEF Answer!Leave
  <2> QED
    BY <2>3
<1>15. ASSUME sse = "verdict", sse' # "gone", Emit("error") PROVE Answer!Error
  <2>1. VerdictSent = "none"
    BY <1>15, NoneYet, VerdictValue DEF Undecided
  <2>2. Relayed' = Relayed /\ Named({"error"})' # {}
    <3>1. "error" \in Names
      BY DEF Names, Verdicts
    <3>2. Relayed' = Relayed /\ \A S : Named(S)' = {} <=> Named(S) = {} /\ "error" \notin S
      BY <1>1, <1>15, <3>1, EventEmits
    <3> QED
      BY <3>2
  <2> QED
    BY <1>2, <1>15, <2>1, <2>2, VerdictValue DEF Answer!Error
<1>16. ASSUME sse = "verdict", sse' # "gone", ~failure,
              NEW e \in {"finish", "block_stop"}, Emit(e)
       PROVE  Answer!Complete
  <2>1. VerdictSent = "none" /\ Named(Verdicts) = {}
    BY <1>16, NoneYet, VerdictValue DEF Undecided
  <2>2. e \in Names /\ e \in Verdicts /\ e # "error" /\ e # "text"
    BY <1>16 DEF Names, Verdicts
  <2>3. Relayed' = Relayed /\ Named({"error"})' = {} /\ Named(Verdicts)' # {}
    <3>1. /\ Relayed' = Relayed
          /\ \A S : Named(S)' = {} <=> Named(S) = {} /\ e \notin S
      BY <1>1, <1>16, <2>2, EventEmits
    <3>2. Named({"error"}) = {}
      BY <2>1 DEF Named, Verdicts
    <3>3. Named({"error"})' = {}
      BY <2>2, <3>1, <3>2
    <3>4. Named(Verdicts)' # {}
      BY <2>2, <3>1 DEF Verdicts
    <3> QED
      BY <3>1, <3>3, <3>4
  <2>4. VerdictSent' = "complete"
    BY <1>16, <2>3, VerdictValue
  <2>5. WholeAnswer /\ Relayed = Texts
    <3>1. handled = AnswerEnd - 1 /\ WholeAnswer /\ Relayed = TextsIn(handled)
      BY <1>16 DEF ReadInv, Seen
    <3> QED
      BY <3>1, Zenon DEF Texts, TextsIn
  <2> QED
    BY <1>2, <2>1, <2>3, <2>4, <2>5 DEF Answer!Complete
<1>17. CASE Verdict
  <2>1. CASE /\ provider = "openai" /\ SseGoes("verdict", "done")
             /\ Emit(IF failure THEN "error" ELSE "finish")
    <3>1. CASE failure
      BY <1>15, <2>1, <3>1 DEF SseGoes
    <3>2. CASE ~failure
      BY <1>16, <2>1, <3>2 DEF SseGoes
    <3> QED
      BY <3>1, <3>2
  <2>2. CASE provider = "anthropic" /\ failure /\ SseGoes("verdict", AfterError) /\ Emit("error")
    BY <1>15, <2>2 DEF SseGoes, AfterError
  <2>3. CASE provider = "anthropic" /\ ~failure /\ SseGoes("verdict", "message_delta")
             /\ Emit("block_stop")
    BY <1>16, <2>3 DEF SseGoes
  <2>4. ASSUME NEW from \in {"done", "message_delta", "message_stop"},
               NEW to \in {"over", "message_stop"}, SseGoes(from, to),
               NEW e \in {"[DONE]", "message_delta", "message_stop"}, Emit(e)
        PROVE  UNCHANGED Answer!relayVars
    BY <1>10, <2>4 DEF SseGoes, Names, Verdicts
  <2> QED
    BY <1>17, <2>1, <2>2, <2>3, <2>4 DEF Verdict
<1>18. CASE Finished \/ UNCHANGED vars
  BY <1>3, <1>18 DEF Finished, vars, streamVars
<1> QED
  BY <1>6, <1>7, <1>8, <1>9, <1>11, <1>12, <1>13, <1>14, <1>17, <1>18
  DEF Next, ChatStep, SseStep

-----------------------------------------------------------------------------
(* The theorems.                                                            *)

\* Whatever upstream sends, in whatever chunks, and wherever it fails, what
\* the HTTP client has received so far is a beginning of a stream of its
\* protocol, and a whole stream when the generator has returned.
THEOREM StreamsAreWellFormed == Spec => []WellFormed
<1>1. StreamInv => WellFormed
  <2> SUFFICES ASSUME StreamInv, sse = "over" PROVE out[Len(out)][1] \in Last
    BY DEF StreamInv, Parsable, WellFormed
  <2> QED
    BY DEF StreamInv, PlaceInv, OpenaiPlace, AnthropicPlace, LastName, Last
<1> QED
  BY <1>1, StreamSafety, PTL

\* The upstream response is closed before any verdict is sent, and when the
\* client leaves.
THEOREM ReleasedFirst == Spec => []ReleasedBeforeVerdict
<1>1. StreamInv => ReleasedBeforeVerdict
  BY DEF StreamInv, ReleaseInv, Undecided, Neutral, ReleasedBeforeVerdict, Named
<1> QED
  BY <1>1, StreamSafety, PTL

\* The types, for answers of any length.
THEOREM TypeInvariant == Spec => []TypeOK
  BY TypesInit, TypesStep, PTL DEF Spec

\* Whatever upstream sends, and however it is cut, the HTTP client gets the
\* texts of the answer in order and is told that the answer is complete only
\* when it has them all and the answer was whole.
THEOREM StreamIsRelay == Spec => RelaySpec
<1>1. Spec => [](TypeOK /\ StreamInv /\ ReadInv)
  BY TypesInit, TypesStep, StreamInit, StreamStep, ReadInit, ReadStep, PTL DEF Spec
<1> QED
  BY <1>1, RelayInit, RelayStep, PTL DEF Spec, RelaySpec, Answer!Spec
=============================================================================
