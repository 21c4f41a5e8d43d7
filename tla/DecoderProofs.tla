---------------------------- MODULE DecoderProofs ----------------------------
(***************************************************************************)
(* The three loops that take apart what comes from outside - the rows of the *)
(* database, the body of a request, the header block of a frame - each does  *)
(* what its definition without a loop says, for every table, every body of   *)
(* the shapes of RequestAdapter and every buffer: MCDecoders checks the same *)
(* on small ones.  Each has its invariant, which relates what the loop has   *)
(* read so far to that definition.                                           *)
(***************************************************************************)
EXTENDS HeaderBlock, DatabaseRows, RequestAdapter, TLAPS, WellFoundedInduction

\* A set of natural numbers has a least one.
LEMMA Least ==
    ASSUME NEW S \in SUBSET Nat, S # {}
    PROVE  \E n \in S : \A m \in S : n <= m
<1> DEFINE Less == {p \in Nat \X Nat : p[1] < p[2]}
<1>1. IsWellFoundedOn(Less, Nat)
  BY NatLessThanWellFounded DEF OpToRel
<1>2. \A m, n \in Nat : m < n => <<m, n>> \in Less
  OBVIOUS
<1> HIDE DEF Less
<1>3. PICK n \in S : \A m \in S : <<m, n>> \notin Less
  BY <1>1, WFMin, Zenon
<1>4. ASSUME NEW m \in S PROVE n <= m
  <2>1. m \in Nat /\ n \in Nat /\ ~(m < n)
    BY <1>2, <1>3
  <2> QED
    BY <2>1
<1> QED
  BY <1>4

-----------------------------------------------------------------------------
(* Rows of a database.                                                      *)

\* What the loop over a table has found before row n.
FoundIn(found, t, rows, n) ==
    \/ found = Nothing /\ \A i \in rows : i >= n
    \/ \E i \in rows : i < n /\ found = From(t, i) /\ \A j \in rows : i <= j

\* The profile is settled once the table of the state has been read.
ArnSettled ==
    IF ArnRows("auth") # {} THEN IsFirst(arn, "auth", ArnRows("auth"))
    ELSE IF ArnRows("state") # {} THEN IsFirst(arn, "state", ArnRows("state"))
    ELSE arn = Nothing

End(t) == Len(tables[t]) + 1

RowInv ==
    /\ \A t \in Tables : Len(tables[t]) \in Nat
    /\ row \in Nat
    /\ table \in {"query", "auth", "state", "secrets", "done", "failed"}
    /\ table = "query" => bearer = Nothing /\ arn = Nothing
    /\ table = "auth" =>
          /\ row \in 1 .. End("auth")
          /\ FoundIn(bearer, "auth", TokenRows, row)
          /\ FoundIn(arn, "auth", ArnRows("auth"), row)
    /\ table = "state" =>
          /\ row \in 1 .. End("state")
          /\ FoundIn(bearer, "auth", TokenRows, End("auth"))
          /\ ArnRows("auth") = {} /\ FoundIn(arn, "state", ArnRows("state"), row)
          /\ arn = Nothing
    /\ table = "secrets" =>
          /\ row \in 1 .. End("secrets")
          /\ FoundIn(bearer, "auth", TokenRows, End("auth"))
          /\ \A i \in Secrets : bearer = Nothing => i >= row
          /\ ArnSettled
    /\ table = "done" =>
          /\ IF TokenRows # {} THEN FoundIn(bearer, "auth", TokenRows, End("auth")) /\ bearer # Nothing
                               ELSE IsFirst(bearer, "secrets", Secrets)
          /\ ArnSettled

\* A place in a table is something.
LEMMA FromIsSomething ==
    ASSUME NEW t, NEW i
    PROVE  From(t, i) # Nothing /\ From(t, i)[1] = t /\ From(t, i)[2] = i
  BY DEF From, Nothing

\* The rows that hold something are rows.
LEMMA RowsAreRows ==
    /\ TokenRows \subseteq Rows("auth") /\ Secrets \subseteq Rows("secrets")
    /\ \A t : ArnRows(t) \subseteq Rows(t)
  BY DEF TokenRows, Secrets, ArnRows

\* A row without a name, or with one that says nothing, holds no profile.
LEMMA ProfilesHaveNames ==
    ASSUME NEW value PROVE ~HoldsProfile("", value)
<1>1. Says("") = {}
  BY Zenon DEF Says
<1> QED
  BY <1>1 DEF HoldsProfile

\* One more row of a table: who has found something keeps it, who has not
\* takes it if it holds something.
LEMMA OneMoreRow ==
    ASSUME NEW found, NEW next, NEW t, NEW rows \in SUBSET Nat, NEW n \in Nat,
           FoundIn(found, t, rows, n),
           found = Nothing /\ n \in rows => next = From(t, n),
           ~(found = Nothing /\ n \in rows) => next = found
    PROVE  FoundIn(next, t, rows, n + 1)
<1>1. CASE found = Nothing
  <2>1. \A i \in rows : i >= n
    BY <1>1, FromIsSomething, Zenon DEF FoundIn
  <2>2. CASE n \in rows
    BY <1>1, <2>1, <2>2 DEF FoundIn
  <2>3. CASE n \notin rows
    <3>1. next = Nothing
      BY <1>1, <2>3
    <3>2. \A i \in rows : i >= n + 1
      BY <2>1, <2>3
    <3> QED
      BY <3>1, <3>2 DEF FoundIn
  <2> QED
    BY <2>2, <2>3
<1>2. CASE found # Nothing
  <2>1. PICK i \in rows : i < n /\ found = From(t, i) /\ \A j \in rows : i <= j
    BY <1>2 DEF FoundIn
  <2>2. next = From(t, i) /\ i < n + 1
    BY <1>2, <2>1
  <2> QED
    BY <2>1, <2>2, Zenon DEF FoundIn
<1> QED
  BY <1>1, <1>2

\* What has been found at the end of a table is the first that it has.
LEMMA AtTheEnd ==
    ASSUME NEW found, NEW t, NEW rows, NEW n \in Nat, rows \subseteq 1 .. n,
           FoundIn(found, t, rows, n + 1)
    PROVE  /\ found = Nothing <=> rows = {}
           /\ rows # {} => IsFirst(found, t, rows) /\ found[1] = t /\ found[2] \in rows
<1>1. CASE rows = {}
  BY <1>1 DEF FoundIn
<1>2. CASE rows # {}
  <2>1. ~(\A i \in rows : i >= n + 1)
    <3>1. PICK i \in rows : i \in 1 .. n
      BY <1>2
    <3>2. ~(i >= n + 1)
      BY <3>1
    <3> QED
      BY <3>1, <3>2
  <2>2. PICK i \in rows : found = From(t, i) /\ \A j \in rows : i <= j
    BY <2>1 DEF FoundIn
  <2>3. found # Nothing /\ found[1] = t /\ found[2] = i
    BY <2>2, FromIsSomething
  <2> QED
    BY <1>2, <2>2, <2>3 DEF IsFirst
<1> QED
  BY <1>1, <1>2

\* Nothing has been found before the first row.
LEMMA RowsInit == RowInit => RowInv
<1> SUFFICES ASSUME RowInit PROVE RowInv
  OBVIOUS
<1>1. PICK a, b, c \in 0 .. MaxRows :
         \E auth \in [1 .. a -> AuthRows], state \in [1 .. b -> StateRows],
            secrets \in [1 .. c -> SecretRows] :
            tables = [auth |-> auth, state |-> state, secrets |-> secrets]
  BY DEF RowInit
<1>0. PICK auth \in [1 .. a -> AuthRows], state \in [1 .. b -> StateRows],
           secrets \in [1 .. c -> SecretRows] :
         tables = [auth |-> auth, state |-> state, secrets |-> secrets]
  BY <1>1
<1>2. Len(auth) \in Nat /\ Len(state) \in Nat /\ Len(secrets) \in Nat
  OBVIOUS
<1>3. \A t \in Tables : Len(tables[t]) \in Nat
  BY <1>0, <1>2 DEF Tables
<1> QED
  BY <1>3 DEF RowInit, RowInv

\* Every step keeps it.
LEMMA RowsStep == RowInv /\ [RowNext]_rowVars => RowInv'
<1> SUFFICES ASSUME RowInv, [RowNext]_rowVars PROVE RowInv'
  OBVIOUS
<1>1. CASE UNCHANGED rowVars
  BY <1>1 DEF rowVars, RowInv, FoundIn, ArnSettled, End, TokenRows, Secrets, ArnRows, Rows,
     Key, Value, Row, IsFirst
<1>2. ASSUME tables' = tables
      PROVE  /\ TokenRows' = TokenRows /\ Secrets' = Secrets
             /\ ArnRows("auth")' = ArnRows("auth") /\ ArnRows("state")' = ArnRows("state")
             /\ \A t : End(t)' = End(t)
             /\ \A t \in Tables : Len(tables'[t]) \in Nat
  BY <1>2 DEF TokenRows, Secrets, ArnRows, Rows, Key, Value, Row, End, RowInv
<1>3. /\ Len(tables["auth"]) \in Nat /\ Len(tables["state"]) \in Nat
      /\ Len(tables["secrets"]) \in Nat /\ row \in Nat
  BY DEF RowInv, Tables
<1>4. /\ TokenRows \in SUBSET Nat /\ ArnRows("auth") \in SUBSET Nat /\ ArnRows("state") \in SUBSET Nat
      /\ TokenRows \subseteq 1 .. Len(tables["auth"]) /\ ArnRows("auth") \subseteq 1 .. Len(tables["auth"])
      /\ ArnRows("state") \subseteq 1 .. Len(tables["state"])
      /\ Secrets \subseteq 1 .. Len(tables["secrets"])
  BY RowsAreRows DEF Rows
<1>13. \A i \in Secrets : i >= 1 /\ i \in Nat
  <2> SUFFICES ASSUME NEW i \in Secrets PROVE i >= 1 /\ i \in Nat
    OBVIOUS
  <2>1. i \in 1 .. Len(tables["secrets"])
    BY <1>4
  <2> QED
    BY <2>1
<1>5. CASE Query
  <2>1. tables' = tables /\ row' = 1 /\ bearer' = bearer /\ arn' = arn /\ table = "query"
        /\ table' \in {"auth", "failed"}
    BY <1>5 DEF Query, Goto
  <2>2. FoundIn(Nothing, "auth", TokenRows, 1) /\ FoundIn(Nothing, "auth", ArnRows("auth"), 1)
    BY <1>4 DEF FoundIn
  <2>3. bearer = Nothing /\ arn = Nothing
    BY <2>1 DEF RowInv
  <2>4. 1 \in 1 .. End("auth")
    BY <1>3 DEF End
  <2>5. FoundIn(bearer, "auth", TokenRows, row)' /\ FoundIn(arn, "auth", ArnRows("auth"), row)'
    BY <1>2, <2>1, <2>2, <2>3 DEF FoundIn
  <2> QED
    BY <1>2, <2>1, <2>4, <2>5 DEF RowInv
<1>6. CASE AuthRow
  <2> DEFINE key == Key("auth", row)  value == Value("auth", row)
  <2>1. /\ table = "auth" /\ table' = "auth" /\ row <= Len(tables["auth"]) /\ row' = row + 1
        /\ tables' = tables
        /\ bearer' = IF key # "" /\ bearer = Nothing /\ HoldsToken(key, value)
                     THEN From("auth", row) ELSE bearer
        /\ arn' = IF key # "" /\ arn = Nothing /\ HoldsProfile(key, value)
                  THEN From("auth", row) ELSE arn
    BY <1>6 DEF AuthRow, More, NextRow
  <2>0. /\ row \in Rows("auth") /\ row \in 1 .. End("auth") /\ row + 1 \in 1 .. End("auth")
        /\ row + 1 \in Nat
    <3>1. row \in 1 .. End("auth") /\ row <= Len(tables["auth"])
      BY <2>1 DEF RowInv
    <3>2. row \in 1 .. Len(tables["auth"]) /\ row + 1 \in 1 .. (Len(tables["auth"]) + 1)
      BY <1>3, <3>1
    <3> QED
      BY <3>1, <3>2 DEF Rows, End
  <2>2. row \in Rows("auth")
    BY <2>0
  <2>3. row \in TokenRows <=> key # "" /\ HoldsToken(key, value)
    BY <2>2 DEF TokenRows
  <2>4. row \in ArnRows("auth") <=> key # "" /\ HoldsProfile(key, value)
    BY <2>2, ProfilesHaveNames DEF ArnRows
  <2>5. FoundIn(bearer', "auth", TokenRows, row + 1)
    <3>1. FoundIn(bearer, "auth", TokenRows, row)
      BY <2>1 DEF RowInv
    <3> HIDE DEF key, value
    <3> QED
      BY <1>3, <1>4, <2>1, <2>3, <3>1, OneMoreRow
  <2>6. FoundIn(arn', "auth", ArnRows("auth"), row + 1)
    <3>1. FoundIn(arn, "auth", ArnRows("auth"), row)
      BY <2>1 DEF RowInv
    <3> HIDE DEF key, value
    <3> QED
      BY <1>3, <1>4, <2>1, <2>4, <3>1, OneMoreRow
  <2>7. row' \in Nat /\ row' \in 1 .. End("auth")
    BY <2>0, <2>1
  <2>8. FoundIn(bearer, "auth", TokenRows, row)' /\ FoundIn(arn, "auth", ArnRows("auth"), row)'
    BY <1>2, <2>1, <2>5, <2>6 DEF FoundIn
  <2> QED
    BY <1>2, <2>1, <2>7, <2>8 DEF RowInv
<1>7. ASSUME tables' = tables, bearer' = bearer, arn' = arn, row' = 1, table' = "secrets",
             FoundIn(bearer, "auth", TokenRows, End("auth")), ArnSettled
      PROVE  RowInv'
  <2>1. FoundIn(bearer, "auth", TokenRows, End("auth"))'
    BY <1>2, <1>7 DEF FoundIn
  <2>2. \A i \in Secrets' : i >= row'
    BY <1>2, <1>13, <1>7
  <2>3. ArnSettled'
    BY <1>2, <1>7 DEF ArnSettled, IsFirst
  <2>4. row' \in Nat /\ row' \in 1 .. End("secrets")'
    BY <1>2, <1>3, <1>7 DEF End
  <2> QED
    BY <1>2, <1>7, <2>1, <2>2, <2>3, <2>4 DEF RowInv
<1>8. CASE AuthEnd
  <2>1. /\ table = "auth" /\ row = End("auth") /\ row' = 1 /\ table' = IF arn = Nothing THEN "state" ELSE "secrets"
        /\ tables' = tables /\ bearer' = bearer /\ arn' = arn
    BY <1>3, <1>8 DEF AuthEnd, Goto, RowInv, End
  <2>2. FoundIn(bearer, "auth", TokenRows, End("auth")) /\ FoundIn(arn, "auth", ArnRows("auth"), End("auth"))
    BY <2>1 DEF RowInv
  <2>3. /\ arn = Nothing <=> ArnRows("auth") = {}
        /\ ArnRows("auth") # {} => IsFirst(arn, "auth", ArnRows("auth"))
    BY <1>3, <1>4, <2>2, AtTheEnd DEF End
  <2>4. CASE arn = Nothing
    <3>1. FoundIn(bearer, "auth", TokenRows, End("auth"))'
      BY <1>2, <2>1, <2>2 DEF FoundIn
    <3>2. FoundIn(arn, "state", ArnRows("state"), row)'
      BY <1>2, <1>4, <2>1, <2>4 DEF FoundIn
    <3>3. row' \in Nat /\ row' \in 1 .. End("state")'
      BY <1>2, <1>3, <2>1 DEF End
    <3> QED
      BY <1>2, <2>1, <2>3, <2>4, <3>1, <3>2, <3>3 DEF RowInv
  <2>5. CASE arn # Nothing
    <3>1. ArnSettled
      BY <2>3, <2>5 DEF ArnSettled
    <3> QED
      BY <1>7, <2>1, <2>2, <2>5, <3>1
  <2> QED
    BY <2>4, <2>5
<1>9. CASE StateRow
  <2>0. table = "state" /\ row \in 1 .. End("state") /\ row <= Len(tables["state"])
    BY <1>9 DEF StateRow, More, RowInv
  <2>5. row \in Rows("state")
    <3>1. row \in 1 .. Len(tables["state"])
      BY <1>3, <2>0
    <3> QED
      BY <3>1 DEF Rows
  <2>1. /\ table = "state" /\ row \in Rows("state") /\ row \in 1 .. End("state") /\ arn = Nothing
        /\ FoundIn(bearer, "auth", TokenRows, End("auth"))
        /\ ArnRows("auth") = {} /\ FoundIn(arn, "state", ArnRows("state"), row)
        /\ tables' = tables /\ bearer' = bearer /\ row <= Len(tables["state"])
    BY <1>9, <2>0, <2>5 DEF StateRow, RowInv
  <2>2. \A i \in ArnRows("state") : i >= row
    BY <2>1, FromIsSomething, Zenon DEF FoundIn
  <2>3. CASE row \in ArnRows("state")
    <3>1. Key("state", row) # "" /\ HoldsProfile(Key("state", row), Value("state", row))
      BY <2>3, ProfilesHaveNames DEF ArnRows
    <3>2. arn' = From("state", row) /\ table' = "secrets" /\ row' = 1
      BY <1>9, <3>1 DEF StateRow, Goto
    <3>3. ArnSettled'
      BY <1>2, <2>1, <2>2, <2>3, <3>2, FromIsSomething DEF ArnSettled, IsFirst
    <3>4. FoundIn(bearer, "auth", TokenRows, End("auth"))'
      BY <1>2, <2>1 DEF FoundIn
    <3>5. \A i \in Secrets' : i >= row'
      BY <1>2, <1>13, <2>1, <3>2
    <3>6. row' \in Nat /\ row' \in 1 .. End("secrets")'
      BY <1>2, <1>3, <2>1, <3>2 DEF End
    <3> QED
      BY <1>2, <2>1, <3>2, <3>3, <3>4, <3>5, <3>6 DEF RowInv
  <2>4. CASE row \notin ArnRows("state")
    <3>1. ~HoldsProfile(Key("state", row), Value("state", row))
      BY <2>1, <2>4 DEF ArnRows
    <3>2. arn' = arn /\ row' = row + 1 /\ table' = "state"
      BY <1>9, <2>1, <3>1 DEF StateRow, NextRow
    <3>3. FoundIn(arn, "state", ArnRows("state"), row)'
      <4>1. \A i \in ArnRows("state") : i >= row + 1
        BY <1>3, <1>4, <2>2, <2>4
      <4> QED
        BY <1>2, <2>1, <3>2, <4>1 DEF FoundIn
    <3>4. FoundIn(bearer, "auth", TokenRows, End("auth"))'
      BY <1>2, <2>1 DEF FoundIn
    <3>5. row' \in Nat /\ row' \in 1 .. End("state")'
      BY <1>2, <1>3, <2>1, <3>2 DEF End
    <3> QED
      BY <1>2, <2>1, <3>2, <3>3, <3>4, <3>5 DEF RowInv
  <2> QED
    BY <2>3, <2>4
<1>10. CASE StateEnd
  <2>1. /\ table = "state" /\ row = End("state") /\ arn = Nothing /\ ArnRows("auth") = {}
        /\ FoundIn(bearer, "auth", TokenRows, End("auth"))
        /\ FoundIn(arn, "state", ArnRows("state"), End("state"))
        /\ tables' = tables /\ bearer' = bearer /\ arn' = arn /\ row' = 1 /\ table' = "secrets"
    BY <1>3, <1>10 DEF StateEnd, Goto, RowInv, End
  <2>2. ArnRows("state") = {}
    BY <1>3, <1>4, <2>1, AtTheEnd DEF End
  <2>3. ArnSettled
    BY <2>1, <2>2 DEF ArnSettled
  <2> QED
    BY <1>7, <2>1, <2>3
<1>11. CASE SecretRow
  <2>0. table = "secrets" /\ row \in 1 .. End("secrets") /\ row <= Len(tables["secrets"])
    BY <1>11 DEF SecretRow, More, RowInv
  <2>1. /\ table = "secrets" /\ bearer = Nothing /\ row \in Rows("secrets") /\ row \in 1 .. End("secrets")
        /\ FoundIn(bearer, "auth", TokenRows, End("auth")) /\ ArnSettled
        /\ \A i \in Secrets : i >= row
        /\ tables' = tables /\ arn' = arn /\ row <= Len(tables["secrets"])
    BY <1>3, <1>11, <2>0 DEF SecretRow, RowInv, Rows, End
  <2>2. TokenRows = {}
    BY <1>3, <1>4, <2>1, AtTheEnd DEF End
  <2>3. ArnSettled'
    BY <1>2, <2>1 DEF ArnSettled, IsFirst
  <2>4. row \in Secrets <=> /\ Value("secrets", row) # [text |-> "blank"]
                            /\ HoldsSecret(Key("secrets", row), Value("secrets", row))
    BY <2>1 DEF Secrets
  <2>5. CASE row \in Secrets
    <3>1. bearer' = From("secrets", row) /\ table' = "done" /\ row' = 1
      BY <1>11, <2>4, <2>5 DEF SecretRow, Goto
    <3>2. IsFirst(bearer, "secrets", Secrets)'
      BY <1>2, <2>1, <2>5, <3>1, FromIsSomething DEF IsFirst
    <3> QED
      BY <1>2, <2>1, <2>2, <2>3, <3>1, <3>2 DEF RowInv
  <2>6. CASE row \notin Secrets
    <3>1. bearer' = bearer /\ table' = "secrets" /\ row' = row + 1
      BY <1>11, <2>1, <2>4, <2>6 DEF SecretRow, NextRow
    <3>2. FoundIn(bearer, "auth", TokenRows, End("auth"))'
      BY <1>2, <2>1, <3>1 DEF FoundIn
    <3>3. \A i \in Secrets' : i >= row'
      <4> SUFFICES ASSUME NEW i \in Secrets PROVE i >= row + 1
        BY <1>2, <2>1, <3>1
      <4>1. i \in Nat /\ i >= row /\ i # row
        BY <1>13, <2>1, <2>6
      <4> QED
        BY <1>3, <4>1
    <3>4. row' \in Nat /\ row' \in 1 .. End("secrets")'
      BY <1>2, <1>3, <2>1, <3>1 DEF End
    <3> QED
      BY <1>2, <2>1, <2>3, <3>1, <3>2, <3>3, <3>4 DEF RowInv
  <2> QED
    BY <2>5, <2>6
<1>12. CASE SecretEnd
  <2>1. /\ table = "secrets" /\ row \in 1 .. End("secrets") /\ ArnSettled
        /\ FoundIn(bearer, "auth", TokenRows, End("auth"))
        /\ tables' = tables /\ arn' = arn /\ bearer' = bearer /\ row' = 1
        /\ table' = IF bearer = Nothing THEN "failed" ELSE "done"
    BY <1>12 DEF SecretEnd, Goto, RowInv
  <2>2. ArnSettled'
    BY <1>2, <2>1 DEF ArnSettled, IsFirst
  <2>3. CASE bearer = Nothing
    BY <1>2, <2>1, <2>3 DEF RowInv
  <2>4. CASE bearer # Nothing
    <3>1. TokenRows # {}
      BY <1>3, <1>4, <2>1, <2>4, AtTheEnd DEF End
    <3>2. FoundIn(bearer, "auth", TokenRows, End("auth"))'
      BY <1>2, <2>1 DEF FoundIn
    <3> QED
      BY <1>2, <2>1, <2>2, <2>4, <3>1, <3>2 DEF RowInv
  <2> QED
    BY <2>3, <2>4
<1> QED
  BY <1>1, <1>5, <1>6, <1>8, <1>9, <1>10, <1>11, <1>12 DEF RowNext

\* In any database, the credentials that are read are the first that its tables
\* have to offer, and a refresh token is never taken for a bearer token.
THEOREM FirstRows == RowSpec => []FirstRowsWin
<1>1. RowInv => FirstRowsWin
  <2> SUFFICES ASSUME RowInv PROVE FirstRowsWin
    OBVIOUS
  <2>1. /\ TokenRows \subseteq 1 .. Len(tables["auth"]) /\ Len(tables["auth"]) \in Nat
    BY RowsAreRows DEF Rows, RowInv, Tables
  <2>2. \A i \in TokenRows : IsNoRefreshToken("auth", i)
    BY DEF TokenRows, HoldsToken, IsNoRefreshToken
  <2>3. \A i \in Secrets : IsNoRefreshToken("secrets", i)
    BY DEF Secrets, HoldsSecret, IsNoRefreshToken
  <2>4. FoundIn(bearer, "auth", TokenRows, End("auth")) =>
           /\ bearer = Nothing <=> TokenRows = {}
           /\ TokenRows # {} => IsFirst(bearer, "auth", TokenRows)
    BY <2>1, AtTheEnd DEF End
  <2>5. ASSUME table = "done"
        PROVE  /\ IF TokenRows # {} THEN IsFirst(bearer, "auth", TokenRows)
                                    ELSE IsFirst(bearer, "secrets", Secrets)
               /\ IsNoRefreshToken(bearer[1], bearer[2])
               /\ ArnSettled
    <3>1. CASE TokenRows # {}
      <4>1. IsFirst(bearer, "auth", TokenRows)
        BY <2>4, <2>5, <3>1 DEF RowInv
      <4> QED
        BY <2>2, <2>5, <3>1, <4>1 DEF RowInv, IsFirst
    <3>2. CASE TokenRows = {}
      BY <2>3, <2>5, <3>2 DEF RowInv, IsFirst
    <3> QED
      BY <3>1, <3>2
  <2> QED
    BY <2>4, <2>5 DEF FirstRowsWin, RowInv, ArnSettled
<1> QED
  BY <1>1, RowsInit, RowsStep, PTL DEF RowSpec

-----------------------------------------------------------------------------
(* Requests.                                                                *)

\* The transcript of a system text and of the first n messages.
SystemPart == IF payload.system.is = "absent" THEN <<>> ELSE << <<"system", 0>> >>
UpTo(n) == [i \in 1 .. n |-> <<Message(i).role, i>>]
Transcript(n) == SystemPart \o UpTo(n)

\* The checks behind each one.
AfterStream == {"max_tokens", "accepted"}
AfterLast == AfterStream \cup {"stream"}
AfterMessages == AfterLast \cup {"message"}
AfterModel == AfterMessages \cup {"messages"}
AfterSystem == AfterModel \cup {"model"}
AfterFields == AfterSystem \cup {"system"}
AfterObject == AfterFields \cup {"fields"}

GoodUpTo(n) == \A i \in 1 .. n : GoodMessage(Message(i))

\* What has passed a check is as the check wants it, and the transcript holds
\* what has been read.
AdapterInv ==
    /\ payload \in Payloads
    /\ check \in AfterObject \cup {"object", "refused"}
    /\ check = "refused" => error \in Faults
    /\ check \in AfterObject => payload.object
    /\ check \in AfterFields => ~Unknown
    /\ check \in AfterSystem => payload.system.is = "absent" \/ Readable(payload.system)
    /\ check \in AfterModel => payload.model = "ok"
    /\ check \in AfterMessages => payload.messages.is = "list" /\ Items # <<>>
    /\ check \in {"object", "fields", "system"} => messages = <<>>
    /\ check \in {"model", "messages"} => messages = SystemPart
    /\ check \notin AfterMessages \cup {"refused"} => index = 1
    /\ check = "message" =>
          index \in 1 .. (Len(Items) + 1) /\ GoodUpTo(index - 1) /\ messages = Transcript(index - 1)
    /\ check \in AfterLast =>
          /\ GoodUpTo(Len(Items)) /\ messages = Transcript(Len(Items))
          /\ Message(Len(Items)).role = "user"
    /\ check \in AfterStream => payload.stream # "bad"
    /\ check = "accepted" => payload.max_tokens # "bad"

\* The parts of a request.
LEMMA Shapes ==
    ASSUME payload \in Payloads
    PROVE  /\ payload.object \in BOOLEAN /\ payload.system \in TextShapes
           /\ Items \in Seq(MessageShapes) /\ Len(Items) \in Nat
           /\ \A i \in 1 .. Len(Items) :
                 /\ Message(i) \in MessageShapes /\ Message(i).content \in TextShapes
                 /\ Message(i).role \in STRING
<1>1. payload.object \in BOOLEAN /\ payload.system \in TextShapes /\ Items \in Seq(MessageShapes)
  BY PayloadsHaveShape DEF Items
<1>2. \A i \in 1 .. Len(Items) : Message(i) \in MessageShapes
  BY <1>1 DEF Message
<1>3. \A m \in MessageShapes : m.content \in TextShapes /\ m.role \in STRING
  BY DEF MessageShapes
<1> QED
  BY <1>1, <1>2, <1>3

\* A text is readable exactly if nothing is wrong with it, and what is reported
\* of one that is not is wrong with it.
LEMMA TextFault ==
    ASSUME NEW content \in TextShapes, NEW i
    PROVE  /\ Readable(content) <=> TextFaults(content, i) = {}
           /\ ~Readable(content) => ContentFault(content, i) \in TextFaults(content, i)
<1>1. /\ content.is \in {"absent", "bad", "text", "blocks"} /\ content.blocks \in Seq(STRING)
      /\ content.is # "blocks" => content.blocks = <<>>
      /\ content = [is |-> content.is, blocks |-> content.blocks]
  BY DEF TextShapes
<1>2. content = [is |-> "blocks", blocks |-> <<>>] <=> content.is = "blocks" /\ content.blocks = <<>>
  BY <1>1
<1>3. Faulty(content) \in SUBSET Nat /\ (content.blocks = <<>> => Faulty(content) = {})
  BY <1>1 DEF Faulty
<1>4. Faulty(content) # {} => FirstOf(Faulty(content)) \in Faulty(content)
  BY <1>3, Least, Zenon DEF FirstOf
<1> DEFINE whole == {f \in {Field("content", i, 0)} :
                        content.is \in {"absent", "bad"} \/ content = [is |-> "blocks", blocks |-> <<>>]}
           inside == {Field(content.blocks[j], i, j) : j \in Faulty(content)}
<1>5. TextFaults(content, i) = inside \cup whole
  BY DEF TextFaults
<1>6. whole = {} <=> ~(content.is \in {"absent", "bad"} \/ (content.is = "blocks" /\ content.blocks = <<>>))
  BY <1>2
<1>7. inside = {} <=> Faulty(content) = {}
  OBVIOUS
<1>8. Readable(content) <=> inside = {} /\ whole = {}
  BY <1>1, <1>3, <1>6, <1>7 DEF Readable
<1>9. ASSUME ~Readable(content) PROVE ContentFault(content, i) \in inside \cup whole
  <2>1. CASE content.is = "blocks" /\ Faulty(content) # {}
    <3>1. ContentFault(content, i) =
             Field(content.blocks[FirstOf(Faulty(content))], i, FirstOf(Faulty(content)))
      BY <2>1, Zenon DEF ContentFault
    <3> QED
      BY <1>4, <2>1, <3>1
  <2>2. CASE ~(content.is = "blocks" /\ Faulty(content) # {})
    <3>1. ContentFault(content, i) = Field("content", i, 0)
      BY <2>2, Zenon DEF ContentFault
    <3>2. inside = {}
      BY <1>1, <1>3, <1>7, <2>2
    <3>3. whole # {}
      BY <1>8, <1>9, <3>2
    <3> QED
      BY <3>1, <3>3
  <2> QED
    BY <2>1, <2>2
<1> QED
  BY <1>5, <1>8, <1>9

\* What is reported of a message is wrong with it, and nothing is wrong with
\* one that passes, unless it is the last one.
LEMMA MessageFaulty ==
    ASSUME payload \in Payloads, NEW i \in 1 .. Len(Items)
    PROVE  /\ ~GoodMessage(Message(i)) => MessageFault(Message(i), i) \in MessageFaults(i)
           /\ GoodMessage(Message(i)) /\ (i = Len(Items) => Message(i).role = "user")
                 => MessageFaults(i) = {}
           /\ Message(i).object /\ i = Len(Items) /\ Message(i).role # "user"
                 => Field("role", i, 0) \in MessageFaults(i)
<1> DEFINE m == Message(i)
           roles == IF i = Len(Items) THEN {"user"} ELSE Roles
<1>1. m.content \in TextShapes
  BY Shapes
<1>2. CASE ~m.object
  <2>1. MessageFaults(i) = {Field("message", i, 0)} /\ MessageFault(m, i) = Field("message", i, 0)
    BY <1>2, Zenon DEF MessageFaults, MessageFault
  <2> QED
    BY <1>2, <2>1 DEF GoodMessage
<1>3. CASE m.object
  <2>1. MessageFaults(i) = TextFaults(m.content, i)
                           \cup {f \in {Field("unknown", i, 0)} : m.extra}
                           \cup {f \in {Field("role", i, 0)} : m.role \notin roles}
    BY <1>3, Zenon DEF MessageFaults
  <2>2. m.role \notin Roles => m.role \notin roles
    BY DEF Roles
  <2> HIDE DEF m, roles
  <2>3. ASSUME ~GoodMessage(m) PROVE MessageFault(m, i) \in MessageFaults(i)
    <3>1. CASE m.extra
      <4>1. MessageFault(m, i) = Field("unknown", i, 0)
        BY <1>3, <3>1, Zenon DEF MessageFault
      <4> QED
        BY <2>1, <3>1, <4>1
    <3>2. CASE ~m.extra /\ m.role \notin Roles
      <4>1. MessageFault(m, i) = Field("role", i, 0)
        BY <1>3, <3>2, Zenon DEF MessageFault
      <4> QED
        BY <2>1, <2>2, <3>2, <4>1
    <3>3. CASE ~m.extra /\ m.role \in Roles
      <4>1. MessageFault(m, i) = ContentFault(m.content, i)
        BY <1>3, <3>3, Zenon DEF MessageFault
      <4>2. ~Readable(m.content)
        BY <1>3, <2>3, <3>3 DEF GoodMessage
      <4> QED
        BY <1>1, <2>1, <4>1, <4>2, TextFault DEF m
    <3> QED
      BY <3>1, <3>2, <3>3
  <2>4. ASSUME GoodMessage(m), i = Len(Items) => m.role = "user" PROVE MessageFaults(i) = {}
    <3>1. m.role \in roles
      BY <2>4 DEF GoodMessage, roles
    <3>2. TextFaults(m.content, i) = {} /\ ~m.extra
      BY <1>1, <2>4, TextFault DEF GoodMessage, m
    <3> QED
      BY <2>1, <3>1, <3>2
  <2>5. ASSUME i = Len(Items), m.role # "user" PROVE Field("role", i, 0) \in MessageFaults(i)
    <3>1. m.role \notin roles
      BY <2>5 DEF roles
    <3> QED
      BY <2>1, <3>1
  <2> QED
    BY <2>3, <2>4, <2>5 DEF m
<1> QED
  BY <1>2, <1>3

\* The faults of a request, one by one.
LEMMA FaultsOf ==
    ASSUME payload \in Payloads, payload.object
    PROVE  /\ payload.model # "ok" => Field("model", 0, 0) \in Faults
           /\ payload.stream = "bad" => Field("stream", 0, 0) \in Faults
           /\ payload.max_tokens = "bad" => Field("max_tokens", 0, 0) \in Faults
           /\ Unknown => Field("unknown", 0, 0) \in Faults
           /\ anthropic /\ payload.system.is # "absent" => TextFaults(payload.system, 0) \subseteq Faults
           /\ ~(payload.messages.is = "list" /\ Items # <<>>) => Field("messages", 0, 0) \in Faults
           /\ payload.messages.is = "list" /\ Items # <<>> =>
                 \A i \in 1 .. Len(Items) : MessageFaults(i) \subseteq Faults
<1> DEFINE system == IF anthropic /\ payload.system.is # "absent" THEN TextFaults(payload.system, 0) ELSE {}
           list == IF payload.messages.is = "list" /\ Items # <<>>
                   THEN UNION {MessageFaults(i) : i \in 1 .. Len(Items)}
                   ELSE {Field("messages", 0, 0)}
<1>1. Faults = {f \in {Field("model", 0, 0)} : payload.model # "ok"}
               \cup {f \in {Field("stream", 0, 0)} : payload.stream = "bad"}
               \cup {f \in {Field("max_tokens", 0, 0)} : payload.max_tokens = "bad"}
               \cup {f \in {Field("unknown", 0, 0)} : Unknown}
               \cup system \cup list
  BY Zenon DEF Faults
<1>2. anthropic /\ payload.system.is # "absent" => system = TextFaults(payload.system, 0)
  OBVIOUS
<1>3. ~(payload.messages.is = "list" /\ Items # <<>>) => list = {Field("messages", 0, 0)}
  BY Zenon
<1>4. payload.messages.is = "list" /\ Items # <<>> =>
         list = UNION {MessageFaults(i) : i \in 1 .. Len(Items)}
  BY Zenon
<1>5. payload.messages.is = "list" /\ Items # <<>> =>
         \A i \in 1 .. Len(Items) : MessageFaults(i) \subseteq list
  BY <1>4
<1> HIDE DEF system, list
<1> QED
  BY <1>1, <1>2, <1>3, <1>5

\* A request without faults.
LEMMA NoFaults ==
    ASSUME payload \in Payloads, payload.object, ~Unknown, payload.model = "ok",
           payload.system.is = "absent" \/ Readable(payload.system),
           payload.messages.is = "list", Items # <<>>, GoodUpTo(Len(Items)),
           Message(Len(Items)).role = "user", payload.stream # "bad", payload.max_tokens # "bad"
    PROVE  Faults = {}
<1> DEFINE system == IF anthropic /\ payload.system.is # "absent" THEN TextFaults(payload.system, 0) ELSE {}
           list == IF payload.messages.is = "list" /\ Items # <<>>
                   THEN UNION {MessageFaults(i) : i \in 1 .. Len(Items)}
                   ELSE {Field("messages", 0, 0)}
<1>1. Faults = {f \in {Field("model", 0, 0)} : payload.model # "ok"}
               \cup {f \in {Field("stream", 0, 0)} : payload.stream = "bad"}
               \cup {f \in {Field("max_tokens", 0, 0)} : payload.max_tokens = "bad"}
               \cup {f \in {Field("unknown", 0, 0)} : Unknown}
               \cup system \cup list
  BY Zenon DEF Faults
<1>2. system = {}
  BY Shapes, TextFault
<1>3. \A i \in 1 .. Len(Items) : MessageFaults(i) = {}
  BY MessageFaulty DEF GoodUpTo
<1>4. list = {}
  BY <1>3
<1> HIDE DEF system, list
<1> QED
  BY <1>1, <1>2, <1>4

\* Sequences of the same elements are the same.
LEMMA SameElements ==
    ASSUME NEW V, NEW s \in Seq(V), NEW t \in Seq(V), Len(s) = Len(t),
           \A i \in 1 .. Len(s) : s[i] = t[i]
    PROVE  s = t
<1>1. s = [i \in 1 .. Len(s) |-> s[i]] /\ t = [i \in 1 .. Len(t) |-> t[i]]
  OBVIOUS
<1> QED
  BY <1>1

\* The transcript of one more message.
LEMMA TranscriptNext ==
    ASSUME payload \in Payloads, NEW n \in 1 .. Len(Items)
    PROVE  /\ Append(Transcript(n - 1), <<Message(n).role, n>>) = Transcript(n)
           /\ Transcript(n)[Len(Transcript(n))] = <<Message(n).role, n>>
<1> DEFINE V == {<<"system", 0>>} \cup {<<Message(i).role, i>> : i \in 1 .. Len(Items)}
<1>1. SystemPart \in Seq(V)
  <2>1. <<"system", 0>> \in V
    OBVIOUS
  <2> HIDE DEF V
  <2>3. <<>> \in Seq(V)
    OBVIOUS
  <2>2. << <<"system", 0>> >> \in Seq(V)
    BY <2>1
  <2> QED
    BY <2>3, <2>2, Zenon DEF SystemPart
<1>2. n \in Nat /\ Len(Items) \in Nat /\ n - 1 \in Nat
  BY Shapes
<1>3. /\ UpTo(n - 1) \in Seq(V) /\ Len(UpTo(n - 1)) = n - 1
      /\ UpTo(n) \in Seq(V) /\ Len(UpTo(n)) = n
      /\ \A i \in 1 .. n : UpTo(n)[i] = <<Message(i).role, i>>
      /\ \A i \in 1 .. (n - 1) : UpTo(n - 1)[i] = <<Message(i).role, i>>
  <2>1. \A i \in 1 .. n : <<Message(i).role, i>> \in V
    BY <1>2, Shapes
  <2> HIDE DEF V
  <2>2. UpTo(n) \in [1 .. n -> V] /\ UpTo(n - 1) \in [1 .. (n - 1) -> V]
    BY <1>2, <2>1 DEF UpTo
  <2>3. UpTo(n) \in Seq(V) /\ Len(UpTo(n)) = n
    BY <1>2, <2>2
  <2>4. UpTo(n - 1) \in Seq(V) /\ Len(UpTo(n - 1)) = n - 1
    BY <1>2, <2>2
  <2> QED
    BY <1>2, <2>3, <2>4 DEF UpTo
<1>4. <<Message(n).role, n>> \in V
  BY <1>2, Shapes
<1> DEFINE x == <<Message(n).role, n>>  s == SystemPart  t == UpTo(n - 1)  u == UpTo(n)
<1>11. u[n] = x /\ \A i \in 1 .. (n - 1) : u[i] = t[i]
  <2>1. n \in 1 .. n /\ \A i \in 1 .. (n - 1) : i \in 1 .. n
    BY <1>2
  <2> HIDE DEF V
  <2> QED
    BY <1>3, <2>1
<1>5. /\ s \in Seq(V) /\ t \in Seq(V) /\ u \in Seq(V) /\ x \in V
      /\ Len(t) = n - 1 /\ Len(u) = n /\ u[n] = x
      /\ \A i \in 1 .. (n - 1) : u[i] = t[i]
  BY <1>1, <1>3, <1>4, <1>11, Zenon
<1> HIDE DEF x, s, t, u, V
<1>6. s \o t \in Seq(V) /\ s \o u \in Seq(V) /\ Append(s \o t, x) \in Seq(V)
      /\ Len(s) \in Nat
  BY <1>5
<1>7. Len(Append(s \o t, x)) = Len(s) + n /\ Len(s \o u) = Len(s) + n
  BY <1>2, <1>5, <1>6
<1>8. ASSUME NEW i \in 1 .. (Len(s) + n) PROVE Append(s \o t, x)[i] = (s \o u)[i]
  <2>1. CASE i \in 1 .. Len(s)
    BY <1>2, <1>5, <1>6, <2>1
  <2>2. CASE i \in (Len(s) + 1) .. (Len(s) + n - 1)
    <3>1. i - Len(s) \in 1 .. (n - 1)
      BY <1>2, <1>6, <2>2
    <3>2. (s \o t)[i] = t[i - Len(s)] /\ (s \o u)[i] = u[i - Len(s)]
      BY <1>2, <1>5, <1>6, <2>2
    <3>3. Append(s \o t, x)[i] = (s \o t)[i]
      BY <1>2, <1>5, <1>6, <2>2
    <3> QED
      BY <1>5, <3>1, <3>2, <3>3
  <2>3. CASE i = Len(s) + n
    <3>1. Append(s \o t, x)[i] = x
      BY <1>2, <1>5, <1>6, <2>3
    <3>2. (s \o u)[i] = u[n]
      BY <1>2, <1>5, <1>6, <2>3
    <3> QED
      BY <1>5, <3>1, <3>2
  <2>4. \/ i \in 1 .. Len(s) \/ i \in (Len(s) + 1) .. (Len(s) + n - 1) \/ i = Len(s) + n
    BY <1>2, <1>6
  <2> QED
    BY <2>1, <2>2, <2>3, <2>4
<1>9. Append(s \o t, x) = s \o u
  BY <1>6, <1>7, <1>8, SameElements
<1>10. (s \o u)[Len(s \o u)] = x
  BY <1>2, <1>5, <1>6, <1>7
<1> QED
  BY <1>9, <1>10 DEF Transcript, x, s, t, u

\* A request has passed no check at first.
LEMMA AdapterBegins == AdapterInit => AdapterInv
  BY DEF AdapterInit, AdapterInv, AfterStream, AfterLast, AfterMessages, AfterModel,
     AfterSystem, AfterFields, AfterObject

\* Every check keeps the invariant.
LEMMA AdapterStep == AdapterInv /\ [AdapterNext]_adapterVars => AdapterInv'
<1> SUFFICES ASSUME AdapterInv, [AdapterNext]_adapterVars PROVE AdapterInv'
  OBVIOUS
<1> USE DEF AfterStream, AfterLast, AfterMessages, AfterModel, AfterSystem, AfterFields, AfterObject
<1>1. payload \in Payloads /\ Len(Items) \in Nat /\ payload.object \in BOOLEAN
  BY Shapes DEF AdapterInv
<1>2. ASSUME payload' = payload, anthropic' = anthropic
      PROVE  /\ Items' = Items /\ Faults' = Faults /\ Unknown' = Unknown
             /\ SystemPart' = SystemPart
             /\ \A n : Transcript(n)' = Transcript(n) /\ (GoodUpTo(n)' <=> GoodUpTo(n))
             /\ Message(Len(Items))' = Message(Len(Items))
  <2>1. Items' = Items
    BY <1>2 DEF Items
  <2>2. \A i : Message(i)' = Message(i)
    BY <2>1 DEF Message
  <2>3. \A i : MessageFaults(i)' = MessageFaults(i)
    BY <2>1, <2>2, Zenon DEF MessageFaults
  <2>4. Unknown' = Unknown
    BY <1>2, Zenon DEF Unknown
  <2>5. Faults' = Faults
    <3>1. CASE payload.object
      <4>1. (UNION {MessageFaults(i) : i \in 1 .. Len(Items)})'
               = UNION {MessageFaults(i) : i \in 1 .. Len(Items)}
        BY <2>1, <2>3, Zenon
      <4> QED
        BY <1>2, <2>1, <2>4, <3>1, <4>1, SMTT(60) DEF Faults
    <3>2. CASE ~payload.object
      BY <1>2, <3>2, Zenon DEF Faults
    <3> QED
      BY <3>1, <3>2
  <2>6. SystemPart' = SystemPart
    BY <1>2, Zenon DEF SystemPart
  <2>7. \A n : UpTo(n)' = UpTo(n)
    BY <2>2 DEF UpTo
  <2>8. \A n : Transcript(n)' = Transcript(n)
    BY <2>6, <2>7, Zenon DEF Transcript
  <2>9. \A n : GoodUpTo(n)' <=> GoodUpTo(n)
    BY <2>2, Zenon DEF GoodUpTo
  <2>10. Message(Len(Items))' = Message(Len(Items))
    BY <2>1, <2>2, Zenon
  <2> QED
    BY <2>1, <2>4, <2>5, <2>6, <2>8, <2>9, <2>10
<1>3. ASSUME NEW f, f \in Faults, check' = "refused", error' = f, payload' = payload,
             anthropic' = anthropic
      PROVE  AdapterInv'
  BY <1>1, <1>2, <1>3 DEF AdapterInv
<1>4. ASSUME UNCHANGED adapterVars PROVE AdapterInv'
  BY <1>2, <1>4 DEF adapterVars, AdapterInv
<1> USE DEF Checks, Passes, Refuse, Same
<1>5. CASE CheckObject
  <2>1. CASE payload.object
    BY <1>2, <1>5, <2>1 DEF CheckObject, AdapterInv
  <2>2. CASE ~payload.object
    <3>1. Faults = {Field("body", 0, 0)}
      BY <2>2, Zenon DEF Faults
    <3> QED
      BY <1>3, <1>5, <2>2, <3>1 DEF CheckObject
  <2> QED
    BY <2>1, <2>2
<1>6. CASE CheckFields
  <2>1. CASE ~Unknown
    BY <1>2, <1>6, <2>1 DEF CheckFields, AdapterInv
  <2>2. CASE Unknown
    <3>1. Field("unknown", 0, 0) \in Faults
      BY <1>1, <1>6, <2>2, FaultsOf DEF CheckFields, AdapterInv
    <3> QED
      BY <1>3, <1>6, <2>2, <3>1 DEF CheckFields
  <2> QED
    BY <2>1, <2>2
<1>7. CASE CheckSystem
  <2>1. check = "system" /\ messages = <<>> /\ index = 1 /\ payload' = payload
        /\ anthropic' = anthropic /\ index' = index
    BY <1>7 DEF CheckSystem, AdapterInv
  <2>2. CASE payload.system.is = "absent"
    <3>1. check' = "model" /\ messages' = <<>> /\ error' = error
      BY <1>7, <2>1, <2>2 DEF CheckSystem
    <3>2. SystemPart = <<>>
      BY <2>2, Zenon DEF SystemPart
    <3> QED
      BY <1>2, <2>1, <2>2, <3>1, <3>2 DEF AdapterInv
  <2>3. CASE payload.system.is # "absent" /\ Readable(payload.system)
    <3>1. check' = "model" /\ messages' = << <<"system", 0>> >> /\ error' = error
      BY <1>7, <2>1, <2>3 DEF CheckSystem
    <3>2. SystemPart = << <<"system", 0>> >>
      BY <2>3, Zenon DEF SystemPart
    <3>3. Readable(payload'.system)
      BY <2>1, <2>3
    <3> QED
      BY <1>2, <2>1, <3>1, <3>2, <3>3 DEF AdapterInv
  <2>4. CASE payload.system.is # "absent" /\ ~Readable(payload.system)
    <3>1. check' = "refused" /\ error' = ContentFault(payload.system, 0)
      BY <1>7, <2>4 DEF CheckSystem
    <3>2. ContentFault(payload.system, 0) \in TextFaults(payload.system, 0)
      BY <1>1, <2>4, Shapes, TextFault
    <3>3. anthropic /\ payload.object
      BY <2>1, <2>4 DEF AdapterInv, Unknown
    <3>4. ContentFault(payload.system, 0) \in Faults
      BY <1>1, <2>4, <3>2, <3>3, FaultsOf
    <3> QED
      BY <1>3, <2>1, <3>1, <3>4
  <2> QED
    BY <2>2, <2>3, <2>4
<1>8. CASE CheckModel
  <2>1. CASE payload.model = "ok"
    BY <1>2, <1>8, <2>1 DEF CheckModel, AdapterInv
  <2>2. CASE payload.model # "ok"
    <3>1. Field("model", 0, 0) \in Faults
      BY <1>1, <1>8, <2>2, FaultsOf DEF CheckModel, AdapterInv
    <3> QED
      BY <1>3, <1>8, <2>2, <3>1 DEF CheckModel
  <2> QED
    BY <2>1, <2>2
<1>9. CASE CheckMessages
  <2>1. CASE payload.messages.is = "list" /\ Items # <<>>
    <3>1. check = "messages" /\ check' = "message" /\ UNCHANGED <<error, anthropic, payload, index, messages>>
      BY <1>9, <2>1 DEF CheckMessages
    <3>2. index = 1 /\ messages = SystemPart
      BY <3>1 DEF AdapterInv
    <3>3. Transcript(0) = SystemPart
      <4>1. UpTo(0) = <<>>
        BY DEF UpTo
      <4> DEFINE x == <<"system", 0>>  V == {x}
      <4>2. SystemPart = <<>> \/ SystemPart = << x >>
        BY Zenon DEF SystemPart
      <4>3. x \in V
        OBVIOUS
      <4> HIDE DEF x, V
      <4>4. <<>> \in Seq(V) /\ << x >> \in Seq(V)
        BY <4>3
      <4>5. SystemPart \in Seq(V)
        BY <4>2, <4>4
      <4> QED
        BY <4>1, <4>5 DEF Transcript
    <3>4. GoodUpTo(0) /\ 1 \in 1 .. (Len(Items) + 1)
      BY <1>1 DEF GoodUpTo
    <3>5. /\ index' \in 1 .. (Len(Items') + 1) /\ GoodUpTo(index - 1)'
          /\ messages' = Transcript(index - 1)'
      <4>1. index' - 1 = 0
        BY <3>1, <3>2
      <4>2. GoodUpTo(0)' /\ Transcript(0)' = Transcript(0) /\ Items' = Items
        BY <1>2, <3>1, <3>4
      <4> QED
        BY <3>1, <3>2, <3>3, <3>4, <4>1, <4>2 DEF GoodUpTo, Transcript, UpTo
    <3> QED
      BY <1>2, <2>1, <3>1, <3>5 DEF AdapterInv
  <2>2. CASE ~(payload.messages.is = "list" /\ Items # <<>>)
    <3>1. Field("messages", 0, 0) \in Faults
      BY <1>1, <1>9, <2>2, FaultsOf DEF CheckMessages, AdapterInv
    <3> QED
      BY <1>3, <1>9, <2>2, <3>1 DEF CheckMessages
  <2> QED
    BY <2>1, <2>2
<1>10. CASE CheckMessage
  <2>1. /\ check = "message" /\ index \in 1 .. Len(Items) /\ payload.object
        /\ payload.messages.is = "list" /\ Items # <<>> /\ GoodUpTo(index - 1)
        /\ messages = Transcript(index - 1) /\ payload' = payload /\ anthropic' = anthropic
    <3>1. check = "message" /\ index <= Len(Items) /\ index \in 1 .. (Len(Items) + 1)
      BY <1>10 DEF CheckMessage, AdapterInv
    <3>2. index \in 1 .. Len(Items)
      BY <1>1, <3>1
    <3> QED
      BY <1>10, <3>1, <3>2 DEF CheckMessage, AdapterInv
  <2>2. CASE GoodMessage(Message(index))
    <3>1. check' = "message" /\ index' = index + 1 /\ error' = error
          /\ messages' = Append(messages, <<Message(index).role, index>>)
      BY <1>10, <2>2 DEF CheckMessage
    <3>2. messages' = Transcript(index)
      BY <1>1, <2>1, <3>1, TranscriptNext
    <3>3. GoodUpTo(index)
      <4>1. \A i \in 1 .. index : i \in 1 .. (index - 1) \/ i = index
        BY <1>1, <2>1
      <4> QED
        BY <2>1, <2>2, <4>1 DEF GoodUpTo
    <3>4. index' - 1 = index /\ index' \in 1 .. (Len(Items) + 1)
      BY <1>1, <2>1, <3>1
    <3>5. GoodUpTo(index - 1)' /\ messages' = Transcript(index - 1)'
      <4>2. \A n : Transcript(n)' = Transcript(n) /\ (GoodUpTo(n)' <=> GoodUpTo(n))
        BY <1>2, <2>1
      <4>3. \A i : Message(i)' = Message(i)
        BY <2>1 DEF Message, Items
      <4>4. GoodUpTo(index - 1)'
        BY <3>3, <3>4, <4>3 DEF GoodUpTo
      <4>5. SystemPart' = SystemPart
        BY <1>2, <2>1
      <4>6. Transcript(index - 1)' = Transcript(index)
        BY <3>4, <4>3, <4>5, Zenon DEF Transcript, UpTo
      <4> QED
        BY <3>2, <4>4, <4>6
    <3> QED
      BY <1>2, <2>1, <3>1, <3>4, <3>5 DEF AdapterInv
  <2>3. CASE ~GoodMessage(Message(index))
    <3>1. check' = "refused" /\ error' = MessageFault(Message(index), index)
      BY <1>10, <2>3 DEF CheckMessage
    <3>2. MessageFault(Message(index), index) \in Faults
      BY <1>1, <2>1, <2>3, MessageFaulty, FaultsOf
    <3> QED
      BY <1>3, <2>1, <3>1, <3>2
  <2> QED
    BY <2>2, <2>3
<1>11. CASE CheckLast
  <2>1. /\ check = "message" /\ payload.object /\ payload.messages.is = "list" /\ Items # <<>>
        /\ payload' = payload /\ anthropic' = anthropic /\ messages' = messages /\ index' = index
        /\ index \in 1 .. (Len(Items) + 1) /\ index > Len(Items)
        /\ GoodUpTo(index - 1) /\ messages = Transcript(index - 1)
    BY <1>11 DEF CheckLast, AdapterInv
  <2>2. index - 1 = Len(Items) /\ Len(Items) \in 1 .. Len(Items)
    BY <1>1, <2>1, Shapes
  <2>3. messages[Len(messages)] = <<Message(Len(Items)).role, Len(Items)>>
        /\ GoodUpTo(Len(Items)) /\ messages = Transcript(Len(Items))
    BY <1>1, <2>1, <2>2, TranscriptNext
  <2>4. CASE Message(Len(Items)).role = "user"
    <3>1. check' = "stream" /\ error' = error
      BY <1>11, <2>3, <2>4 DEF CheckLast
    <3>2. /\ GoodUpTo(Len(Items))' /\ messages' = Transcript(Len(Items))'
          /\ Message(Len(Items))'.role = "user"
      <4>1. \A i : Message(i)' = Message(i)
        BY <2>1 DEF Message, Items
      <4>2. Items' = Items /\ SystemPart' = SystemPart
        BY <1>2, <2>1
      <4>3. GoodUpTo(Len(Items))'
        BY <2>3, <4>1, <4>2 DEF GoodUpTo
      <4>4. Transcript(Len(Items))' = Transcript(Len(Items))
        BY <4>1, <4>2, Zenon DEF Transcript, UpTo
      <4> QED
        BY <2>1, <2>3, <2>4, <4>1, <4>2, <4>3, <4>4
    <3> QED
      BY <1>2, <2>1, <3>1, <3>2 DEF AdapterInv
  <2>5. CASE Message(Len(Items)).role # "user"
    <3>1. check' = "refused" /\ error' = Field("role", Len(Items), 0)
      BY <1>11, <2>3, <2>5 DEF CheckLast, LastIndex
    <3>2. Message(Len(Items)).object
      BY <2>2, <2>3 DEF GoodUpTo, GoodMessage
    <3>3. Field("role", Len(Items), 0) \in Faults
      BY <1>1, <2>1, <2>2, <2>5, <3>2, MessageFaulty, FaultsOf
    <3> QED
      BY <1>3, <2>1, <3>1, <3>3
  <2> QED
    BY <2>4, <2>5
<1>12. ASSUME check \in AfterLast, check' \in AfterLast,
              UNCHANGED <<anthropic, payload, index, messages, error>>,
              check' \in AfterStream => payload.stream # "bad",
              check' = "accepted" => payload.max_tokens # "bad"
       PROVE  AdapterInv'
  <2>1. /\ GoodUpTo(Len(Items))' /\ messages' = Transcript(Len(Items))'
        /\ Message(Len(Items))'.role = "user"
    <3>1. \A i : Message(i)' = Message(i)
      BY <1>12 DEF Message, Items
    <3>2. Items' = Items /\ SystemPart' = SystemPart
      BY <1>2, <1>12
    <3>3. GoodUpTo(Len(Items)) /\ messages = Transcript(Len(Items)) /\ Message(Len(Items)).role = "user"
      BY <1>12 DEF AdapterInv
    <3>4. GoodUpTo(Len(Items))'
      BY <3>1, <3>2, <3>3 DEF GoodUpTo
    <3>5. Transcript(Len(Items))' = Transcript(Len(Items))
      BY <3>1, <3>2, Zenon DEF Transcript, UpTo
    <3> QED
      BY <1>12, <3>1, <3>2, <3>3, <3>4, <3>5
  <2> QED
    BY <1>2, <1>12, <2>1 DEF AdapterInv
<1>13. CASE CheckStream
  <2>1. CASE payload.stream # "bad"
    BY <1>12, <1>13, <2>1 DEF CheckStream
  <2>2. CASE payload.stream = "bad"
    <3>1. Field("stream", 0, 0) \in Faults
      BY <1>1, <1>13, <2>2, FaultsOf DEF CheckStream, AdapterInv
    <3> QED
      BY <1>3, <1>13, <2>2, <3>1 DEF CheckStream
  <2> QED
    BY <2>1, <2>2
<1>14. CASE CheckMaxTokens
  <2>0. check = "max_tokens" => payload.stream # "bad"
    BY DEF AdapterInv
  <2>1. CASE payload.max_tokens # "bad"
    BY <1>12, <1>14, <2>0, <2>1 DEF CheckMaxTokens
  <2>2. CASE payload.max_tokens = "bad"
    <3>1. Field("max_tokens", 0, 0) \in Faults
      BY <1>1, <1>14, <2>2, FaultsOf DEF CheckMaxTokens, AdapterInv
    <3> QED
      BY <1>3, <1>14, <2>2, <3>1 DEF CheckMaxTokens
  <2> QED
    BY <2>1, <2>2
<1> QED
  BY <1>4, <1>5, <1>6, <1>7, <1>8, <1>9, <1>10, <1>11, <1>13, <1>14 DEF AdapterNext

\* Whatever a request holds, it is accepted exactly if nothing is wrong with it,
\* with the transcript it stands for, and what is reported otherwise is wrong
\* with it.
THEOREM OffenderNamed == AdapterSpec => []ErrorNamesOffender
<1>1. AdapterInv => ErrorNamesOffender
  <2> SUFFICES ASSUME AdapterInv PROVE ErrorNamesOffender
    OBVIOUS
  <2>1. check = "refused" => error \in Faults
    BY DEF AdapterInv
  <2>2. ASSUME check = "accepted" PROVE Faults = {} /\ messages = Transcript(Len(Items))
    BY <2>2, NoFaults DEF AdapterInv, AfterStream, AfterLast, AfterMessages, AfterModel,
       AfterSystem, AfterFields, AfterObject
  <2> QED
    BY <2>1, <2>2, Zenon DEF ErrorNamesOffender, Transcript, SystemPart, UpTo
<1> QED
  BY <1>1, AdapterBegins, AdapterStep, PTL DEF AdapterSpec

-----------------------------------------------------------------------------
(* Header blocks.                                                           *)

\* The types with and without a length of their own.
LEMMA FixedTypes ==
    /\ \A t \in DOMAIN Fixed : Fixed[t] \in Nat
    /\ \A t \in Counted : t \notin DOMAIN Fixed
<1>1. DOMAIN Fixed = {0, 1, 2, 3, 4, 5, 8, 9}
  BY DEF Fixed
<1>2. \A t \in DOMAIN Fixed : Fixed[t] \in {0, 1, 2, 4, 8, 16}
  BY DEF Fixed
<1> QED
  BY <1>1, <1>2 DEF Counted

\* A header is named by what its name has behind the colons in front.
HeaderKey(a) == Stripped(Range(a + 1, NameSize(a)))

\* Where the header that begins at a ends, if it is one.
EndAt(a) ==
    IF TypeAt(a) \in DOMAIN Fixed THEN ValueAt(a) + Fixed[TypeAt(a)]
    ELSE ValueAt(a) + 2 + Length16(ValueAt(a))

\* Something is left of a name unless it is all colons.
LEMMA NothingLeft ==
    ASSUME NEW text \in Seq(Bytes)
    PROVE  Stripped(text) # <<>> <=> \E i \in 1 .. Len(text) : text[i] # Colon
<1> DEFINE n == Len(text)
           Most == {m \in 0 .. n : n - m \in Leading(text)}
<1>1. n \in Nat /\ Leading(text) \subseteq 0 .. n /\ 0 \in Leading(text)
  BY DEF Leading
<1>2. Most \in SUBSET Nat /\ n \in Most
  BY <1>1
<1>3. PICK m \in Most : \A k \in Most : m <= k
  <2> HIDE DEF Most
  <2> QED
    BY <1>2, Least
<1>4. n - m \in Leading(text) /\ n - m \in 0 .. n
  BY <1>1, <1>3
<1>5. ASSUME NEW k \in Leading(text) PROVE k <= n - m
  <2>1. k \in 0 .. n /\ n - k \in 0 .. n /\ n - (n - k) = k
    BY <1>1
  <2>2. n - k \in Most
    BY <2>1
  <2> QED
    BY <1>1, <1>3, <2>1, <2>2
<1> DEFINE colons == CHOOSE c \in Leading(text) : \A d \in Leading(text) : d <= c
<1>6. colons \in Leading(text) /\ \A d \in Leading(text) : d <= colons
  BY <1>4, <1>5, Zenon
<1>7. Stripped(text) = SubSeq(text, colons + 1, n)
  BY DEF Stripped
<1> HIDE DEF colons, Most
<1>8. colons \in 0 .. n
  BY <1>1, <1>6
<1>9. SubSeq(text, colons + 1, n) \in Seq(Bytes) /\ Len(SubSeq(text, colons + 1, n)) = n - colons
  BY <1>1, <1>8
<1>10. SubSeq(text, colons + 1, n) = <<>> <=> colons = n
  <2>1. SubSeq(text, colons + 1, n) = <<>> => n - colons = 0
    BY <1>9
  <2>2. n - colons = 0 => SubSeq(text, colons + 1, n) = <<>>
    BY <1>9
  <2> QED
    BY <1>1, <1>8, <2>1, <2>2
<1>11. colons = n <=> \A i \in 1 .. n : text[i] = Colon
  <2>1. colons = n => n \in Leading(text)
    BY <1>6
  <2>2. n \in Leading(text) => colons = n
    BY <1>1, <1>6, <1>8
  <2>3. n \in Leading(text) <=> \A i \in 1 .. n : text[i] = Colon
    BY <1>1 DEF Leading
  <2> QED
    BY <2>1, <2>2, <2>3
<1> QED
  BY <1>7, <1>10, <1>11

\* The next cut is the least of those behind.
LEMMA NextIs ==
    ASSUME NEW cuts \in SUBSET Nat, NEW a \in Nat, NEW b \in cuts, b > a,
           \A c \in cuts : c > a => b <= c
    PROVE  Next2(cuts, a) = b
<1>1. \E d \in cuts : d > a /\ \A c \in cuts : c > a => d <= c
  OBVIOUS
<1> DEFINE next == CHOOSE d \in cuts : d > a /\ \A c \in cuts : c > a => d <= c
<1>2. next \in cuts /\ next > a /\ \A c \in cuts : c > a => next <= c
  BY <1>1, Zenon
<1>3. Next2(cuts, a) = next
  BY Zenon DEF Next2
<1> HIDE DEF next
<1> QED
  BY <1>2, <1>3

\* There is one.
LEMMA NextExists ==
    ASSUME NEW cuts \in SUBSET Nat, NEW a \in Nat, NEW d \in cuts, d > a
    PROVE  /\ Next2(cuts, a) \in cuts /\ Next2(cuts, a) > a
           /\ \A c \in cuts : c > a => Next2(cuts, a) <= c
<1> DEFINE Behind == {c \in cuts : c > a}
<1>1. Behind \in SUBSET Nat /\ Behind # {}
  OBVIOUS
<1>2. PICK b \in Behind : \A c \in Behind : b <= c
  <2> HIDE DEF Behind
  <2> QED
    BY <1>1, Least
<1>3. b \in cuts /\ b > a /\ \A c \in cuts : c > a => b <= c
  BY <1>2
<1> QED
  BY <1>3, NextIs

HeaderTypes ==
    /\ buffer \in Seq(Bytes) /\ blockEnd \in 0 .. Len(buffer) /\ pos \in Nat

\* Bytes inside the block are numbers.
LEMMA ByteIsNat ==
    ASSUME HeaderTypes, NEW p \in Nat, p < blockEnd PROVE Byte(p) \in Nat
<1>1. buffer \in Seq(Bytes) /\ blockEnd <= Len(buffer) /\ Len(buffer) \in Nat /\ blockEnd \in Nat
  BY DEF HeaderTypes
<1>2. p + 1 \in 1 .. Len(buffer)
  BY <1>1
<1>3. buffer[p + 1] \in Bytes
  BY <1>1, <1>2
<1> QED
  BY <1>3, BytesAreNumbers DEF Byte

\* A header ends where its name and its type say.
LEMMA HeaderEnds ==
    ASSUME HeaderTypes, NEW a \in Nat, NEW b \in Nat, IsHeader(a, b)
    PROVE  b = EndAt(a)
  BY FixedTypes DEF IsHeader, EndAt

\* Who cuts a block into headers cuts where a header ends.
LEMMA CutThere ==
    ASSUME HeaderTypes, NEW cuts \in Cuts, NEW a \in cuts, a < blockEnd
    PROVE  IsHeader(a, EndAt(a)) /\ EndAt(a) \in cuts /\ EndAt(a) \in 0 .. blockEnd
<1>1. /\ cuts \subseteq 0 .. blockEnd /\ blockEnd \in cuts /\ blockEnd \in Nat
      /\ \A c \in cuts \ {blockEnd} : IsHeader(c, Next2(cuts, c))
  BY DEF Cuts, HeaderTypes
<1>2. a \in Nat /\ a # blockEnd /\ cuts \in SUBSET Nat
  BY <1>1
<1>3. Next2(cuts, a) \in cuts
  BY <1>1, <1>2, NextExists
<1>4. IsHeader(a, Next2(cuts, a)) /\ Next2(cuts, a) \in 0 .. blockEnd /\ Next2(cuts, a) \in Nat
  BY <1>1, <1>2, <1>3
<1>5. Next2(cuts, a) = EndAt(a)
  BY <1>2, <1>4, HeaderEnds
<1> QED
  BY <1>3, <1>4, <1>5

\* Bytes a and on begin with a name that can be read.
NameOk(a) ==
    LET text == Range(a + 1, NameSize(a))
    IN  Utf8(text) /\ \E i \in 1 .. Len(text) : text[i] # Colon

\* The reader is in the header that begins at h.
Reached(h) ==
    /\ part = "name" => pos = h
    /\ part \in {"type", "value"} =>
          h < blockEnd /\ pos <= blockEnd /\ NameOk(h) /\ name = HeaderKey(h)
    /\ part = "type" => pos = h + 1 + NameSize(h)
    /\ part = "value" => pos = ValueAt(h) /\ type = TypeAt(h) /\ type \in Types
    /\ part = "done" => h = blockEnd

\* The bytes before h are headers, which begin at the places in S.
Whole(S, h) ==
    /\ \A a \in S : a < h
    /\ 0 \in S \cup {h}
    /\ \A a \in S : /\ EndAt(a) \in S \cup {h} /\ EndAt(a) > a /\ IsHeader(a, EndAt(a))
                    /\ \A c \in S \cup {h} : c > a => EndAt(a) <= c

\* What is kept of the headers that begin at the places in S.
Holds(S) ==
    /\ DOMAIN headers = {HeaderKey(a) : a \in S}
    /\ \A a \in S : (\A b \in S : b > a => HeaderKey(b) # HeaderKey(a)) =>
          /\ headers[HeaderKey(a)][1] = TypeAt(a)
          /\ headers[HeaderKey(a)][2] + headers[HeaderKey(a)][3] = EndAt(a)

\* What lies before the header it is in are headers, it keeps them, and any
\* way to cut the block into headers cuts where this one begins.
ReaderAt(h, S) ==
    (\A cuts \in Cuts : h \in cuts) /\ Reached(h) /\ Whole(S, h) /\ Holds(S)

HeaderInv ==
    /\ HeaderTypes
    /\ part \in {"name", "type", "value", "done", "error"}
    /\ part = "error" => Cuts = {}
    /\ part # "error" => \E h \in 0 .. blockEnd : \E S \in SUBSET Nat : ReaderAt(h, S)

\* What is said of the bytes stays as long as they do.
LEMMA SameBlock ==
    ASSUME buffer' = buffer, blockEnd' = blockEnd
    PROVE  /\ Cuts' = Cuts
           /\ \A a : /\ EndAt(a)' = EndAt(a) /\ TypeAt(a)' = TypeAt(a) /\ NameOk(a)' = NameOk(a)
                     /\ HeaderKey(a)' = HeaderKey(a) /\ NameSize(a)' = NameSize(a)
                     /\ ValueAt(a)' = ValueAt(a)
           /\ \A a, b : IsHeader(a, b)' = IsHeader(a, b)
<1>1. \A p : Byte(p)' = Byte(p)
  BY DEF Byte
<1>2. \A p, n : Range(p, n)' = Range(p, n)
  BY DEF Range
<1>3. \A a : NameSize(a)' = NameSize(a)
  BY <1>1, Zenon DEF NameSize
<1>4. \A a : ValueAt(a)' = ValueAt(a)
  BY <1>3, Zenon DEF ValueAt
<1>5. \A a : TypeAt(a)' = TypeAt(a)
  BY <1>1, <1>3, Zenon DEF TypeAt
<1>6. \A p : Length16(p)' = Length16(p)
  BY <1>1, Zenon DEF Length16
<1>7. \A a : NameOk(a)' = NameOk(a)
  BY <1>2, <1>3, Zenon DEF NameOk
<1>8. \A a : HeaderKey(a)' = HeaderKey(a)
  BY <1>2, <1>3, Zenon DEF HeaderKey
<1>9. \A a : EndAt(a)' = EndAt(a)
  BY <1>4, <1>5, <1>6, Zenon DEF EndAt
<1>10. \A a, b : IsHeader(a, b)' = IsHeader(a, b)
  BY <1>2, <1>3, <1>4, <1>5, <1>6 DEF IsHeader
<1>11. Cuts' = Cuts
  BY <1>10, Zenon DEF Cuts
<1> QED
  BY <1>3, <1>4, <1>5, <1>7, <1>8, <1>9, <1>10, <1>11

\* A cut block is not empty behind the header that begins at a.
LEMMA CutHeader ==
    ASSUME HeaderTypes, NEW cuts \in Cuts, NEW a \in cuts, a < blockEnd
    PROVE  /\ NameOk(a) /\ NameSize(a) \in Nat /\ NameSize(a) # 0
           /\ TypeAt(a) \in Types /\ ValueAt(a) <= blockEnd
           /\ EndAt(a) <= blockEnd /\ IsHeader(a, EndAt(a)) /\ EndAt(a) \in cuts
<1>1. a \in Nat /\ blockEnd \in Nat
  BY DEF Cuts, HeaderTypes
<1>2. IsHeader(a, EndAt(a)) /\ EndAt(a) \in cuts /\ EndAt(a) \in 0 .. blockEnd
  BY CutThere
<1>3. NameSize(a) \in Nat
  BY <1>1, ByteIsNat DEF NameSize
<1>4. NameOk(a) /\ TypeAt(a) \in Types /\ EndAt(a) >= ValueAt(a)
  BY <1>2 DEF IsHeader, NameOk, Types
<1>5. ValueAt(a) \in Nat /\ EndAt(a) \in Nat
  BY <1>1, <1>2, <1>3 DEF ValueAt
<1>6. NameSize(a) # 0
  <2> SUFFICES ASSUME NameSize(a) = 0 PROVE FALSE
    OBVIOUS
  <2>1. buffer \in Seq(Bytes) /\ Range(a + 1, 0) = SubSeq(buffer, a + 2, a + 1)
    BY <1>1 DEF Range, HeaderTypes
  <2>2. Len(Range(a + 1, 0)) = 0
    BY <1>1, <2>1
  <2> QED
    BY <1>4, <2>2 DEF NameOk
<1> QED
  BY <1>1, <1>2, <1>3, <1>4, <1>5, <1>6

\* A name inside the block is a sequence of bytes.
LEMMA NameIsText ==
    ASSUME HeaderTypes, NEW a \in Nat, NameSize(a) \in Nat, a + 1 + NameSize(a) <= blockEnd
    PROVE  Range(a + 1, NameSize(a)) \in Seq(Bytes)
  BY DEF Range, HeaderTypes

\* A header that fits the block has been taken.
LEMMA Taken ==
    ASSUME HeaderTypes, NEW h \in 0 .. blockEnd, NEW S \in SUBSET Nat, ReaderAt(h, S),
           part = "value", buffer' = buffer, blockEnd' = blockEnd,
           NEW from, NEW size, Take(from, size), from + size = EndAt(h),
           EndAt(h) \in Nat, EndAt(h) > h, EndAt(h) <= blockEnd, IsHeader(h, EndAt(h))
    PROVE  HeaderInv'
<1>1. PICK e \in Nat : e = EndAt(h)
  OBVIOUS
<1>2. S \cup {h} \in SUBSET Nat
  BY DEF HeaderTypes
<1>3. PICK T \in SUBSET Nat : T = S \cup {h}
  BY <1>2
<1>4. /\ \A cuts \in Cuts : h \in cuts
      /\ name = HeaderKey(h) /\ type = TypeAt(h) /\ h < blockEnd
      /\ Whole(S, h) /\ Holds(S)
  BY DEF ReaderAt, Reached
<1>5. h \in Nat /\ blockEnd \in Nat /\ e \in 0 .. blockEnd
  BY <1>1, <1>3, <1>3 DEF HeaderTypes
<1>6. /\ pos' = e /\ part' = "name"
      /\ headers' = [n \in DOMAIN headers \cup {name} |->
                       IF n = name THEN <<type, from, size>> ELSE headers[n]]
  BY <1>1, <1>3, <1>3 DEF Take
<1>7. e = EndAt(h) /\ e > h
  BY <1>1
<1>8. \A cuts \in Cuts : e \in cuts
  BY <1>4, <1>7, CutThere
<1>9. Whole(T, e)
  <2> SUFFICES ASSUME NEW a \in T
               PROVE  /\ a < e
                      /\ EndAt(a) \in T \cup {e} /\ EndAt(a) > a /\ IsHeader(a, EndAt(a))
                      /\ \A c \in T \cup {e} : c > a => EndAt(a) <= c
    <3>1. 0 \in T \cup {e}
      BY <1>1, <1>3, <1>4 DEF Whole
    <3> QED
      BY <3>1 DEF Whole
  <2>1. CASE a = h
    <3>1. \A c \in S : c < h
      BY <1>4 DEF Whole
    <3> QED
      BY <1>1, <1>3, <1>5, <1>7, <2>1, <3>1
  <2>2. CASE a \in S
    <3>1. /\ a < h /\ EndAt(a) \in S \cup {h} /\ EndAt(a) > a /\ IsHeader(a, EndAt(a))
          /\ \A c \in S \cup {h} : c > a => EndAt(a) <= c
      BY <1>4, <2>2 DEF Whole
    <3>2. EndAt(a) <= h /\ EndAt(a) \in Nat
      BY <1>5, <3>1
    <3> QED
      BY <1>1, <1>3, <1>5, <1>7, <2>2, <3>1, <3>2
  <2> QED
    BY <1>1, <1>3, <2>1, <2>2
<1>10. DOMAIN headers' = {HeaderKey(a) : a \in T}
  <2>1. DOMAIN headers' = DOMAIN headers \cup {HeaderKey(h)}
    BY <1>4, <1>6
  <2>2. DOMAIN headers = {HeaderKey(a) : a \in S}
    BY <1>4 DEF Holds
  <2> QED
    BY <1>1, <1>3, <2>1, <2>2
<1>11. ASSUME NEW a \in T, \A b \in T : b > a => HeaderKey(b) # HeaderKey(a)
      PROVE  /\ headers'[HeaderKey(a)][1] = TypeAt(a)
             /\ headers'[HeaderKey(a)][2] + headers'[HeaderKey(a)][3] = EndAt(a)
  <2>1. CASE a = h
    <3>1. headers'[HeaderKey(a)] = <<type, from, size>>
      BY <1>4, <1>6, <2>1
    <3> QED
      BY <1>4, <2>1, <3>1
  <2>2. CASE a \in S
    <3>1. a < h /\ HeaderKey(a) \in DOMAIN headers
      BY <1>4, <2>2 DEF Whole, Holds
    <3>2. HeaderKey(a) # name
      BY <1>1, <1>3, <1>4, <1>5, <1>11, <2>2, <3>1
    <3>3. headers'[HeaderKey(a)] = headers[HeaderKey(a)]
      BY <1>6, <3>1, <3>2
    <3>4. \A b \in S : b > a => HeaderKey(b) # HeaderKey(a)
      BY <1>1, <1>3, <1>11
    <3> QED
      BY <1>4, <2>2, <3>3, <3>4 DEF Holds
  <2> QED
    BY <1>1, <1>3, <2>1, <2>2
<1>12. ReaderAt(e, T)'
  <2>1. Whole(T, e)'
    BY <1>9, SameBlock, Zenon DEF Whole
  <2>2. Holds(T)'
    BY <1>10, <1>11, SameBlock, Zenon DEF Holds
  <2>3. Reached(e)'
    BY <1>6 DEF Reached
  <2>4. \A cuts \in Cuts' : e \in cuts
    BY <1>8, SameBlock
  <2> QED
    BY <2>1, <2>2, <2>3, <2>4 DEF ReaderAt
<1>13. HeaderTypes'
  BY <1>5, <1>6 DEF HeaderTypes
<1>14. e \in 0 .. blockEnd'
  BY <1>5
<1> QED
  BY <1>5, <1>6, <1>12, <1>13, <1>14 DEF HeaderInv

\* Nothing has been read before the block begins.
LEMMA HeaderBegins == HeaderInit => HeaderInv
<1> SUFFICES ASSUME HeaderInit PROVE HeaderInv
  OBVIOUS
<1>1. buffer \in Seq(Bytes)
  BY DEF HeaderInit, Buffers
<1>2. blockEnd \in 0 .. Len(buffer) /\ pos = 0 /\ part = "name" /\ headers = <<>>
  BY DEF HeaderInit
<1>3. HeaderTypes
  BY <1>1, <1>2 DEF HeaderTypes
<1>4. 0 \in 0 .. blockEnd /\ {} \in SUBSET Nat
  BY <1>1, <1>2
<1>5. Whole({}, 0) /\ Reached(0)
  BY <1>2 DEF Whole, Reached
<1>6. Holds({})
  BY <1>2 DEF Holds
<1>7. \A cuts \in Cuts : 0 \in cuts
  BY DEF Cuts
<1>8. ReaderAt(0, {})
  BY <1>5, <1>6, <1>7 DEF ReaderAt
<1> QED
  BY <1>2, <1>3, <1>4, <1>8 DEF HeaderInv

\* A step of the reader leaves the invariant true.
LEMMA HeaderStep == HeaderInv /\ [HeaderNext]_headerVars => HeaderInv'
<1> SUFFICES ASSUME HeaderInv, [HeaderNext]_headerVars PROVE HeaderInv'
  OBVIOUS
<1>1. HeaderTypes /\ buffer \in Seq(Bytes) /\ Len(buffer) \in Nat /\ blockEnd \in Nat /\ blockEnd <= Len(buffer)
  BY DEF HeaderInv, HeaderTypes
<1>2. CASE UNCHANGED headerVars
  <2>1. HeaderTypes'
    BY <1>1, <1>2 DEF HeaderTypes, headerVars
  <2>2. buffer' = buffer /\ blockEnd' = blockEnd /\ pos' = pos /\ part' = part
        /\ name' = name /\ type' = type /\ headers' = headers
    BY <1>2 DEF headerVars
  <2>3. ASSUME NEW h, NEW S, ReaderAt(h, S) PROVE ReaderAt(h, S)'
    <3>1. Reached(h) /\ Whole(S, h) /\ Holds(S)
      BY <2>3 DEF ReaderAt
    <3>2. Reached(h)'
      BY <2>2, <3>1, SameBlock DEF Reached
    <3>3. Whole(S, h)'
      BY <2>2, <3>1, SameBlock, Zenon DEF Whole
    <3>4. Holds(S)'
      BY <2>2, <3>1, SameBlock, Zenon DEF Holds
    <3> QED
      BY <2>2, <2>3, <3>2, <3>3, <3>4, SameBlock DEF ReaderAt
  <2> QED
    BY <2>1, <2>2, <2>3, SameBlock DEF HeaderInv
<1>3. ASSUME HeaderNext, part # "error",
             NEW h \in 0 .. blockEnd, NEW S \in SUBSET Nat, ReaderAt(h, S)
      PROVE  HeaderInv'
  <2>1. buffer' = buffer /\ blockEnd' = blockEnd
    BY <1>3 DEF HeaderNext, ReadName, ReadType, ReadFixed, ReadCounted, ReadEnd
  <2>2. /\ \A cuts \in Cuts : h \in cuts
        /\ Reached(h) /\ Whole(S, h) /\ Holds(S) /\ h \in Nat
    BY <1>1, <1>3 DEF ReaderAt
  <2>3. ASSUME Raise, Cuts = {} PROVE HeaderInv'
    <3>1. HeaderTypes' /\ part' = "error"
      BY <1>1, <2>1, <2>3 DEF HeaderTypes, Raise
    <3> QED
      BY <2>1, <2>3, <3>1, SameBlock DEF HeaderInv
  <2>4. ASSUME headers' = headers, pos' \in Nat, part' \in {"name", "type", "value", "done"},
               Reached(h)'
        PROVE  HeaderInv'
    <3>1. Whole(S, h)'
      BY <2>1, <2>2, SameBlock, Zenon DEF Whole
    <3>2. Holds(S)'
      BY <2>1, <2>2, <2>4, SameBlock, Zenon DEF Holds
    <3>3. ReaderAt(h, S)'
      BY <2>1, <2>2, <2>4, <3>1, <3>2, SameBlock DEF ReaderAt
    <3>4. HeaderTypes' /\ h \in 0 .. blockEnd'
      BY <1>1, <1>3, <2>1, <2>4 DEF HeaderTypes
    <3> QED
      BY <2>4, <3>3, <3>4 DEF HeaderInv
  <2>5. ASSUME h < blockEnd
        PROVE  NameSize(h) \in Nat /\ Byte(h) = NameSize(h)
    BY <1>1, <2>2, <2>5, ByteIsNat DEF NameSize
  <2>6. CASE ReadName
    <3>1. pos = h /\ h < blockEnd /\ part = "name"
      BY <1>1, <2>2, <2>6 DEF ReadName, Reached
    <3> DEFINE text == Range(h + 1, NameSize(h))
               good == /\ NameSize(h) # 0 /\ h + 1 + NameSize(h) <= blockEnd
                       /\ Utf8(text) /\ Stripped(text) # <<>>
    <3>2. NameSize(h) \in Nat /\ Byte(pos) = NameSize(h)
      BY <2>5, <3>1
    <3>3. h + 1 + NameSize(h) <= blockEnd =>
              (Stripped(text) # <<>> <=> \E i \in 1 .. Len(text) : text[i] # Colon)
      BY <1>1, <2>2, <3>2, NameIsText, NothingLeft
    <3>4. CASE good
      <4>1. name' = HeaderKey(h) /\ pos' = h + 1 + NameSize(h) /\ part' = "type" /\ headers' = headers
        BY <2>6, <3>1, <3>2, <3>4 DEF ReadName, Fits, HeaderKey
      <4>2. NameOk(h)
        BY <3>3, <3>4 DEF NameOk
      <4>3. Reached(h)'
        BY <2>1, <3>1, <3>4, <4>1, <4>2, SameBlock DEF Reached
      <4> QED
        BY <2>2, <2>4, <3>2, <4>1, <4>3
    <3>5. CASE ~good
      <4>1. Raise
        BY <2>6, <3>1, <3>2, <3>5 DEF ReadName, Fits
      <4>2. ASSUME NEW cuts \in Cuts PROVE FALSE
        <5>1. h \in cuts
          BY <2>2
        <5>2. /\ NameOk(h) /\ NameSize(h) # 0 /\ ValueAt(h) <= blockEnd
          BY <1>1, <3>1, <5>1, CutHeader
        <5>3. h + 1 + NameSize(h) <= blockEnd
          BY <1>1, <2>2, <3>2, <5>2 DEF ValueAt
        <5> QED
          BY <3>3, <3>5, <5>2, <5>3 DEF NameOk
      <4> QED
        BY <2>3, <4>1, <4>2
    <3> QED
      BY <3>4, <3>5
  <2>7. CASE ReadType
    <3>1. /\ part = "type" /\ pos = h + 1 + NameSize(h) /\ h < blockEnd /\ NameOk(h)
          /\ name = HeaderKey(h) /\ pos <= blockEnd
      BY <2>2, <2>7 DEF ReadType, Reached
    <3>2. NameSize(h) \in Nat /\ ValueAt(h) = pos + 1 /\ Byte(pos) = TypeAt(h) /\ pos \in Nat
      BY <2>2, <2>5, <3>1 DEF ValueAt, TypeAt
    <3>3. CASE pos + 1 <= blockEnd /\ TypeAt(h) \in Types
      <4>1. /\ type' = TypeAt(h) /\ pos' = pos + 1 /\ part' = "value" /\ name' = name
            /\ headers' = headers
        BY <2>7, <3>2, <3>3 DEF ReadType, Fits
      <4>2. Reached(h)'
        BY <2>1, <3>1, <3>2, <3>3, <4>1, SameBlock DEF Reached
      <4> QED
        BY <2>4, <3>2, <4>1, <4>2
    <3>4. CASE ~(pos + 1 <= blockEnd /\ TypeAt(h) \in Types)
      <4>1. Raise
        BY <2>7, <3>2, <3>4 DEF ReadType, Fits
      <4>2. ASSUME NEW cuts \in Cuts PROVE FALSE
        BY <1>1, <2>2, <3>1, <3>2, <3>4, CutHeader
      <4> QED
        BY <2>3, <4>1, <4>2
    <3> QED
      BY <3>3, <3>4
  <2>8. ASSUME part = "value"
        PROVE  /\ h < blockEnd /\ pos = ValueAt(h) /\ pos \in Nat /\ pos > h /\ pos <= blockEnd
               /\ NameOk(h) /\ type = TypeAt(h) /\ type \in Types
    <3>1. h < blockEnd /\ pos = ValueAt(h) /\ pos <= blockEnd /\ NameOk(h)
          /\ type = TypeAt(h) /\ type \in Types
      BY <2>2, <2>8 DEF Reached
    <3>2. NameSize(h) \in Nat
      BY <2>5, <3>1
    <3> QED
      BY <2>2, <3>1, <3>2 DEF ValueAt
  <2>9. CASE ReadFixed
    <3>1. part = "value" /\ type \in DOMAIN Fixed
      BY <2>9 DEF ReadFixed
    <3>2. EndAt(h) = pos + Fixed[type] /\ Fixed[type] \in Nat
      BY <2>8, <3>1, FixedTypes DEF EndAt
    <3>3. CASE pos + Fixed[type] <= blockEnd
      <4>1. Take(pos, Fixed[type])
        BY <2>9, <3>3 DEF ReadFixed, Fits
      <4>2. EndAt(h) \in Nat /\ EndAt(h) > h /\ EndAt(h) <= blockEnd
        BY <2>2, <2>8, <3>1, <3>2, <3>3
      <4>3. IsHeader(h, EndAt(h))
        BY <2>2, <2>8, <3>1, <3>2, <4>2 DEF IsHeader, NameOk
      <4> QED
        BY <1>1, <1>3, <2>1, <3>1, <3>2, <4>1, <4>2, <4>3, Taken
    <3>4. CASE ~(pos + Fixed[type] <= blockEnd)
      <4>1. Raise
        BY <2>9, <3>4 DEF ReadFixed, Fits
      <4>2. ASSUME NEW cuts \in Cuts PROVE FALSE
        BY <1>1, <2>2, <2>8, <3>1, <3>2, <3>4, CutHeader
      <4> QED
        BY <2>3, <4>1, <4>2
    <3> QED
      BY <3>3, <3>4
  <2>10. CASE ReadCounted
    <3>1. part = "value" /\ type \in Counted /\ type \notin DOMAIN Fixed
      BY <2>10, FixedTypes DEF ReadCounted
    <3> DEFINE size == Length16(pos)
               good == /\ pos + 2 <= blockEnd /\ pos + 2 + size <= blockEnd
                       /\ type = String => Utf8(Range(pos + 2, size))
    <3>2. EndAt(h) = pos + 2 + size
      BY <2>8, <3>1 DEF EndAt
    <3>3. pos + 2 <= blockEnd => size \in Nat
      <4> SUFFICES ASSUME pos + 2 <= blockEnd PROVE size \in Nat
        OBVIOUS
      <4>1. Byte(pos) \in Nat /\ Byte(pos + 1) \in Nat
        BY <1>1, <2>8, <3>1, ByteIsNat
      <4> QED
        BY <4>1 DEF Length16
    <3>4. CASE good
      <4>1. Take(pos + 2, size)
        BY <2>10, <3>4 DEF ReadCounted, Fits
      <4>2. EndAt(h) \in Nat /\ EndAt(h) > h /\ EndAt(h) <= blockEnd /\ EndAt(h) >= ValueAt(h) + 2
            /\ EndAt(h) - ValueAt(h) - 2 = size
        BY <2>2, <2>8, <3>1, <3>2, <3>3, <3>4
      <4>3. ValueAt(h) = pos /\ TypeAt(h) = type
        BY <2>8, <3>1
      <4>4. IsHeader(h, EndAt(h))
        BY <2>2, <2>8, <3>1, <3>2, <3>4, <4>2, <4>3 DEF IsHeader, NameOk
      <4> QED
        BY <1>1, <1>3, <2>1, <3>1, <3>2, <4>1, <4>2, <4>4, Taken
    <3>5. CASE ~good
      <4>1. Raise
        BY <2>10, <3>5 DEF ReadCounted, Fits
      <4>2. ASSUME NEW cuts \in Cuts PROVE FALSE
        <5>1. IsHeader(h, EndAt(h)) /\ EndAt(h) \in 0 .. blockEnd
          BY <1>1, <2>2, <2>8, <3>1, CutThere
        <5>2. EndAt(h) >= pos + 2 /\ (type = String => Utf8(Range(pos + 2, EndAt(h) - pos - 2)))
          BY <2>8, <3>1, <5>1 DEF IsHeader
        <5>3. pos + 2 <= blockEnd
          BY <1>1, <2>8, <3>1, <5>1, <5>2
        <5>4. size \in Nat /\ EndAt(h) - pos - 2 = size
          BY <2>8, <3>1, <3>2, <3>3, <5>3
        <5> QED
          BY <3>2, <3>5, <5>1, <5>2, <5>3, <5>4
      <4> QED
        BY <2>3, <4>1, <4>2
    <3> QED
      BY <3>4, <3>5
  <2>11. CASE ReadEnd
    <3>1. h = blockEnd /\ part' = "done" /\ headers' = headers /\ pos' = pos
      BY <1>1, <2>2, <2>11 DEF ReadEnd, Reached
    <3>2. Reached(h)' /\ pos' \in Nat
      BY <1>1, <2>1, <3>1 DEF Reached, HeaderTypes
    <3> QED
      BY <2>4, <3>1, <3>2
  <2> QED
    BY <1>3, <2>6, <2>7, <2>9, <2>10, <2>11 DEF HeaderNext
<1>4. HeaderNext => part # "error"
  BY DEF HeaderNext, ReadName, ReadType, ReadFixed, ReadCounted, ReadEnd
<1> QED
  BY <1>2, <1>3, <1>4 DEF HeaderInv

\* A block is accepted exactly if it can be cut into headers, whatever bytes
\* follow it, and what is returned of it is what its last header of each name
\* holds, for every block and every set of bytes.
THEOREM BlocksExact == HeaderSpec => []HeadersExact
<1>1. HeaderInv => HeadersExact
  <2> SUFFICES ASSUME HeaderInv PROVE HeadersExact
    OBVIOUS
  <2>1. part = "error" => Cuts = {}
    BY DEF HeaderInv
  <2>2. ASSUME part = "done"
        PROVE  \E cuts \in Cuts :
                  LET starts == cuts \ {blockEnd}
                      key(a) == Stripped(Range(a + 1, NameSize(a)))
                  IN  /\ DOMAIN headers = {key(a) : a \in starts}
                      /\ \A a \in starts :
                            (\A b \in starts : b > a => key(b) # key(a)) =>
                                headers[key(a)][1] = TypeAt(a)
                                /\ headers[key(a)][2] + headers[key(a)][3] = Next2(cuts, a)
    <3>1. PICK h \in 0 .. blockEnd : \E S \in SUBSET Nat : ReaderAt(h, S)
      BY <2>2 DEF HeaderInv
    <3>2. PICK S \in SUBSET Nat : ReaderAt(h, S)
      BY <3>1
    <3>3. h = blockEnd /\ Whole(S, h) /\ Holds(S) /\ h \in Nat
      BY <2>2, <3>2 DEF ReaderAt, Reached, HeaderInv, HeaderTypes
    <3> DEFINE cuts == S \cup {h}
    <3>4. cuts \ {blockEnd} = S
      BY <3>3 DEF Whole
    <3>5. cuts \in SUBSET Nat /\ cuts \subseteq 0 .. blockEnd /\ {0, blockEnd} \subseteq cuts
      BY <3>3 DEF Whole
    <3>6. ASSUME NEW a \in S PROVE Next2(cuts, a) = EndAt(a) /\ IsHeader(a, EndAt(a))
      <4>1. /\ EndAt(a) \in cuts /\ EndAt(a) > a /\ IsHeader(a, EndAt(a))
            /\ \A c \in cuts : c > a => EndAt(a) <= c
        BY <3>3 DEF Whole
      <4> HIDE DEF cuts
      <4> QED
        BY <3>5, <4>1, NextIs
    <3> HIDE DEF cuts
    <3>7. cuts \in Cuts
      BY <3>4, <3>5, <3>6 DEF Cuts
    <3>8. DOMAIN headers = {Stripped(Range(a + 1, NameSize(a))) : a \in cuts \ {blockEnd}}
      BY <3>3, <3>4, Zenon DEF Holds, HeaderKey
    <3>9. \A a \in cuts \ {blockEnd} :
            (\A b \in cuts \ {blockEnd} : b > a =>
                Stripped(Range(b + 1, NameSize(b))) # Stripped(Range(a + 1, NameSize(a)))) =>
            /\ headers[Stripped(Range(a + 1, NameSize(a)))][1] = TypeAt(a)
            /\ headers[Stripped(Range(a + 1, NameSize(a)))][2]
               + headers[Stripped(Range(a + 1, NameSize(a)))][3] = Next2(cuts, a)
      BY <3>3, <3>4, <3>6 DEF Holds, HeaderKey
    <3> QED
      BY <3>7, <3>8, <3>9, Zenon
  <2> QED
    BY <2>1, <2>2, Zenon DEF HeadersExact
<1> QED
  BY <1>1, HeaderBegins, HeaderStep, PTL DEF HeaderSpec
=============================================================================
