------------------------------ MODULE DatabaseRows ------------------------------
(***************************************************************************)
(* AuthManager._read_sqlite (core/auth.py): which rows of a kiro-cli          *)
(* database become the token and the profile.  A row is a key and a value.   *)
(* Of a key it matters which words are in it; "" stands for every key that   *)
(* is no text or a blank one.  A value is a text, which may be "blank",       *)
(* "aoa" (it has that prefix), "broken" (it begins like JSON and is not) or    *)
(* "list" (JSON, and no text or object), or it is a JSON object, which may    *)
(* have the fields "token" and "arn".  What is found is named by its row.     *)
(***************************************************************************)
EXTENDS Naturals, Sequences

CONSTANTS
    AuthRows, StateRows, SecretRows,    \* rows a table may have
    MaxRows                             \* bound on the rows of a database

Tables == {"auth", "state", "secrets"}

\* Words in the keys.
Says(key) ==
    CASE key = "token" -> {"token"}
      [] key = "refresh_token" -> {"refresh", "token"}
      [] key = "refresh_access_token" -> {"refresh", "access", "token"}
      [] key = "profile" -> {"profile"}
      [] key = "profile_token" -> {"profile", "token"}
      [] OTHER -> {}

VARIABLES
    tables,     \* the rows of the three tables; a missing table has none
    table,      \* the one it is in, or "query", "done", "failed"
    row,        \* the row it is at
    bearer,     \* where the token is from: a table and a row, or nothing
    arn         \* where the profile is from

rowVars == <<tables, table, row, bearer, arn>>

Nothing == <<>>
From(t, i) == <<t, i>>
Row(t, i) == tables[t][i]
Key(t, i) == Row(t, i)[1]
Value(t, i) == Row(t, i)[2]

\* _decoded_db_value: a JSON text, a text or nothing.
Objects == SUBSET {"token", "arn"}
Plain(value) == value \in {[text |-> "text"], [text |-> "aoa"]}
Has(value, field) == \E fields \in Objects : value = [object |-> fields] /\ field \in fields

\* _token_from_db_value and _profile_from_db_value.
HoldsToken(key, value) ==
    \/ Has(value, "token")
    \/ Plain(value) /\ "token" \in Says(key) /\ "refresh" \notin Says(key)
HoldsProfile(key, value) ==
    "profile" \in Says(key) /\ (Has(value, "arn") \/ Plain(value))

\* The test of a secret; the mutation lets the prefix override the name.
PrefixFirst(key, value) ==
    \/ value = [text |-> "aoa"]
    \/ "token" \in Says(key) /\ ~("refresh" \in Says(key) /\ "access" \notin Says(key))
HoldsSecret(key, value) ==
    /\ ~("refresh" \in Says(key) /\ "access" \notin Says(key))
    /\ value = [text |-> "aoa"] \/ "token" \in Says(key)

RowInit ==
    /\ \E a, b, c \in 0 .. MaxRows :
          /\ a + b + c <= MaxRows
          /\ \E auth \in [1 .. a -> AuthRows], state \in [1 .. b -> StateRows],
                secrets \in [1 .. c -> SecretRows] :
                tables = [auth |-> auth, state |-> state, secrets |-> secrets]
    /\ table = "query" /\ row = 1 /\ bearer = Nothing /\ arn = Nothing

Goto(t) == table' = t /\ row' = 1

\* The three queries: a table may be missing, the file may be malformed.
Query ==
    /\ table = "query" /\ (Goto("auth") \/ Goto("failed"))
    /\ UNCHANGED <<tables, bearer, arn>>

More(t) == table = t /\ row <= Len(tables[t])
NextRow == row' = row + 1 /\ UNCHANGED table

AuthRow ==
    /\ More("auth") /\ NextRow
    /\ LET key == Key("auth", row)  value == Value("auth", row)
       IN  /\ bearer' = IF key # "" /\ bearer = Nothing /\ HoldsToken(key, value)
                        THEN From("auth", row) ELSE bearer
           /\ arn' = IF key # "" /\ arn = Nothing /\ HoldsProfile(key, value)
                     THEN From("auth", row) ELSE arn
    /\ UNCHANGED tables

AuthEnd ==
    /\ table = "auth" /\ row > Len(tables["auth"])
    /\ Goto(IF arn = Nothing THEN "state" ELSE "secrets")
    /\ UNCHANGED <<tables, bearer, arn>>

StateRow ==
    /\ More("state")
    /\ IF Key("state", row) # "" /\ HoldsProfile(Key("state", row), Value("state", row))
       THEN arn' = From("state", row) /\ Goto("secrets")
       ELSE NextRow /\ UNCHANGED arn
    /\ UNCHANGED <<tables, bearer>>

StateEnd ==
    /\ table = "state" /\ row > Len(tables["state"]) /\ Goto("secrets")
    /\ UNCHANGED <<tables, bearer, arn>>

\* Only without a token; a secret may have no name.
SecretRow ==
    /\ More("secrets") /\ bearer = Nothing
    /\ LET key == Key("secrets", row)  value == Value("secrets", row)
       IN  IF value # [text |-> "blank"] /\ HoldsSecret(key, value)
           THEN bearer' = From("secrets", row) /\ Goto("done")
           ELSE NextRow /\ UNCHANGED bearer
    /\ UNCHANGED <<tables, arn>>

SecretEnd ==
    /\ table = "secrets" /\ (bearer # Nothing \/ row > Len(tables["secrets"]))
    /\ Goto(IF bearer = Nothing THEN "failed" ELSE "done")
    /\ UNCHANGED <<tables, bearer, arn>>

RowNext == Query \/ AuthRow \/ AuthEnd \/ StateRow \/ StateEnd \/ SecretRow \/ SecretEnd

RowSpec == RowInit /\ [][RowNext]_rowVars

-----------------------------------------------------------------------------
(* The same without loops.                                                  *)

Rows(t) == 1 .. Len(tables[t])
TokenRows == {i \in Rows("auth") : Key("auth", i) # "" /\ HoldsToken(Key("auth", i), Value("auth", i))}
Secrets == {i \in Rows("secrets") : Value("secrets", i) # [text |-> "blank"]
                /\ HoldsSecret(Key("secrets", i), Value("secrets", i))}
ArnRows(t) == {i \in Rows(t) : HoldsProfile(Key(t, i), Value(t, i))}

IsFirst(found, t, rows) == found[1] = t /\ found[2] \in rows /\ \A i \in rows : found[2] <= i

\* "A refresh token is never a bearer token", unless its name in the secrets
\* also speaks of access or its value has a field for the token itself.
IsNoRefreshToken(t, i) ==
    \/ Has(Value(t, i), "token")
    \/ "refresh" \notin Says(Key(t, i))
    \/ t = "secrets" /\ "access" \in Says(Key(t, i))

\* The token and the profile are the first that the tables, in their order,
\* have to offer, each found or missed on its own; a refresh token is none of
\* them, whatever it looks like, and without a token there are no credentials.
FirstRowsWin ==
    /\ table = "done" =>
          /\ IF TokenRows # {} THEN IsFirst(bearer, "auth", TokenRows)
                               ELSE IsFirst(bearer, "secrets", Secrets)
          /\ IsNoRefreshToken(bearer[1], bearer[2])
          /\ IF ArnRows("auth") # {} THEN IsFirst(arn, "auth", ArnRows("auth"))
             ELSE IF ArnRows("state") # {} THEN IsFirst(arn, "state", ArnRows("state"))
             ELSE arn = Nothing
    /\ table = "secrets" => bearer = Nothing <=> TokenRows = {}
=============================================================================
