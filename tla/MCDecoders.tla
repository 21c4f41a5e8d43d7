------------------------------ MODULE MCDecoders ------------------------------
(***************************************************************************)
(* The three loops that take untrusted data apart, each on all its inputs:  *)
(* a behaviour is one call of one of the three functions.                   *)
(***************************************************************************)
EXTENDS HeaderBlock, DatabaseRows, RequestAdapter

MCBytes == {0, 1, 2, 7, 58, 255}

Texts == {[text |-> t] : t \in {"blank", "text", "aoa"}}
MCAuthRows ==
    {"", "token", "refresh_token", "profile_token"}
        \X ({[text |-> t] : t \in {"text", "broken", "list"}} \cup {[object |-> f] : f \in Objects})
MCStateRows == {"", "profile", "other"} \X {[text |-> "text"], [object |-> {"arn"}]}
MCSecretRows == {"", "token", "refresh_token", "refresh_access_token"} \X Texts

Content(is, blocks) == [is |-> is, blocks |-> blocks]
Contents ==
    {Content(is, <<>>) : is \in {"absent", "bad", "text", "blocks"}}
        \cup {Content("blocks", <<b>>) : b \in {"ok", "type"}}
        \cup {Content("blocks", <<"ok", b>>) : b \in {"block", "type", "unknown", "text"}}
Items1 == [object : BOOLEAN, extra : BOOLEAN, role : {"user", "assistant", "bad"}, content : Contents]
Good(r) == [object |-> TRUE, extra |-> FALSE, role |-> r, content |-> Content("text", <<>>)]
List(items) == [is |-> "list", items |-> items]
Lists ==
    {[is |-> "bad", items |-> <<>>], List(<<>>)}
        \cup {List(<<m>>) : m \in Items1}
        \cup {List(<<Good(r), m>>) : m \in Items1, r \in {"user", "assistant"}}

Absent == Content("absent", <<>>)
Fine == [object |-> TRUE, extra |-> FALSE, system |-> Absent, model |-> "ok",
         messages |-> List(<<Good("assistant"), Good("user")>>), stream |-> "absent",
         max_tokens |-> "absent"]
MCPayloads ==
    {[Fine EXCEPT !.messages = l, !.system = s] : l \in Lists,
        s \in {Absent, Content("text", <<>>), Content("blocks", <<"ok", "text">>)}}
    \cup {[Fine EXCEPT !.object = o, !.extra = e, !.model = m, !.stream = st, !.max_tokens = t] :
        o \in BOOLEAN, e \in BOOLEAN, m \in {"absent", "bad", "ok"},
        st \in {"absent", "bad", "ok"}, t \in {"absent", "bad", "ok"}}

\* A function that is not called.
HeaderRest ==
    /\ buffer = <<>> /\ blockEnd = 0 /\ pos = 0 /\ part = "done" /\ name = <<>> /\ type = 0
    /\ headers = <<>>
RowRest ==
    /\ tables = [t \in Tables |-> <<>>] /\ table = "failed" /\ row = 1
    /\ bearer = Nothing /\ arn = Nothing
AdapterRest ==
    /\ payload = Fine /\ anthropic = FALSE /\ check = "idle" /\ index = 1
    /\ messages = <<>> /\ error = NoField

vars == <<headerVars, rowVars, adapterVars>>

Init ==
    \/ HeaderInit /\ RowRest /\ AdapterRest
    \/ HeaderRest /\ RowInit /\ AdapterRest
    \/ HeaderRest /\ RowRest /\ AdapterInit

Returned ==
    /\ part \in {"done", "error"} /\ table \in {"done", "failed"}
    /\ check \in {"idle", "accepted", "refused"}
    /\ UNCHANGED vars

Next ==
    \/ HeaderNext /\ UNCHANGED <<rowVars, adapterVars>>
    \/ RowNext /\ UNCHANGED <<headerVars, adapterVars>>
    \/ AdapterNext /\ UNCHANGED <<headerVars, rowVars>>
    \/ Returned

Spec == Init /\ [][Next]_vars
=============================================================================
