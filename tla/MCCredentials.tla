----------------------------- MODULE MCCredentials -----------------------------
(* The inputs TLC checks Credentials on: the file and KIROX_* may hold the    *)
(* same text, and padding or white space only; the rest is there or not.      *)
EXTENDS Credentials

CONSTANTS a, b, c, e, p, q, r, x, f1, f2

Bundle(tokens, profiles) == [token : tokens, profile : profiles]
Values(texts) == {None, Blank} \cup (texts \X BOOLEAN)

AllGiven ==
    {[explicit |-> i, config |-> j, KIROX |-> k, ASSISTANT |-> l] :
        i \in Bundle({None, Plain(e)}, {None, Plain(x)}),
        j \in Bundle({None, Blank, Plain(a), <<a, TRUE>>}, {None, Plain(p)}),
        k \in Bundle(Values({a, b}), Values({p, q})),
        l \in Bundle({None, Blank, Plain(c)}, {None, Plain(r)})}

Locations == <<f1, f2>>
AllTexts == {a, b, c, e, p, q, r, x}
=============================================================================
