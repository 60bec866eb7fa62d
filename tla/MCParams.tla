------------------------------ MODULE MCParams ------------------------------
(* A small instance of Params: forms of a few entries, for a field v of p.   *)
EXTENDS Params

MCNumber == ("1" :> 1) @@ ("3" :> 3) @@ ("-1" :> -1) @@ ("6" :> 6) @@ ("8" :> 8)
MCTruthy == {"1", "on"}
MCFalsy == {"off"}
MCSingleChar == {"1", "3", "6", "8"}
MCBlank == ""
MCVariants == {"on"}

\* p[v]..., in names.
Key(below) == <<"p", "[", "v", "]">> \o below
Nameless == <<"[", "]">>
Under(name) == <<"[", name, "]">>

MCEntries ==
    LET Sends(key, value) == [key |-> key, value |-> value]
        one == Scalar("1")
    IN  {Sends(Key(<<>>), Scalar(raw)) : raw \in DOMAIN MCNumber \cup {"on", "off", ""}}
        \cup {Sends(key, one) :
                key \in {Key(Nameless), Key(Under("a")), Key(Nameless \o Nameless),
                         Key(Nameless \o Under("a")), Key(Nameless \o Under("b")),
                         <<"p", "[", "w", "]">>, <<"v">>, <<"p">>, <<"p", "[", "v">>,
                         <<"p", "[", "]">>, <<>>}}
        \cup {Sends(Key(Under("b")), Scalar("on")), Sends(Key(<<>>), Null),
              Sends(<<"p">>, Map(<<"v">> :> List(<<one, Scalar("3")>>)))}

MCTypes ==
    LET Of(kind) == [kind |-> kind]
        struct == [kind |-> "struct", names |-> <<<<"a">>, <<"b">>>>, of |-> Of("String")]
        Vec(t) == [kind |-> "Vec", of |-> t]
        columns == {Of(kind) : kind \in Columns}
    IN  columns \cup {[kind |-> "Option", of |-> t] : t \in columns}
        \cup {Of("char"), Of("enum"), Of("()"), struct, Vec(struct), Vec(Of("i64")),
              Vec(Vec(Of("u8"))), [kind |-> "newtype", of |-> Vec(Of("String"))]}
=============================================================================
