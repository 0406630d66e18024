----------------------------- MODULE MCService ------------------------------
(***************************************************************************)
(* Small instances of Service for TLC: three types, three methods of one   *)
(* trait, the services an application might register for it, and the ways  *)
(* a trait can be declared wrongly.                                        *)
(***************************************************************************)
EXTENDS Service

(* u8 is one byte, Option<u8> a tag and the value, a path its length and   *)
(* its bytes; serde refuses a path that is not UTF-8.                      *)
MCValues ==
  [u8 |-> {"0", "1", "2"}, option |-> {"None", "Some(1)"}, path |-> {"utf8", "raw"}]

MCWire ==
  [u8 |-> ("0" :> <<0>>) @@ ("1" :> <<1>>) @@ ("2" :> <<2>>),
   option |-> ("None" :> <<0>>) @@ ("Some(1)" :> <<1, 1>>),
   path |-> ("utf8" :> <<1, 1>>)]

MCReplies == {<<>>, <<1>>, <<1, 1, 0>>}

-----------------------------------------------------------------------------
Self(r, m) == [kind |-> "receiver", ref |-> r, mut |-> m]
RefSelf    == Self(TRUE, FALSE)
Arg(p, t)  == [kind |-> "typed", pat |-> p, ty |-> <<t>>]
Type(ts)   == [kind |-> "type", ty |-> ts]
Lifetime   == [kind |-> "lifetime"]
Path(l, a) == [kind |-> "path", last |-> l, args |-> a]

Returns(ts) == Path("Result", <<Type(ts), Type(<<"PatinaError">>)>>)

Fn(i, ts, ok) ==
  [kind |-> "fn", ident |-> i, async |-> TRUE, default |-> FALSE, generic |-> FALSE,
   inputs |-> <<RefSelf>> \o [k \in DOMAIN ts |-> Arg("ident", ts[k])],
   output |-> Returns(ok)]

(* rev tells traits of the same name apart, the macro does not see it. *)
Calc(r, items) ==
  [item |-> "trait", rev |-> r, ident |-> "Calc", generic |-> FALSE, items |-> items]

(* The client's trait, an older revision in which add took one argument and *)
(* find took and returned an option, and a trait of the same name from      *)
(* another module, which shares add and ping.                               *)
Add     == Fn("add", <<"u8", "u8">>, <<"u8">>)
Ping    == Fn("ping", <<>>, <<>>)
Current == Calc("current", <<Add, Fn("find", <<"path">>, <<"path">>), Ping>>)
Older   == Calc("older", <<Fn("add", <<"u8">>, <<"u8">>), Fn("find", <<"option">>, <<"option">>)>>)
Namesake == Calc("namesake", <<Add, Ping>>)

AllTraits == {Current, Older, Namesake}

MCNames == {<<"Calc", m>> : m \in {"add", "find", "ping"}}

(* Traits with a method of every form. *)
Forms ==
  {[kind |-> "const"]} \cup
  [kind : {"fn"}, ident : {"add"}, async : BOOLEAN, default : BOOLEAN, generic : BOOLEAN,
   inputs : {<<>>, <<Arg("ident", "u8")>>, <<RefSelf>>, <<Self(TRUE, TRUE)>>,
             <<Self(FALSE, FALSE)>>, <<RefSelf, Arg("ident", "u8")>>,
             <<RefSelf, Arg("tuple", "u8"), Arg("ident", "u8")>>},
   output : {[kind |-> "unit", args |-> <<>>], [kind |-> "tuple", args |-> <<>>],
             Returns(<<"u8">>), Path("Result", <<Lifetime, Type(<<"u8">>), Type(<<"PatinaError">>)>>),
             Path("Result", <<Type(<<"u8">>)>>), Path("Result", <<Type(<<"u8">>), Type(<<"u8">>)>>),
             Path("Option", <<Type(<<"u8">>), Type(<<"PatinaError">>)>>)}]

AllSources ==
  {Current, [Current EXCEPT !.generic = TRUE], [Current EXCEPT !.item = "struct"]}
    \cup {Calc("form", <<f>>) : f \in Forms}
    \cup {Calc("form", <<f, Ping>>) : f \in Forms}
    \cup {Calc("form", <<Ping, f>>) : f \in Forms}

OwnSource == {Current}

(* A revision of the client's trait with fewer arguments. *)
SkewedTraits == {Calc("older", <<Fn("add", <<"u8">>, <<"u8">>)>>)}
=============================================================================
