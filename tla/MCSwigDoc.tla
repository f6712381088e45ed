------------------------------- MODULE MCSwigDoc -------------------------------
(* Source trees for SwigDoc: up to three compounds out of a menu, in any order. *)
(* They are read by the generated classes as DoxyXml defines them.             *)
EXTENDS SwigDoc, DoxyXml

MCReadAs(node, class) == Build(node, class)
MCCannotRead(node, class) == Raises(node, class)
MCTextOf(obj) == description(obj)

Mem(kind, bits, brief, params) ==
    [kind |-> kind, name |-> Name("", bits, ""), brief |-> brief, detailed |-> <<"more">>,
     params |-> params]
(* A member of a user-defined section is listed again in that of its kind. *)
Comp(kind, name, xml, brief, mems) ==
    [kind |-> kind, name |-> name, xml |-> xml, brief |-> brief, detailed |-> <<>>,
     sections |-> IF mems = <<>> THEN <<>> ELSE <<<<mems[1]>>, mems>>]

foo == Name("", <<"foo", "bar">>, "")
make == Mem("function", <<"foo", "make", "bar">>, <<"makes">>, <<"rate">>)
friend == Mem("friend", <<"foo", "make", "bar">>, <<>>, <<>>)
constructor == Mem("function", <<"foo", "bar">>, <<"constructs">>, <<"rate", "port">>)
conversion == Mem("function", <<"operator ", "bool">>, <<"converts">>, <<>>)
work(text) == Mem("function", <<"work">>, <<text>>, <<>>)

Menu ==
    {Comp("class", foo, xml, <<"block">>, <<work("first"), constructor, friend, work("second")>>) :
        xml \in {"ok", "broken", "missing"}}
    \cup
    {Comp("class", foo, "ok", <<"private">>, <<work("first"), friend>>),
     Comp("class", [foo EXCEPT !.scope = "gr"], "ok", <<"scoped">>, <<constructor, friend>>),
     Comp("class", Name("", <<"baz">>, ""), "ok", <<>>,
          <<conversion, Mem("function", <<"baz", "make", "">>, <<"hides the friend">>, <<>>),
            Mem("friend", <<"baz", "make", "">>, <<>>, <<>>)>>)}
    \cup
    {Comp("file", header_name(foo), xml, <<"header">>, <<make, work("free")>>) :
        xml \in {"ok", "broken"}}
    \cup
    {Comp("file", header_name(foo), "ok", <<>>, <<>>),
     Comp("file", Name("", <<"util">>, ".h"), "ok", <<>>, <<conversion, make, [make EXCEPT !.params = <<>>]>>),
     Comp("file", Name("", <<"main">>, ".cc"), "broken", <<>>, <<work("main")>>),
     Comp("page", Name("", <<"page">>, ""), "broken", <<>>, <<>>),
     Comp("group", Name("", <<"group">>, ""), "missing", <<>>, <<>>),
     Comp("example", Name("", <<"example">>, ""), "ok", <<>>, <<>>)}

(* Doxygen lists a class once; files of one name may be in two directories.    *)
MCWorlds ==
    {w \in UNION {[1..n -> Menu] : n \in 1..3} :
        \A i, j \in DOMAIN w : i # j =>
            /\ w[i] # w[j]
            /\ w[i].kind = "class" /\ w[j].kind = "class" => w[i].name # w[j].name}
===============================================================================
