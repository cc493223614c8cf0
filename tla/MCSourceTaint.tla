---------------------------- MODULE MCSourceTaint ----------------------------
(* Programs for SourceTaint: functions that call each other, with what     *)
(* their arguments carry, and entry points of a few statements.            *)
EXTENDS SourceTaint

Let(to, uses, owned) == [op |-> "let", to |-> to, uses |-> uses, owned |-> owned]
GuardCall(kind) == [op |-> "guard", kind |-> kind]
Sink(kind, args, site) == [op |-> "sink", kind |-> kind, args |-> args, site |-> site]
CallTo(callee, args) == [op |-> "call", callee |-> callee, args |-> args]
Code(params, body) == [params |-> params, body |-> body]

EntryAt(symbol) == [symbols |-> {symbol}, roots |-> <<symbol>>, webhook |-> FALSE]

Arguments == {<<{"p"}, {}>>, <<{}, {"p"}>>, <<{"q"}, {"p"}>>}

MayCall(callees) == {<<>>} \cup {<<CallTo(g, a)>> : g \in callees, a \in Arguments}

(* Two entry points; two calls of the first, one of the others each.       *)
Calling ==
    {[functions |->
        [root |-> Code(<<"p", "q">>, <<CallTo("f", first), CallTo(second, <<{"p"}, {"q"}>>)>>),
         f |-> Code(<<"p", "q">>, ofF),
         g |-> Code(<<"p", "q">>, <<Sink("process", <<{"q"}>>, "in g")>> \o ofG),
         h |-> Code(<<"p", "q">>, <<Sink("file", <<>>, "no argument"),
                                      Sink("raw", <<{"p"}>>, "in h"),
                                      Sink("outbound", <<{"q"}>>, "in h too")>>)],
      entrypoints |-> entrypoints] :
        first \in Arguments, second \in {"f", "g", "elsewhere"},
        ofF \in MayCall({"g", "h", "root"}), ofG \in MayCall({"f", "h"}),
        entrypoints \in {<<EntryAt("root")>>, <<EntryAt("f"), EntryAt("root")>>}}

Statements ==
    {Let("a", {"req"}, FALSE), Let("b", {"a"}, FALSE), Let("b", {"a"}, TRUE), Let("c", {"b"}, FALSE),
     GuardCall("file"), Sink("file", <<{"b"}>>, "1"), Sink("shell", <<{}, {"c"}>>, "2"),
     Sink("mutation", <<{}, {"b"}>>, "5"), Sink("billing", <<{"c"}>>, "3"),
     CallTo("h", <<{"c"}, {"c"}>>)}

Stepping ==
    {[functions |-> [root |-> Code(<<"req">>, <<s, t, u, v>>),
                     h |-> Code(<<"p">>, <<Sink("outbound", <<{"p"}>>, "in h")>>)],
      entrypoints |-> <<EntryAt("root")>>] :
        s \in Statements \cup {Sink("file", <<{"req"}>>, "4")}, t \in Statements,
        u \in Statements, v \in Statements \cup {Let("req", {}, TRUE)}}

(* Calls whose order matters, and those of a webhook and of an upload.     *)
Signed ==
    {[functions |-> [root |-> Code(<<"req">>, <<GuardCall(s), GuardCall(t), GuardCall(u),
                                                Sink("upload", <<{"req"}>>, "4")>>)],
      entrypoints |-> <<[EntryAt("root") EXCEPT !.webhook = webhook]>>] :
        s \in {"parse", "verify", "multipart"}, t \in {"parse", "verify", "upload"},
        u \in {"parse", "verify", "multipart"}, webhook \in BOOLEAN}

SomePrograms == Calling \cup Stepping \cup Signed
=============================================================================
