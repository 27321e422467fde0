---------------------------- MODULE MCKnowledge -----------------------------
(* An instance of Knowledge for TLC.                                        *)
EXTENDS Knowledge, TLC

CONSTANTS s1, s2    \* two services, of which only the first one is searched for

\* Two code files, one of them found twice, two methods of one file, a runbook.
Document(source, file, method, service, score, info, local, band, fused) ==
    [source |-> source, layer |-> IF source = "runbook" THEN "docs" ELSE "server",
     file |-> file, method |-> method, service |-> service, score |-> score,
     info |-> info, local |-> local, band |-> band, fused |-> fused]

MCDocuments ==
    {Document("code", "f1", NoMethod, s1, 60, 2, 60, 4, FALSE),
     Document("code", "f2", NoMethod, s1, 20, 1, 50, 2, FALSE),
     Document("code", "f2", NoMethod, NoService, 20, 3, 50, 2, TRUE),
     Document("codegraph", "f1", "m1", s1, 25, 2, 25, 4, FALSE),
     Document("codegraph", "f1", "m2", s1, 25, 3, 30, 4, FALSE),
     Document("runbook", "t1", NoMethod, NoService, 50, 4, 10, 1, FALSE)}

\* Call graphs of up to two edges that meet, and up to two links of one node
\* that every edge ends at, at most two of both together.
Calls == {e \in CallEdge : e.source # e.target}
CallGraphs ==
    {{}} \cup {{e, f} : <<e, f>> \in
                  {g \in Calls \X Calls : {g[1].source, g[1].target} \cap {g[2].source, g[2].target} # {}}}

Linked(n, to) == [m \in Nodes |-> IF m = n THEN to ELSE {}]

SmallGraphs ==
    UNION {{<<c, Linked(n, to)>> :
               to \in {to \in SUBSET (Nodes \ {n}) :
                         /\ Cardinality(c) + Cardinality(to) <= 2
                         /\ to # {} => \A e \in c : n \in {e.source, e.target}}} :
             n \in Nodes, c \in CallGraphs}

\* A call chain over three nodes whose middle one has a link to a fourth.
Crossings ==
    {<<{[source |-> p, target |-> q, line |-> 1], [source |-> q, target |-> r, line |-> 1]},
       Linked(q, Nodes \ {p, q, r})>> :
        <<p, q, r>> \in {t \in Nodes \X Nodes \X Nodes : Cardinality({t[1], t[2], t[3]}) = 3}}

AllIndexes ==
    {[calls |-> g[1], down |-> g[2], up |-> g[2]] : g \in SmallGraphs \cup Crossings}

\* TLC evaluates a definition once, but what replaces a constant at every use.
MCIndexes == AllIndexes

NodeSymmetry == Permutations(Nodes)

\* A result of a page with some of its tags, and a second one short of at most one.
Whole(b) ==
    LET kinds == <<"result", "title", "link", "text", "endtitle",
                   "caption", "text", "enddiv", "endresult">>
    IN [i \in 1..9 |-> [is |-> kinds[i], of |-> b]]

Without(b, gone) ==
    LET left == {i \in 1..9 : i \notin gone /\ (i = 8 => 6 \notin gone)}
    IN FoldLeft(LAMBDA s, i : IF i \in left THEN Append(s, Whole(b)[i]) ELSE s, << >>,
                [i \in 1..9 |-> i])

MCPages ==
    LET inner == (2..9) \ {8}
    IN {Without("b1", gone) \o Without("b2", {i} \ {1}) : gone \in SUBSET inner, i \in {1} \cup inner}
       \cup {Without("b1", {}) \o <<[is |-> "challenge", of |-> "b1"]>>}

Passage(heading, score, size) == [heading |-> heading, score |-> score, size |-> size]

MCPassages ==
    <<Passage("h1", 3, 2), Passage("h1", 2, 2), Passage("h1", 2, 1), Passage("h2", 0, 1),
      Passage("h2", 1, 2)>>

\* Values of JSON, each followed by those in it, with what the brackets of
\* containers take, and lines of text.
Row(kind, size, terms) == [kind |-> kind, size |-> size, terms |-> terms]
Node(kind, size, terms) == <<[kind |-> kind, size |-> size, terms |-> terms, within |-> << >>]>>
Scalar(size, terms) == Node("scalar", size, terms)
Holder(kind, items) ==
    LET Place(vs, item) ==
            vs \o [i \in DOMAIN item |->
                     [item[i] EXCEPT !.within = <<1>> \o [k \in DOMAIN @ |-> @[k] + Len(vs)]]]
    IN FoldLeft(Place, Node(kind, 1, {}), items)

\* Records of which a plain field may fit as context and of which some are too
\* long for one piece.
Records ==
    {Holder("object", <<Scalar(a, t), Scalar(70, {}), Scalar(b, {})>>) :
        a \in {10, 90}, b \in {5, 70}, t \in {{}, {"t1"}}}

InObject(r, s) ==
    [form |-> "json", values |-> Holder("object", <<Scalar(10, {}), Holder("array", <<r, s>>)>>)]
InLists(r) ==
    [form |-> "json",
     values |-> Holder("array", <<Holder("array", <<r, Scalar(300, {"t2"})>>), r>>)]

MCAnswers ==
    {InObject(r, s) : r \in Records, s \in Records} \cup {InLists(r) : r \in Records}
    \cup {[form |-> "json", values |-> Holder("object", <<Scalar(20, {}), Scalar(20, {}), Scalar(n, {})>>)] :
            n \in {20, 100}}
    \cup {[form |-> "lines",
           lines |-> <<Row("text", 40, {}), Row(k, 50, t), Row(k, 30, {"t2"}), Row("blank", 0, {}),
                       Row("json", 70, {}), Row("json", 5, {"t1", "t2"})>>] :
            k \in {"text", "json", "blank"}, t \in {{}, {"t1"}}}
    \cup {[form |-> "lines", lines |-> <<Row("blank", 1, {}), Row("blank", 300, {})>>]}
=============================================================================
