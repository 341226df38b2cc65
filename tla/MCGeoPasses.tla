------------------------------ MODULE MCGeoPasses -----------------------------
EXTENDS GeoPasses

CONSTANT Suite     \* the functions of a run

MCBasis == {1, 2, 8, 16}
B(d)    == BladeT(Tag(d))
MVT(k, ds) == Ty(k, [j \in DOMAIN ds |-> Tag(ds[j])])
V12  == MVT("multivector", <<{1}, {2}>>)
U12  == MVT("unit_vector", <<{1}, {2}>>)
MV2(x, y) == MVAdd(MVBlade({1}, x), MVBlade({2}, y))
Fifth == Reciprocal(5)

ArgPool == <<
    <<ScalarT, <<MVScalar(7)>> >>,
    <<B({1}), <<MVBlade({1}, 3)>> >>,
    <<B({2}), <<MVBlade({2}, 5)>> >>,
    <<B({1, 2}), <<MVBlade({1, 2}, 11)>> >>,
    <<V12, <<MV2(3, 4)>> >>,
    <<V12, <<MV2(13, 6)>> >>,
    <<U12, <<MV2(3 * Fifth, 4 * Fifth)>> >>,
    <<MVT("multivector", <<{}, {1, 2}>>), <<MVAdd(MVScalar(2), MVBlade({1, 2}, 3))>> >>,
    <<MVT("unit_multivector", <<{}, {1, 2}>>),
      <<MVAdd(MVScalar(3 * Fifth), MVBlade({1, 2}, 4 * Fifth))>> >>,
    <<MVT("multivector", <<{1}, {8}, {16}>>),
      <<MVAdd(MVBlade({1}, 2), MVAdd(MVBlade({8}, 1), MVBlade({16}, 9)))>> >>,
    <<VersorT(<<U12, V12>>), <<MV2(3 * Fifth, 4 * Fifth), MV2(1, 2)>> >>,
    <<MVT("unit_vector", <<{1}, {16}>>), <<MVAdd(MVBlade({1}, 1), MVBlade({16}, 8))>> >>,
    <<MVT("unit_vector", <<{1}, {16}>>), <<MVAdd(MVBlade({1}, -1), MVBlade({16}, 5))>> >>,
    <<ScalarT, <<MVScalar(9)>> >> >>
MCArgs == [k \in DOMAIN ArgPool |-> ArgPool[k][2]]
Arg(k) == Make("arg", ArgPool[k][1], <<>>, <<k, 1>>)
Raw(op, args) == NewT(op, Unknown, args)

s == Arg(1)
e1 == Arg(2)
e2 == Arg(3)
e12 == Arg(4)
v == Arg(5)
w == Arg(6)
u == Arg(7)
q == Arg(8)
m == Arg(9)
pt == Arg(10)
R == Arg(11)
n1 == Arg(12)
n2 == Arg(13)
s2 == Arg(14)
Un(op, a) == New(op, <<a>>)
VP(a, vs) == New("vprod", <<a>> \o vs)

Versor(fs) == New("versor", fs)
Total(as)  == New("sum", as)

Fn(value, t) == [value |-> value, ty |-> t, metric |-> "cga"]
Inferring(vs) == {Fn(h, Unknown) : h \in vs}
NoMetric(vs) == {[Fn(h, Unknown) EXCEPT !.metric = "unknown"] : h \in vs}
MCPrograms ==
    CASE Suite = "all" ->
         Inferring({
            Geom(v, w), Geom(e12, Geom(v, u)), Geom(u, u), Geom(R, v), Mul(u, u),
            New("oprod", <<v, w>>), Total(<<v, e12, w>>), VP(v, <<u>>), VP(v, <<m>>),
            VP(pt, <<w>>), VP(e1, <<Versor(<<u, e1>>)>>), VP(e12, <<v>>),
            Inv(q), Inv(Inv(v)), Inv(R), Geom(Inv(v), v),
            Un("reverse", R), Un("grade_invo", m), Un("cast_unitary", Geom(u, m)),
            Make("grade", Unknown, <<Geom(v, w)>>, <<2, 1>>),
            NewT("cast", V12, <<v>>), NewT("convert", V12, <<v>>),
            NewT("convert", V12, <<e1>>), NewT("convert", U12, <<v>>),
            NewT("convert", VersorT(<<V12, V12>>), <<R>>),
            Total(<<Mul(s, s), Mul(Const(ScalarT, <<2, 1>>), Mul(s, s2)), Mul(s2, s2)>>),
            Total(<<Mul(Total(<<s, s2>>), s), Un("negate", Mul(s2, s))>>) })
         \cup {Fn(Geom(v, u), MVT("multivector", <<{}, {1}, {1, 2}>>)), Fn(w, V12)}
         \cup NoMetric({Geom(v, w), VP(v, <<u>>), Inv(q), Geom(u, u)})
      [] Suite = "inverse" -> Inferring({Inv(v), Inv(q), Inv(e12)})
      [] Suite = "unit"    -> Inferring({Mul(u, u), Mul(n1, n2)})
      [] Suite = "dot"     -> Inferring({Mul(v, w), Mul(v, pt)})
=============================================================================
