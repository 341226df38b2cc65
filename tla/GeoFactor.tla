------------------------------- MODULE GeoFactor -------------------------------
(***************************************************************************)
(* The rewrite patterns that save multiplications in an expanded function  *)
(* before it is lowered (FactorPass): a sum of products is factored, a sum *)
(* whose terms cancel as polynomials, or complete a square, is written     *)
(* anew, and a pair of factors shared by products is multiplied once.      *)
(***************************************************************************)
EXTENDS GeoSimplify

IsBladeSum(h) == IsOp(h, "sum") /\ \A a \in ToSet(Def(h).args) : IsBlade(a.ty)
Distinct(s) == Reduce(LAMBDA acc, x : IF x \in ToSet(acc) THEN acc ELSE Append(acc, x), <<>>, s)
Repeat(x, n) == [k \in 1..n |-> x]

-----------------------------------------------------------------------------
\* Sums of products. A term counts how often each numbered factor occurs in
\* it; a constant other than 0, 1 and -1 is a factor too.

SizeOf(term) == Reduce(LAMBDA n, k : n + term[k], 0, [k \in DOMAIN term |-> k])
ProductsCost(terms) ==
    Reduce(LAMBDA n, t : IF SizeOf(t) = 0 THEN n ELSE n + SizeOf(t) - 1, 0, terms)

\* The terms that share a factor, with or without those that are nothing
\* else, what they have in common, and the multiplications that saves.
CubeChoice(terms, id, skipSingle) ==
    LET mask == {j \in DOMAIN terms : terms[j][id] > 0 /\ ~(skipSingle /\ SizeOf(terms[j]) = 1)}
        cube == Map(LAMBDA k : Min({terms[j][k] : j \in mask}), [k \in DOMAIN terms[1] |-> k])
        size == SizeOf(cube)
    IN  IF Cardinality(mask) < 2 THEN [mask |-> mask, cube |-> <<>>, savings |-> 0]
        ELSE [mask |-> mask, cube |-> cube,
              savings |-> (Cardinality(mask) - 1) * size
                          - Cardinality({j \in mask : SizeOf(terms[j]) = size})]
CubeChoices(terms) ==
    LET ids == Distinct(Concat([j \in DOMAIN terms |->
                   SelectSeq([k \in DOMAIN terms[j] |-> k], LAMBDA k : terms[j][k] > 0)]))
        all == Concat([j \in DOMAIN ids |-> <<CubeChoice(terms, ids[j], FALSE),
                                              CubeChoice(terms, ids[j], TRUE)>>])
    IN  SortedBy(Distinct(SelectSeq(all, LAMBDA c : c.savings > 0)),
                 LAMBDA c, d : c.savings > d.savings)

\* The chosen terms without what they share, and the others with its product
\* with a new factor, the sum of the chosen.
Indexes(s)  == [k \in DOMAIN s |-> k]
Chosen(s, c) == SelectSeq(Indexes(s), LAMBDA j : j \in c.mask)
Others(s, c) == SelectSeq(Indexes(s), LAMBDA j : j \notin c.mask)
Inner(terms, c) ==
    Map(LAMBDA j : Map(LAMBDA k : terms[j][k] - c.cube[k], Indexes(c.cube)), Chosen(terms, c))
Outer(terms, c) ==
    Append(Map(LAMBDA j : Append(terms[j], 0), Others(terms, c)), Append(c.cube, 1))

RECURSIVE FactoredCost(_)
FactoredCost(terms) ==
    LET cs == CubeChoices(terms)
    IN  Min({ProductsCost(terms)}
            \cup {FactoredCost(Inner(terms, cs[j])) + FactoredCost(Outer(terms, cs[j]))
                  : j \in DOMAIN cs})

\* The keys of a term: its factors, and a constant other than 0, 1 and -1.
Keys(t) == (IF QAbs(t.coef) \in {<<0, 1>>, <<1, 1>>} THEN <<>>
            ELSE <<[c |-> QAbs(t.coef), value |-> <<>>]>>)
           \o [k \in DOMAIN t.factors |-> [c |-> <<1, 1>>, value |-> <<t.factors[k]>>]]
BagOf(ks, ids) == Map(LAMBDA x : Cardinality({n \in DOMAIN ks : ks[n] = x}), ids)
KeyValue(key)  == IF key.value = <<>> THEN Const(ScalarT, key.c) ELSE key.value[1]
Divide(t, keys) == Reduce(LAMBDA u, key :
    IF key.value = <<>> THEN [u EXCEPT !.coef = QMul(@, QInv(key.c))]
    ELSE [u EXCEPT !.factors = RemoveAt(@, SelectInSeq(@, LAMBDA f : f = key.value[1]))],
    [t EXCEPT !.ty = ScalarT], keys)

\* The first choice that leads to the fewest multiplications.
CostOf(terms, c) == FactoredCost(Inner(terms, c)) + FactoredCost(Outer(terms, c))
Cheapest(cs, cost) == cs[CHOOSE j \in DOMAIN cs : \A k \in DOMAIN cs :
                             cost[j] < cost[k] \/ (cost[j] = cost[k] /\ j <= k)]
BestChoice(bags, cs) == Cheapest(cs, Map(LAMBDA c : CostOf(bags, c), cs))

\* The product of what the chosen terms share and the sum of their rests.
Factored(t, terms, c, shared) ==
    NewT("cmul", t, Append(Map(KeyValue, shared),
        Sum(Map(LAMBDA j : CreateSumTerm(Divide(terms[j], shared)), Chosen(terms, c)))))
Shared(ids, c) == Concat([k \in DOMAIN ids |-> Repeat(ids[k], c.cube[k])])
OrAlone(product, others) == IF others = <<>> THEN product ELSE Sum(<<product>> \o others)
FactorOut(i, terms, ids, c) ==
    Replace(i, OrAlone(Factored(T(i), terms, c, Shared(ids, c)),
                       Map(LAMBDA j : A(i, j), Others(terms, c))))

\* Factor what leads to the fewest multiplications out of a sum.
FactorTerms(i, terms) ==
    LET ids  == Distinct(Concat([j \in DOMAIN terms |-> Keys(terms[j])]))
        bags == Map(LAMBDA t : BagOf(Keys(t), ids), terms)
        cs   == CubeChoices(bags)
    IN  If(cs # <<>>, FactorOut(i, terms, ids, BestChoice(bags, cs)))
FactorSum(i) ==
    IF ~(IsBladeSum(Ref(<<i, 1>>)) /\ IsBlade(T(i))) THEN Failure
    ELSE FactorTerms(i, Map(GetSumTerm, Operands(i)))

-----------------------------------------------------------------------------
\* Polynomials: functions from monomials to nonzero rational coefficients. A
\* monomial gives each of its atoms a nonzero exponent. An atom is a value,
\* or the sum u + t v of two atoms.

MaxTerms == 64
ValueAtom(h)      == [value |-> <<h>>, sum |-> <<>>]
SumAtom(u, t, v) == [value |-> <<>>, sum |-> <<u, v, t>>]
Unit             == [a \in {} |-> 0]
PolyAtom(h)      == [M \in {[a \in {ValueAtom(h)} |-> 1]} |-> <<1, 1>>]
PolyConst(q)     == [M \in (IF q[1] = 0 THEN {} ELSE {Unit}) |-> q]

Exponent(M, a) == IF a \in DOMAIN M THEN M[a] ELSE 0
MonTimes(M, N) ==
    LET atoms == {a \in DOMAIN M \cup DOMAIN N : Exponent(M, a) + Exponent(N, a) # 0}
    IN  [a \in atoms |-> Exponent(M, a) + Exponent(N, a)]
MonPower(a, e) == [b \in {a} |-> e]

\* Arithmetic notes whether terms or factors cancelled.
Poly(p, cut) == [p |-> p, cut |-> cut]
PolyAdd(P1, Q1, c) ==
    LET coef(M) == QAdd(IF M \in DOMAIN P1 THEN P1[M] ELSE <<0, 1>>,
                        IF M \in DOMAIN Q1 THEN QMul(c, Q1[M]) ELSE <<0, 1>>)
        all == DOMAIN P1 \cup DOMAIN Q1
    IN  Poly([M \in {N \in all : coef(N)[1] # 0} |-> coef(M)],
             \E M \in all : coef(M)[1] = 0)
PolyTimes(P1, Q1) ==
    LET pairs == Listed((DOMAIN P1) \X (DOMAIN Q1))
        step(s, MN) ==
            LET M == MonTimes(MN[1], MN[2])
                r == PolyAdd(s.p, [N \in {M} |-> QMul(P1[MN[1]], Q1[MN[2]])], <<1, 1>>)
            IN  Poly(r.p, \/ s.cut \/ r.cut
                          \/ DOMAIN M # DOMAIN MN[1] \cup DOMAIN MN[2])
    IN  Reduce(step, Poly(PolyConst(<<0, 1>>), FALSE), pairs)

IsLinear(p) == \A M \in DOMAIN p : M = Unit \/ \E a \in DOMAIN M : M = MonPower(a, 1)

\* The coefficients of a vector, by blade.
Components(h) ==
    LET expands == {u \in Users(<<h.id, h.r>>) : ops[u].op = "expand"}
        u       == Max(expands)
    IN  IF IsBlade(h.ty) THEN <<h>>
        ELSE IF IsOp(h, "sum") THEN (IF IsBladeSum(h) THEN Def(h).args ELSE <<>>)
        ELSE IF expands # {} THEN [r \in DOMAIN ops[u].ty |-> Ref(<<u, r>>)] ELSE <<>>

\* The polynomial of a scalar expression. s holds the polynomials found so
\* far, of which none is computed twice, and whether something cancelled; a
\* polynomial that is too large is <<>>.
Found(s, h)    == {x \in s.cache : x[1] = h}
Note(s, h)     == [s EXCEPT !.cache = @ \cup {<<h, s.p>>}]
SetP(s, p)      == [s EXCEPT !.p = <<p>>]
With(s, r)     == [s EXCEPT !.p = <<r.p>>, !.cut = @ \/ r.cut]
TooLarge(s)    == [s EXCEPT !.p = <<>>]
Bounded(s)     == IF s.p # <<>> /\ Cardinality(DOMAIN s.p[1]) > MaxTerms THEN TooLarge(s) ELSE s
Plus(s, f)     == IF s.p = <<>> THEN s ELSE IF f.p = <<>> THEN f
                  ELSE With(f, PolyAdd(s.p[1], f.p[1], <<1, 1>>))
Times(s, f)    == IF s.p = <<>> THEN s ELSE Bounded(With(f, PolyTimes(s.p[1], f.p[1])))
Negated(f)     == IF f.p = <<>> THEN f
                  ELSE With(f, PolyAdd(PolyConst(<<0, 1>>), f.p[1], <<-1, 1>>))
\* The inverse of a monomial, else the value itself is an atom; so is a dot
\* product whose terms are too large.
Inverted(f, atom) ==
    IF f.p = <<>> \/ Cardinality(DOMAIN f.p[1]) # 1 THEN [atom EXCEPT !.cache = f.cache]
    ELSE SetP(f, [N \in {[a \in DOMAIN M |-> -M[a]] : M \in DOMAIN f.p[1]} |->
                    QInv(f.p[1][CHOOSE M \in DOMAIN f.p[1] : TRUE])])
OrAtom(f, atom) == IF f.p = <<>> THEN [atom EXCEPT !.cache = f.cache] ELSE f
\* A sum of atoms is kept as one atom, so that a - b is not distributed.
AsFactor(s, f, h) ==
    IF f.p = <<>> \/ (IsOp(h, "sum") /\ IsLinear(f.p[1]) /\ Cardinality(DOMAIN f.p[1]) > 1)
    THEN [SetP(f, PolyAtom(h)) EXCEPT !.cut = s.cut] ELSE f
\* The components of two vectors that belong to the same blade.
Matching(L, R) ==
    SelectSeq(Concat([j \in DOMAIN L |-> [k \in DOMAIN R |-> <<L[j], R[k]>>]]),
              LAMBDA p : p[1].ty = p[2].ty)

RECURSIVE PolyOf(_, _), Computed(_, _, _)
PolyOf(s, h) ==
    IF Found(s, h) # {} THEN [s EXCEPT !.p = (CHOOSE x \in Found(s, h) : TRUE)[2]]
    ELSE Note(Computed(s, h, Def(h)), h)
ProductOf(s, hs) == Reduce(LAMBDA f, h : Times(f, AsFactor(f, PolyOf(f, h), h)),
                           SetP(s, PolyConst(<<1, 1>>)), hs)
SumOf(s, hs) == Reduce(LAMBDA f, h : Bounded(Plus(f, PolyOf(f, h))),
                       SetP(s, PolyConst(<<0, 1>>)), hs)
DotOf(s, pairs) == Reduce(LAMBDA f, hs : Plus(f, ProductOf(f, hs)),
                          SetP(s, PolyConst(<<0, 1>>)), pairs)
Computed(s, h, n) ==
    CASE h.ty = ZeroT    -> SetP(s, PolyConst(<<0, 1>>))
      [] h.ty # ZeroT /\ n.op = "blade" -> SetP(s, PolyConst(n.at))
      [] h.ty # ZeroT /\ n.op = "negate" ->
             IF IsBlade(n.args[1].ty) THEN Negated(PolyOf(s, n.args[1])) ELSE TooLarge(s)
      [] h.ty # ZeroT /\ n.op = "cmul" -> ProductOf(s, n.args)
      [] h.ty # ZeroT /\ n.op = "sum"  -> IF IsBladeSum(h) THEN SumOf(s, n.args) ELSE TooLarge(s)
      [] h.ty # ZeroT /\ n.op = "dot" /\ \A j \in {1, 2} : Components(n.args[j]) # <<>> ->
             OrAtom(DotOf(s, Matching(Components(n.args[1]), Components(n.args[2]))),
                    SetP(s, PolyAtom(h)))
      [] h.ty # ZeroT /\ n.op = "inverse" /\ IsGrade(n.args[1].ty, 0) ->
             Inverted(PolyOf(s, n.args[1]), SetP(s, PolyAtom(h)))
      [] OTHER -> SetP(s, PolyAtom(h))

\* k M u^2 + 2 k t M u v + k t^2 M v^2 becomes k M (u + t v)^2.
RECURSIVE CompleteSquares(_)
CompleteSquares(p) ==
    LET atoms == UNION {DOMAIN M : M \in DOMAIN p}
        base(s) == MonTimes(s[1], MonPower(s[2], -2))
        uv(s)  == MonTimes(MonTimes(base(s), MonPower(s[2], 1)), MonPower(s[3], 1))
        vv(s)  == MonTimes(base(s), MonPower(s[3], 2))
        t(s)   == QMul(p[uv(s)], QInv(QMul(<<2, 1>>, p[s[1]])))
        squares == {s \in (DOMAIN p) \X atoms \X atoms :
                      /\ s[2] # s[3] /\ Exponent(s[1], s[2]) >= 2
                      /\ uv(s) \in DOMAIN p /\ vv(s) \in DOMAIN p
                      /\ p[vv(s)] = QMul(p[s[1]], QMul(t(s), t(s)))}
        s      == CHOOSE x \in squares : TRUE
        new    == MonTimes(base(s), MonPower(SumAtom(s[2], t(s), s[3]), 2))
    IN  IF squares = {} THEN p
        ELSE CompleteSquares([M \in DOMAIN p \ {s[1], uv(s), vv(s)} |-> p[M]]
                             @@ (new :> p[s[1]]))

\* The values of an atom and of a term.
RECURSIVE AtomValue(_)
AtomValue(a) ==
    IF a.value # <<>> THEN a.value[1]
    ELSE Sum(<<CreateSumTerm(SumTerm(ScalarT, <<AtomValue(a.sum[1])>>, <<1, 1>>)),
               CreateSumTerm(SumTerm(ScalarT, <<AtomValue(a.sum[2])>>, a.sum[3]))>>)
Powers(atoms, M, sign) ==
    Concat([j \in DOMAIN atoms |-> Repeat(AtomValue(atoms[j]), sign * M[atoms[j]])])
Over(below) == IF below = <<>> THEN <<>>
               ELSE <<Inv(IF Len(below) = 1 /\ below[1].ty = ScalarT THEN below[1]
                          ELSE NewT("cmul", ScalarT, below))>>
TermValue(t, M, k) ==
    CreateSumTerm(SumTerm(t, SortFactors(Powers(Listed(DOMAIN M), M, 1)
                                         \o Over(Powers(Listed(DOMAIN M), M, -1))), k))
PolyValue(t, p) ==
    IF DOMAIN p = {} THEN Const(t, <<0, 1>>)
    ELSE CreateSum(Map(LAMBDA M : TermValue(t, M, p[M]), Listed(DOMAIN p)))

\* Write a sum anew when terms cancelled or a square was completed.
WriteAnew(i, r, p) ==
    If(/\ r.p # <<>>
       /\ r.cut \/ p # r.p[1]
       /\ Cardinality(DOMAIN p) <= Len(ops[i].args),
       Replace(i, PolyValue(T(i), p)))
Squared(i, r) == WriteAnew(i, r, CompleteSquares(r.p[1]))
SimplifyPolynomial(i) ==
    IF ~(IsBladeSum(Ref(<<i, 1>>)) /\ IsBlade(T(i))) THEN Failure
    ELSE Squared(i, PolyOf([p |-> <<>>, cut |-> FALSE, cache |-> {}], Ref(<<i, 1>>)))

-----------------------------------------------------------------------------
\* The pair of factors that is in the most products, one of which has other
\* factors too.

Muls == SelectSeq(order, LAMBDA i : ops[i].op = "cmul" /\ Len(ops[i].args) >= 2)
SortPair(x, y) == IF CompareBlockValues(Ref(y), Ref(x)) THEN <<y, x>> ELSE <<x, y>>
PairsOf(args) == {SortPair(args[jk[1]], args[jk[2]]) :
                     jk \in {p \in (DOMAIN args) \X (DOMAIN args) : p[1] < p[2]}}
WithPair(p) == {i \in ToSet(Muls) : p \in PairsOf(ops[i].args)}
SharedPairs ==
    {p \in UNION {PairsOf(ops[i].args) : i \in ToSet(Muls)} :
        /\ Cardinality(WithPair(p)) > 1
        /\ \E i \in WithPair(p) : Len(ops[i].args) > 2}

\* Multiply the pair once, before the first product that has it.
FactorPair ==
    LET p   == CHOOSE x \in SharedPairs : \A y \in SharedPairs :
                   Cardinality(WithPair(x)) >= Cardinality(WithPair(y))
        new == Max(DOMAIN ops) + 1
        drop(s, v) == RemoveAt(s, SelectInSeq(s, LAMBDA x : x = v))
        at  == SelectInSeq(order, LAMBDA i : i \in WithPair(p))
    IN  /\ ops' = [i \in DOMAIN ops |-> IF i \in WithPair(p)
                      THEN [ops[i] EXCEPT !.args = <<<<new, 1>>>> \o drop(drop(@, p[1]), p[2])]
                      ELSE ops[i]]
                  @@ (new :> Node("cmul", <<ScalarT>>, p, NoAt))
        /\ order' = InsertAt(order, at, new)

=============================================================================
