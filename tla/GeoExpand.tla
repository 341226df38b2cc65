------------------------------- MODULE GeoExpand ------------------------------
(***************************************************************************)
(* The rewrite patterns that expand a function of the geometric algebra    *)
(* into sums of blades (ExpandFuncPass). A pattern is an operator of the   *)
(* operation it is tried on; its value is the empty set when it does not   *)
(* match, and else the one edit of the graph that it makes.                *)
(***************************************************************************)
EXTENDS GeoGraph

\* Edits: the operation is replaced by values, its operands are exchanged,
\* or its result type is narrowed.
Edit(do, i, hs, t) == {[do |-> do, at |-> i, hs |-> hs, ty |-> t]}
Failure             == {}
ReplaceWith(i, hs)   == Edit("replace", i, hs, Unknown)
Replace(i, h)       == ReplaceWith(i, <<h>>)
SetOperands(i, hs)  == IF hs = Operands(i) THEN Failure ELSE Edit("operands", i, hs, Unknown)
SetResultType(i, t) == Edit("type", i, <<>>, t)
ReplaceWithZero(i)  == Replace(i, Zero)

Is(i, names)  == ops[i].op \in names
If(cond, edit) == IF cond THEN edit ELSE Failure

\* A stable sort.
SortedBy(s, Less(_, _)) ==
    LET idx == SortSeq([j \in DOMAIN s |-> j], LAMBDA j, k :
                   Less(s[j], s[k]) \/ (~Less(s[k], s[j]) /\ j < k))
    IN  [j \in DOMAIN s |-> s[idx[j]]]
CompareBlades(x, y) ==
    IF IsBlade(x.ty) /\ IsBlade(y.ty) THEN TagLess(x.ty.b[1], y.ty.b[1])
    ELSE ~IsBlade(x.ty) /\ IsBlade(y.ty)

-----------------------------------------------------------------------------
\* What several patterns use.

\* The blades of a multivector: the operands of the sum that defines it, or
\* the results of an expand, of which a value has at most one.
ExpandMultivector(h) ==
    LET expands == {u \in Users(<<h.id, h.r>>) : ops[u].op = "expand"}
    IN  IF IsOp(h, "sum") THEN Def(h).args
        ELSE IF h.id # 0 /\ expands # {}
             THEN LET u == Max(expands)
                  IN  [r \in DOMAIN ops[u].ty |-> Ref(<<u, r>>)]
             ELSE MakeN("expand", [r \in DOMAIN h.ty.b |-> BladeT(h.ty.b[r])], <<h>>, NoAt)
BladeValues(h) == IF IsMV(h.ty) THEN ExpandMultivector(h) ELSE <<h>>

RECURSIVE VersorFactors(_)
VersorFactors(h) ==
    LET users == {u \in Users(<<h.id, h.r>>) : ops[u].op = "factors"}
    IN  IF IsOp(h, "versor")
        THEN Reduce(LAMBDA acc, f :
                 acc \o (IF f.ty.k = "versor" THEN VersorFactors(f) ELSE <<f>>),
                 <<>>, Def(h).args)
        ELSE IF users # {}
             THEN LET u == Max(users) IN [r \in DOMAIN ops[u].ty |-> Ref(<<u, r>>)]
             ELSE MakeN("factors", h.ty.b, <<h>>, NoAt)

\* Add the blades of a type that a value lacks, with zero coefficients.
LiftToMultivector(t, h) ==
    LET have == BladeValues(h)
        pick(b) == SelectSeq(have, LAMBDA v : v.ty = BladeT(b))
    IN  IF t.k = "zero" THEN Zero
        ELSE IF h.ty = t \/ (IsMV(h.ty) /\ IsMV(t) /\ h.ty.b = t.b) \/ IsBlade(t) THEN h
        ELSE Sum([j \in DOMAIN t.b |->
                    IF pick(t.b[j]) # <<>> THEN pick(t.b[j])[1]
                    ELSE Const(BladeT(t.b[j]), <<0, 1>>)])

CreateSum(hs) == IF Len(hs) = 1 THEN hs[1] ELSE Sum(hs)
Negate(h)     == NewT("negate", h.ty, <<h>>)
NegateIf(c, h) == IF c THEN Negate(h) ELSE h
Mul(a, b)     == NewT("iprod", InferInner(a.ty, b.ty), <<a, b>>)    \* a scalar times a value, or a dot product
Geom(a, b)    == NewT("gprod", Unknown, <<a, b>>)
Inv(h)        == NewT("inverse", InferInverse(h.ty), <<h>>)
OSwapped(h)   == NewT("oswap", BladeT(OSwap(h.ty.b[1])), <<h>>)
CanonicalOuter(h) ==
    IF IsBlade(h.ty) /\ h.ty.b[1].swapped THEN OSwapped(h) ELSE h
CreateOuterProd(a, b) == CanonicalOuter(NewT("oprod", InferOuter(a.ty, b.ty), <<a, b>>))
VersorProd(h, vs) == NewT("vprod", Unknown, <<h>> \o vs)

\* A blade of grade two or more as the wedge of a basis vector and the rest.
FactorBlade(h) ==
    LET V  == IF h.ty.b[1].swapped THEN OSwapped(h) ELSE h
        ab == Factor(V.ty.b[1])
    IN  <<Const(BladeT(ab[1]), <<1, 1>>), NewT("cast", BladeT(ab[2]), <<V>>)>>

\* The scalar part of V Reverse(V), summed over the grades of V.
VersorNormSq(h) ==
    LET blades == BladeValues(h)
        part(k) == CreateSum(SelectSeq(blades, LAMBDA v : TyGrade(v.ty) = k))
        grades  == Ordered({TyGrade(v.ty) : v \in ToSet(blades)}, <)
    IN  CreateSum([j \in DOMAIN grades |->
            NegateIf(grades[j] % 4 >= 2, Mul(part(grades[j]), part(grades[j])))])

-----------------------------------------------------------------------------
\* Sums, casts, conversions

\* Unnest and sort the operands of a sum, with one sum for each blade.
ExpandSum(i) ==
    LET args   == Operands(i)
        flat(h) == IF IsBlade(h.ty)
                   THEN IF IsOp(h, "sum") /\ h.ty = T(i) THEN Def(h).args ELSE <<h>>
                   ELSE IF IsMV(h.ty) THEN ExpandMultivector(h) ELSE <<>>
        values == SortedBy(Reduce(LAMBDA acc, h : acc \o flat(h), <<>>, args), CompareBlades)
        types  == Ordered({values[j].ty : j \in DOMAIN values} \ {ZeroT},
                               LAMBDA s, t : TagLess(s.b[1], t.b[1]))
    IN  IF ~Is(i, {"sum"}) THEN Failure
        ELSE IF args = <<>> THEN ReplaceWithZero(i)
        ELSE IF Len(args) = 1 THEN Replace(i, args[1])
        ELSE If(/\ \A j \in DOMAIN args : args[j].ty.k \notin {"unknown", "versor"}
                /\ values # args,
                Replace(i, Sum([j \in DOMAIN types |->
                    CreateSum(SelectSeq(values, LAMBDA v : v.ty = types[j]))])))

\* Distribute over the first operand that is a multivector.
Distribute(i) ==
    LET args == Operands(i)
        mvs  == {j \in DOMAIN args : IsMV(args[j].ty)}
        m    == Min(mvs)
        unit == \E j \in DOMAIN args : IsUnitary(args[j].ty)
        clone(h) ==
            LET new == [args EXCEPT ![m] = h]
                t   == IF ops[i].op \in Inferred THEN Infer(ops[i].op, Types(new), ops[i].at)
                                                 ELSE T(i)
                c   == Make(ops[i].op, t, new, ops[i].at)
            IN  IF ops[i].op = "oprod" THEN CanonicalOuter(c) ELSE c
        blades  == ExpandMultivector(args[m])
        results == [j \in DOMAIN blades |-> clone(blades[j])]
        total   == IF IsUnitary(T(i)) THEN UnitSum(results) ELSE Sum(results)
    IN  IF \/ ~Is(i, {"oprod", "iprod", "gprod", "reverse", "grade_invo", "negate"})
           \/ mvs = {}
           \/ Is(i, {"gprod"}) /\ unit /\ \E j \in DOMAIN args : args[j].ty = Unknown
        THEN Failure
        ELSE Replace(i, IF Is(i, {"gprod"}) /\ \A j \in DOMAIN args : IsUnitary(args[j].ty)
                        THEN New("cast_unitary", <<total>>) ELSE total)

UpdateInferredTypes(i) ==
    LET t == Infer(ops[i].op, Types(Operands(i)), ops[i].at)
    IN  IF Is(i, Inferred) /\ T(i) = Unknown
        THEN If(t # Unknown, SetResultType(i, t)) ELSE Failure

\* Broken: a cast is removed without looking at the types.
RemovesAnyCast(i) == If(Is(i, {"cast"}), Replace(i, A(i, 1)))
RemoveCast(i)    == If(Is(i, {"cast"}) /\ A(i, 1).ty = T(i), Replace(i, A(i, 1)))
RemoveConvert(i) == If(Is(i, {"convert"}) /\ A(i, 1).ty = T(i), Replace(i, A(i, 1)))

\* Broken: a blade that is cast to a multivector is left as it is.
WidensOnlyVectors(i) ==
    IF Is(i, {"cast"}) /\ IsMV(T(i)) /\ IsMV(A(i, 1).ty)
    THEN LET have == BladeTypes(A(i, 1).ty)
         IN  If(/\ have # <<>> /\ Len(have) < Len(T(i).b)
                /\ ToSet(have) \subseteq ToSet(T(i).b),
                SetOperands(i, <<LiftToMultivector(T(i), A(i, 1))>>))
    ELSE Failure
WidenCastArg(i) ==
    IF Is(i, {"cast"}) /\ IsMV(T(i))
    THEN LET have == BladeTypes(A(i, 1).ty)
         IN  If(/\ have # <<>> /\ Len(have) < Len(T(i).b)
                /\ ToSet(have) \subseteq ToSet(T(i).b),
                SetOperands(i, <<LiftToMultivector(T(i), A(i, 1))>>))
    ELSE Failure

RemoveExpand(i) ==
    IF ~Is(i, {"expand"}) \/ A(i, 1).ty = Unknown THEN Failure
    ELSE LET arg == A(i, 1)
             src == Def(arg).args[1]
         IN  IF IsOp(arg, "sum") THEN ReplaceWith(i, Def(arg).args)
             ELSE IF IsOp(arg, "cast") /\ IsMV(arg.ty) /\ IsMV(src.ty) /\ src.ty.b = arg.ty.b
             THEN ReplaceWith(i, MakeN("expand", [r \in DOMAIN src.ty.b |-> BladeT(src.ty.b[r])],
                                      <<src>>, NoAt))
             ELSE If(~IsMV(arg.ty), Replace(i, arg))

ExpandConvert(i) ==
    IF ~Is(i, {"convert"}) THEN Failure
    ELSE LET arg == A(i, 1)
             fs  == VersorFactors(arg)
             widened == LiftToMultivector(T(i), arg)
         IN  IF arg.ty = T(i) THEN Replace(i, arg)
             ELSE IF IsMV(arg.ty) /\ IsVector(arg.ty) /\ T(i).k = "unit_vector"
             THEN Replace(i, NewT("cast", T(i),
                      <<Mul(Inv(New("sqrt", <<Mul(arg, arg)>>)), arg)>>))
             ELSE IF arg.ty.k = "versor" /\ T(i).k = "versor" /\ IsValidNarrowing(T(i), arg.ty)
             THEN If(Len(fs) = Len(T(i).b),
                     Replace(i, New("versor", [j \in DOMAIN fs |->
                         IF fs[j].ty = T(i).b[j] THEN fs[j]
                         ELSE NewT("convert", T(i).b[j], <<fs[j]>>)])))
             ELSE If(arg.ty # Unknown /\ IsValidNarrowing(T(i), arg.ty),
                     Replace(i, IF IsBlade(T(i)) THEN Const(T(i), <<0, 1>>)
                                ELSE IF widened.ty = T(i) THEN widened
                                ELSE NewT("cast", T(i), <<widened>>)))

\* Keep the result type of the function when the returned value is narrowed.
ConvertNarrowedReturn(i) ==
    If(/\ Is(i, {"return"})
       /\ A(i, 1).ty # T(i) /\ Unknown \notin {A(i, 1).ty, T(i)}
       /\ IsValidNarrowing(T(i), A(i, 1).ty),
       SetOperands(i, <<NewT("convert", T(i), <<A(i, 1)>>)>>))

-----------------------------------------------------------------------------
\* Products

ZeroAbsorbs == {"oprod", "iprod", "gprod", "negate", "oswap", "cast", "cmul",
                "dot", "vprod", "versor"}
IsMul       == {"oprod", "iprod", "cmul"}
ZeroAbsorbToZero(i) ==
    If(/\ Is(i, ZeroAbsorbs)
       /\ \E h \in ToSet(Operands(i)) :
             \/ h.ty.k = "zero"
             \/ Is(i, IsMul \cup {"gprod", "dot"}) /\ IsOp(h, "blade") /\ Def(h).at[1] = 0,
       ReplaceWithZero(i))

OddGrade(h) == ShouldInvoNegate(h.ty.b[1])
\* (a ^ B) R as half of a (B R) plus or minus B (a R).
HalfSum(a, B, R) ==
    Mul(Const(ScalarT, <<1, 2>>),
        Sum(<<Geom(a, Geom(B, R)), Geom(NegateIf(OddGrade(B), B), Geom(a, R))>>))
GeomOf(L, R) ==
    IF IsGrade(L.ty, 0) THEN Mul(L, R)
    ELSE IF IsGrade(R.ty, 0) THEN Mul(R, L)
    ELSE IF IsGrade(L.ty, 1) THEN Sum(<<Mul(L, R), CreateOuterProd(L, R)>>)
    ELSE IF IsGrade(R.ty, 1)
    THEN Sum(<<NegateIf(~OddGrade(L), Mul(R, L)), NegateIf(OddGrade(L), CreateOuterProd(R, L))>>)
    ELSE LET aB == FactorBlade(L) IN HalfSum(aB[1], aB[2], R)
ExpandGP(i) ==
    If(Is(i, {"gprod"}) /\ IsBlade(A(i, 1).ty) /\ IsBlade(A(i, 2).ty),
       Replace(i, GeomOf(A(i, 1), A(i, 2))))

\* a . (b ^ C) = (a . b) ^ C - b ^ (a . C), and (a ^ B) . R = a . (B . R).
ContractRight(a, b, C) ==
    Sum(<<CreateOuterProd(Mul(a, b), C), Negate(CreateOuterProd(b, Mul(a, C)))>>)
ContractOf(i, L, R) ==
    IF L.ty = R.ty /\ L.ty.k = "unit_vector" THEN Replace(i, Const(ScalarT, <<1, 1>>))
    ELSE IF ~(IsBlade(L.ty) /\ IsBlade(R.ty)) THEN Failure
    ELSE IF IsGrade(L.ty, 0) /\ IsUnitBlade(L) THEN Replace(i, R)
    ELSE IF IsGrade(L.ty, 0) /\ IsGrade(R.ty, 0) /\ IsUnitBlade(R) THEN Replace(i, L)
    ELSE IF T(i) # Unknown THEN Failure
    ELSE IF IsGrade(L.ty, 1) /\ TyGrade(R.ty) > 1
    THEN LET bC == FactorBlade(R) IN Replace(i, ContractRight(L, bC[1], bC[2]))
    ELSE LET aB == FactorBlade(L)
         IN  If(TyGrade(L.ty) > 1 /\ TyGrade(R.ty) > 0,
                Replace(i, Mul(aB[1], Mul(aB[2], R))))
ExpandLC(i) == IF Is(i, {"iprod"}) THEN ContractOf(i, A(i, 1), A(i, 2)) ELSE Failure

ApplyMetric(i) ==
    IF ~(metric = "cga" /\ Is(i, {"iprod"})) THEN Failure
    ELSE LET L == A(i, 1)
             R == A(i, 2)
             d == VecDot(L.ty.b[1], R.ty.b[1])
             scalars == Mul(NewT("cast", ScalarT, <<L>>), NewT("cast", ScalarT, <<R>>))
         IN  IF IsMV(L.ty) /\ IsMV(R.ty) /\ IsOrthogonalBasis(L.ty, R.ty)
             THEN Replace(i, New("dot", <<L, R>>))
             ELSE IF ~(IsGrade(L.ty, 1) /\ IsGrade(R.ty, 1)) THEN Failure
             ELSE IF d = 0 THEN ReplaceWithZero(i)
             ELSE Replace(i, NegateIf(d = -1, scalars))

SimplifyDot(i) ==
    If(/\ Is(i, {"dot"}) /\ A(i, 1) = A(i, 2)
       /\ (A(i, 1).ty.k = "unit_vector" \/ IsUnitBlade(A(i, 1))),
       Replace(i, Const(ScalarT, <<1, 1>>)))

-----------------------------------------------------------------------------
\* Unary operations

SimplifyNegate(i) ==
    If(Is(i, {"negate"}) /\ IsOp(A(i, 1), "negate"), Replace(i, Def(A(i, 1)).args[1]))

SimplifyInverse(i) ==
    IF ~Is(i, {"inverse"}) THEN Failure
    ELSE LET arg == A(i, 1)
             neg == Def(arg).args[1]
         IN  IF arg.ty.k = "unit_vector" THEN Replace(i, arg)
             ELSE IF IsUnitary(arg.ty) THEN Replace(i, New("reverse", <<arg>>))
             ELSE IF IsGrade(arg.ty, 0) /\ IsUnitBlade(arg) THEN Replace(i, arg)
             ELSE IF IsGrade(arg.ty, 0) /\ IsOp(arg, "negate") /\ neg.ty = arg.ty
             THEN Replace(i, NewT("negate", arg.ty, <<NewT("inverse", arg.ty, <<neg>>)>>))
             ELSE If(IsOp(arg, "blade"), Replace(i, Const(arg.ty, QInv(Def(arg).at))))

ExpandInverse(i) ==
    IF ~Is(i, {"inverse"}) THEN Failure
    ELSE LET arg == A(i, 1)
             rev == IF IsBlade(arg.ty)
                    THEN NegateIf(ShouldReverseNegate(arg.ty.b[1]), arg)
                    ELSE New("reverse", <<arg>>)
             norm == IF IsMV(arg.ty) /\ ~IsVector(arg.ty) THEN VersorNormSq(arg)
                     ELSE Mul(arg, arg)
         IN  If(/\ IsMV(arg.ty) \/ (IsBlade(arg.ty) /\ TyGrade(arg.ty) > 0)
                /\ HasSupportedInverse(arg.ty),
                Replace(i, Mul(Inv(norm), rev)))

ExpandReverse(i) ==
    If(Is(i, {"reverse"}) /\ IsBlade(A(i, 1).ty),
       Replace(i, NegateIf(ShouldReverseNegate(A(i, 1).ty.b[1]), A(i, 1))))
ExpandGradeInvo(i) ==
    If(Is(i, {"grade_invo"}) /\ IsBlade(A(i, 1).ty),
       Replace(i, NegateIf(ShouldInvoNegate(A(i, 1).ty.b[1]), A(i, 1))))

ExpandCastUnitary(i) ==
    If(Is(i, {"cast_unitary"}) /\ A(i, 1).ty.k \notin {"unknown", "versor"},
       LET arg == A(i, 1)
       IN  Replace(i, IF ~IsMV(arg.ty) \/ IsUnitary(arg.ty) THEN arg
                      ELSE NewT("cast", UnitT(arg.ty.b), <<arg>>)))

ExpandGrade(i) ==
    IF ~Is(i, {"grade"}) \/ A(i, 1).ty = Unknown THEN Failure
    ELSE LET blades == SelectSeq(BladeValues(A(i, 1)),
                                 LAMBDA v : IsGrade(v.ty, ops[i].at[1]))
         IN  IF A(i, 1).ty.k = "zero" \/ blades = <<>> THEN ReplaceWithZero(i)
             ELSE Replace(i, CreateSum(blades))

-----------------------------------------------------------------------------
\* Versors

ExpandVersorVP(i) ==
    LET vs == Tail(Operands(i))
    IN  If(Is(i, {"vprod"}) /\ \E v \in ToSet(vs) : v.ty.k = "versor",
           Replace(i, VersorProd(A(i, 1), Reduce(LAMBDA acc, v :
               acc \o (IF v.ty.k = "versor" THEN Reverse(VersorFactors(v)) ELSE <<v>>),
               <<>>, vs))))

ExpandVersorUnary(i) ==
    IF ~(Is(i, {"inverse", "reverse", "grade_invo", "negate"}) /\ A(i, 1).ty.k = "versor")
    THEN Failure
    ELSE LET fs == VersorFactors(A(i, 1))
             each(s) == [j \in DOMAIN s |-> New(ops[i].op, <<s[j]>>)]
         IN  Replace(i, New("versor",
                 CASE ops[i].op = "inverse"    -> each(Reverse(fs))
                   [] ops[i].op = "reverse"    -> Reverse(fs)
                   [] ops[i].op = "grade_invo" -> each(fs)
                   [] OTHER                    -> [fs EXCEPT ![1] = Negate(@)]))

\* A versor that is an operand of another operation becomes the product of
\* its factors.
ExpandVersorOperand(i) ==
    LET args == Operands(i)
        n    == IF Is(i, {"vprod"}) THEN 1 ELSE Len(args)
        product(h) == Reduce(Geom, VersorFactors(h)[1], Tail(VersorFactors(h)))
    IN  If(Is(i, {"sum", "oprod", "iprod", "gprod", "dot", "vprod", "cast_unitary"}),
           SetOperands(i, [j \in DOMAIN args |->
               IF j <= n /\ args[j].ty.k = "versor" THEN product(args[j]) ELSE args[j]]))

\* Apply a versor that is not a vector to a blade.
ExpandMultivectorVP(arg, v, orthogonal) ==
    LET odd    == {Parity(k) = 1 : k \in GradesOf(v.ty)}
        single == Cardinality(odd) = 1
        conj   == Geom(v, Geom(arg, New("reverse", <<v>>)))
        scaled == IF IsUnitary(v.ty) THEN conj ELSE Mul(Inv(VersorNormSq(v)), conj)
        k      == TyGrade(arg.ty)
    IN  IF orthogonal /\ single THEN arg
        ELSE NegateIf(odd = {TRUE} /\ Parity(k) = 1,
                      Make("grade", Unknown, <<scaled>>, <<k, 1>>))

\* Apply the first versor of a versor product to a blade.
ApplyVersor(arg, v, inv, orthogonal) ==
    IF ~IsBlade(v.ty) /\ ~IsVector(v.ty) THEN ExpandMultivectorVP(arg, v, orthogonal)
    ELSE IF IsGrade(arg.ty, 0) \/ orthogonal THEN arg
    ELSE IF IsVector(v.ty) /\ IsGrade(arg.ty, 1)
    THEN Sum(<<arg, Negate(Mul(Mul(Const(ScalarT, <<2, 1>>), Mul(v, arg)), inv))>>)
    ELSE IF IsVector(v.ty)
    THEN LET aB == FactorBlade(arg)
         IN  CreateOuterProd(VersorProd(aB[1], <<v>>), VersorProd(aB[2], <<v>>))
    ELSE NegateIf(Parity(TyGrade(v.ty)) = 1 /\ Parity(TyGrade(arg.ty)) = 1,
                  Geom(v, Geom(arg, inv)))
ApplyFirst(arg, vs) ==
    ApplyVersor(arg, vs[1], IF vs[1].ty.k = "unit_vector" THEN vs[1] ELSE Inv(vs[1]),
                metric = "cga" /\ \A b \in ToSet(vs[1].ty.b) : IsOrthogonal(arg.ty.b[1], b))
ApplyRest(h, rest) == IF rest = <<>> THEN h ELSE VersorProd(h, rest)
ExpandVP(i) ==
    IF ~(Is(i, {"vprod"}) /\ IsBlade(A(i, 1).ty)) THEN Failure
    ELSE IF Len(ops[i].args) = 1 THEN Replace(i, A(i, 1))
    ELSE If(\A w \in ToSet(Tail(Operands(i))) : w.ty.k \notin {"unknown", "versor"},
            Replace(i, ApplyRest(ApplyFirst(A(i, 1), Tail(Operands(i))),
                                 Tail(Tail(Operands(i))))))

DistributeVP(i) ==
    LET arg    == A(i, 1)
        vs     == Tail(Operands(i))
        blades == ExpandMultivector(arg)
        sum    == Sum([j \in DOMAIN blades |-> VersorProd(blades[j], <<vs[1]>>)])
    IN  IF ~Is(i, {"vprod"}) THEN Failure
        ELSE IF vs = <<>> THEN Replace(i, arg)
        ELSE If(IsMV(arg.ty), Replace(i, IF Len(vs) = 1 THEN sum ELSE VersorProd(sum, Tail(vs))))

=============================================================================
