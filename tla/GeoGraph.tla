------------------------------- MODULE GeoGraph -------------------------------
(***************************************************************************)
(* The intermediate representation of the geometric algebra compiler: the  *)
(* types of values, the result types that operations infer, the operations *)
(* of one function in block order, and what each value means.              *)
(*                                                                         *)
(* A value is a pair <<operation, result number>>. A rewrite pattern       *)
(* describes its new values by handles: a handle is a value of the graph   *)
(* (id # 0) or an operation that is still to be inserted (new # <<>>).     *)
(***************************************************************************)
EXTENDS GeoAlgebra

CONSTANTS
    Args    \* the multivectors the function is applied to, by argument
            \* number: the sequence of its factors, one if not a versor

VARIABLES
    ops,    \* the operations of the function, by number
    order,  \* the numbers of the operations in block order
    metric  \* "cga", or "unknown": no product of vectors is known

-----------------------------------------------------------------------------
\* Types

Ty(k, b)   == [k |-> k, b |-> b]
Unknown    == Ty("unknown", <<>>)
ZeroT      == Ty("zero", <<>>)
BladeT(b)  == IF b = ZeroTag THEN ZeroT ELSE Ty("blade", <<b>>)
ScalarT    == BladeT(Scalar)
VersorT(f) == Ty("versor", f)

IsBlade(t)   == t.k = "blade"
IsMV(t)      == t.k \in {"multivector", "unit_vector", "unit_multivector"}
IsUnitary(t) == t.k \in {"unit_vector", "unit_multivector"}
IsVector(t)  == (IsBlade(t) \/ IsMV(t)) /\ \A j \in DOMAIN t.b : Grade(t.b[j]) = 1
TyGrade(t)   == Grade(t.b[1])
IsGrade(t, k) == IsBlade(t) /\ TyGrade(t) = k
BladeTypes(t) == IF IsBlade(t) \/ IsMV(t) THEN t.b ELSE <<>>
GradesOf(t)   == {Grade(b) : b \in ToSet(BladeTypes(t))}

\* createMultivectorLikeType: sorted and without duplicates.
MultivectorT(k, bs) ==
    LET sorted == Ordered(ToSet(bs), TagLess)
    IN  IF Len(sorted) = 1 THEN BladeT(sorted[1]) ELSE Ty(k, sorted)
UnitT(bs) ==
    MultivectorT(IF \A j \in DOMAIN bs : Grade(bs[j]) = 1
                 THEN "unit_vector" ELSE "unit_multivector", bs)

RECURSIVE IsValidNarrowing(_, _)
IsValidNarrowing(A, B) ==
    \/ A = B
    \/ A.k = "unknown"
    \/ /\ A.k = "versor" /\ B.k = "versor"
       /\ Len(A.b) = Len(B.b)
       /\ \A j \in DOMAIN A.b : IsValidNarrowing(A.b[j], B.b[j])
    \/ IsMV(A) /\ IsBlade(B) /\ B.b[1] \in ToSet(A.b)
    \/ /\ IsMV(A) /\ IsMV(B)
       /\ IsUnitary(B) \/ A.k = B.k
       /\ ToSet(B.b) \subseteq ToSet(A.b)
    \/ B.k = "zero"

IsOrthogonalBasis(A, B) ==
    \A x \in ToSet(A.b), y \in ToSet(B.b) :
        /\ Grade(x) = 1 /\ Grade(y) = 1
        /\ VecDot(x, y) = (IF x = y THEN 1 ELSE 0)

HasSupportedInverse(t) ==
    \/ t.k \in {"unknown", "zero", "blade", "versor"} \/ IsVector(t)
    \/ \A k \in GradesOf(t) : Parity(k) = 0

-----------------------------------------------------------------------------
\* The type an operation infers from the types of its operands.

InferSum(ts, unitary) ==
    LET bs == Concat([j \in DOMAIN ts |-> ts[j].b])
    IN  IF \E j \in DOMAIN ts : ts[j].k \notin {"zero", "blade"} THEN Unknown
        ELSE IF bs = <<>> THEN ZeroT
        ELSE IF unitary THEN UnitT(bs) ELSE MultivectorT("multivector", bs)

InferProd(A, B, t) ==
    IF IsBlade(A) /\ IsBlade(B) THEN t
    ELSE IF A.k = "zero" \/ B.k = "zero" THEN ZeroT ELSE Unknown
InferOuter(A, B) == InferProd(A, B, BladeT(WedgeTag(A.b[1], B.b[1])))
\* Broken: the inner product of any two blades is typed a scalar.
InnerIsScalar(A, B) ==
    InferProd(A, B, IF TyGrade(A) = 0 THEN B
                    ELSE IF TyGrade(B) = 0 THEN ZeroT ELSE ScalarT)
InferInner(A, B) ==
    InferProd(A, B, IF TyGrade(A) = 0 THEN B
                    ELSE IF TyGrade(B) = 0 THEN ZeroT
                    ELSE IF TyGrade(A) = 1 /\ TyGrade(B) = 1 THEN ScalarT ELSE Unknown)
InferInverse(t)  == IF IsBlade(t) /\ TyGrade(t) <= 1 THEN t ELSE Unknown

InferVersor(ts) ==
    IF \E j \in DOMAIN ts : ts[j].k = "zero" THEN ZeroT
    ELSE IF \E j \in DOMAIN ts : ts[j].k # "versor" /\ ~IsVector(ts[j]) THEN Unknown
    ELSE VersorT(Concat([j \in DOMAIN ts |-> IF ts[j].k = "versor" THEN ts[j].b ELSE <<ts[j]>>]))

\* Operations that infer their result type, and those that do not.
Inferred == {"sum", "oprod", "iprod", "inverse", "reverse", "grade_invo",
             "negate", "oswap", "versor"}
Infer(op, ts, at) ==
    CASE op = "sum"     -> InferSum(ts, at[1] = 1)
      [] op = "oprod"   -> InferOuter(ts[1], ts[2])
      [] op = "iprod"   -> InferInner(ts[1], ts[2])
      [] op = "versor"  -> InferVersor(ts)
      [] op = "inverse" -> InferInverse(ts[1])
      [] op = "oswap"   -> BladeT(OSwap(ts[1].b[1]))
      [] op = "reverse" -> IF ts[1].k = "versor" THEN VersorT(Reverse(ts[1].b)) ELSE ts[1]
      [] op \in {"negate", "grade_invo"} -> ts[1]
      [] op \in {"dot", "sqrt"} -> ScalarT
      [] OTHER          -> Unknown

-----------------------------------------------------------------------------
\* Handles

NoAt == <<0, 1>>    \* the attribute of an operation that has none
Types(hs) == [j \in DOMAIN hs |-> hs[j].ty]
Node(op, ty, args, at) == [op |-> op, ty |-> ty, args |-> args, at |-> at]
MakeN(op, ty, args, at) ==
    [j \in DOMAIN ty |->
        [id |-> 0, r |-> j, ty |-> ty[j], new |-> <<Node(op, ty, args, at)>>]]
Make(op, t, args, at) == MakeN(op, <<t>>, args, at)[1]
New(op, args)   == Make(op, Infer(op, Types(args), NoAt), args, NoAt)
NewT(op, t, args) == Make(op, t, args, NoAt)
Sum(args)       == NewT("sum", InferSum(Types(args), FALSE), args)
UnitSum(args)   == Make("sum", InferSum(Types(args), TRUE), args, <<1, 1>>)
Const(t, q)     == Make("blade", t, <<>>, q)
Zero            == Const(ZeroT, <<0, 1>>)

Ref(v)  == [id |-> v[1], r |-> v[2], ty |-> ops[v[1]].ty[v[2]], new |-> <<>>]
Refs(s) == [j \in DOMAIN s |-> Ref(s[j])]
Def(h)  == IF h.new # <<>> THEN h.new[1] ELSE [ops[h.id] EXCEPT !.args = Refs(@)]
IsOp(h, op) == Def(h).op = op
A(i, j) == Ref(ops[i].args[j])
Operands(i) == Refs(ops[i].args)
T(i)    == ops[i].ty[1]

Users(v)   == {i \in DOMAIN ops : v \in ToSet(ops[i].args)}
UseCount(v) == MapThenSumSet(
    LAMBDA i : Cardinality({j \in DOMAIN ops[i].args : ops[i].args[j] = v}), Users(v))

IsUnitBlade(h) == IsOp(h, "blade") /\ Def(h).at = <<1, 1>>

\* A constant is a rational number.
Q(n, d) == LET s == IF d < 0 THEN -1 ELSE 1
               g == Max({k \in 1..(s * d) : n % k = 0 /\ (s * d) % k = 0})
           IN  <<(s * n) \div g, (s * d) \div g>>
QMul(x, y) == Q(x[1] * y[1], x[2] * y[2])
QAdd(x, y) == Q(x[1] * y[2] + y[1] * x[2], x[2] * y[2])
QNeg(x)    == <<-x[1], x[2]>>
QAbs(x)    == IF x[1] < 0 THEN QNeg(x) ELSE x
QInv(x)    == Q(x[2], x[1])
Residue(q) == Mod(Mod(q[1]) * Reciprocal(q[2]))

-----------------------------------------------------------------------------
\* What a value means: the sequence of its factors, one if not a versor.

\* A value of a blade type is a coefficient times the basis blade in the
\* order its tag says.
TagSign(t)  == IF t.b[1].swapped THEN -1 ELSE 1
BladeVal(t, c) ==
    IF t.k = "zero" THEN MVZero ELSE MVBlade(t.b[1].dims, TagSign(t) * c)
CoefOf(M, t) ==
    IF t.k = "zero" THEN 0 ELSE Mod(TagSign(t) * Coef(M, t.b[1].dims))
SquareRoot(x) == Power(x, (P + 1) \div 4)

\* A conversion to a unit vector divides by the norm.
Convert(M, from, to) ==
    IF to.k = "unit_vector" /\ ~IsUnitary(from)
    THEN MVScale(Reciprocal(SquareRoot(Coef(MVGeom(M, M), {}))), M) ELSE M

\* The results of an operation, given what its operands mean.
Results(n, vals, ts) ==
    LET M(j)   == Reduce(MVGeom, vals[j][1], Tail(vals[j]))
        each(Op(_), s) == [j \in DOMAIN s |-> Op(s[j])]
        blade(c) == <<BladeVal(n.ty[1], c)>>
    IN  CASE n.op = "arg"        -> <<Args[n.at[1]]>>
          [] n.op = "blade"      -> <<blade(Residue(n.at))>>
          [] n.op = "expand"     -> [r \in DOMAIN n.ty |->
                 <<BladeVal(n.ty[r], CoefOf(M(1), n.ty[r]))>>]
          [] n.op = "factors"    -> [r \in DOMAIN n.ty |-> <<vals[1][r]>>]
          [] n.op = "sum"        -> << <<MVSum([j \in DOMAIN vals |-> M(j)])>> >>
          [] n.op = "oprod"      -> << <<MVOuter(M(1), M(2))>> >>
          [] n.op = "iprod"      -> << <<MVInner(M(1), M(2))>> >>
          [] n.op = "gprod"      -> << <<MVGeom(M(1), M(2))>> >>
          [] n.op = "vprod"      -> << <<FoldLeftDomain(
                 LAMBDA X, j : IF j = 1 THEN X ELSE MVApply(M(j), X), M(1), vals)>> >>
          [] n.op = "versor"     -> <<Reduce(LAMBDA acc, v : acc \o v, <<>>, vals)>>
          [] n.op = "negate"     -> <<[vals[1] EXCEPT ![1] = MVScale(-1, @)]>>
          [] n.op = "reverse"    -> <<each(MVReverse, Reverse(vals[1]))>>
          [] n.op = "grade_invo" -> <<each(MVInvo, vals[1])>>
          [] n.op = "inverse"    -> <<each(MVInverse, Reverse(vals[1]))>>
          [] n.op = "grade"      -> << <<MVGrades(M(1), {n.at[1]})>> >>
          [] n.op = "cmul"       -> <<blade(FoldLeftDomain(
                 LAMBDA c, j : Mod(c * CoefOf(M(j), ts[j])), 1, vals))>>
          [] n.op = "dot"        -> << <<MVScalar(MapThenSumSet(
                 LAMBDA S : Mod(M(1)[S] * Coef(M(2), S)), DOMAIN M(1)))>> >>
          [] n.op = "sqrt"       -> <<blade(SquareRoot(Coef(M(1), {})))>>
          [] n.op = "cast" /\ n.ty[1].k \in {"blade", "zero"} ->
                 <<blade(CoefOf(M(1), ts[1]))>>
          [] n.op = "convert" /\ n.ty[1].k = "versor" /\ ts[1].k = "versor" ->
                 <<[j \in DOMAIN vals[1] |-> Convert(vals[1][j], ts[1].b[j], n.ty[1].b[j])]>>
          [] n.op = "convert" /\ ts[1].k # "versor" ->
                 << <<Convert(M(1), ts[1], n.ty[1])>> >>
          [] OTHER               -> <<vals[1]>>     \* cast, oswap, return

\* The values of all operations of a function.
Meaning(f, ord) ==
    Reduce(LAMBDA env, i :
                 env @@ (i :> Results(f[i],
                     [j \in DOMAIN f[i].args |-> env[f[i].args[j][1]][f[i].args[j][2]]],
                     [j \in DOMAIN f[i].args |-> f[f[i].args[j][1]].ty[f[i].args[j][2]]])),
             <<>>, ord)

\* A value has the shape its type says.
RECURSIVE HasType(_, _)
HasType(val, t) ==
    CASE t.k = "unknown" -> TRUE
      [] t.k = "versor"  -> Len(val) = Len(t.b)
                            /\ \A j \in DOMAIN val : HasType(<<val[j]>>, t.b[j])
      [] OTHER           ->
            /\ \A S \in DOMAIN val[1] : \E j \in DOMAIN t.b : t.b[j].dims = S
            /\ IsUnitary(t) => MVGeom(val[1], MVReverse(val[1])) = MVScalar(1)

=============================================================================
