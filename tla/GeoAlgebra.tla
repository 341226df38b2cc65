------------------------------ MODULE GeoAlgebra ------------------------------
(***************************************************************************)
(* The basis blades of the geometric algebra compiler (BladeTag, Metric)   *)
(* and, below them, the algebra itself: a reference the compiler's rewrite *)
(* patterns are compared with.                                             *)
(*                                                                         *)
(* A blade tag is the set of its basis vectors and the high bit of the     *)
(* code's bitmask, which says that the vectors are not in sorted order.    *)
(* The coefficient of a multivector is a residue modulo the prime P: an    *)
(* identity between rational functions of the coefficients that holds over *)
(* the rationals holds modulo P, and the arithmetic stays exact.           *)
(***************************************************************************)
EXTENDS Integers, FiniteSets, Sequences, FiniteSetsExt, SequencesExt

CONSTANTS
    Basis,      \* the tags of the basis vectors: powers of two, 8 = origin
                \* and 16 = infinity in the conformal metric
    P           \* the prime that coefficients are reduced by

Parity(n) == n % 2

\* A left fold, which evaluates the accumulator at every step.
Reduce(Op(_, _), base, s) ==
    LET RECURSIVE From(_, _)
        From(acc, k) ==
            IF k > Len(s) THEN acc
            ELSE CHOOSE r \in {From(x, k + 1) : x \in {Op(acc, s[k])}} : TRUE
    IN  From(base, 1)

\* The elements of a set as a sequence, in an order of their own or by Less.
RECURSIVE Listed(_)
Listed(S) == IF S = {} THEN <<>>
             ELSE LET x == CHOOSE y \in S : TRUE IN <<x>> \o Listed(S \ {x})
Ordered(S, Less(_, _)) == SortSeq(Listed(S), Less)
Map(Op(_), s) == Reduce(LAMBDA acc, x : Append(acc, Op(x)), <<>>, s)
Concat(ss) == FlattenSeq(ss)

-----------------------------------------------------------------------------
\* BladeTag

Tag(d)    == [dims |-> d, swapped |-> FALSE]
ZeroTag   == [dims |-> {}, swapped |-> TRUE]     \* createZero
Scalar    == Tag({})
Grade(b)  == Cardinality(b.dims)
Canonical(b) == Tag(b.dims)
OSwap(b)  == IF Grade(b) > 1 THEN [b EXCEPT !.swapped = ~@] ELSE b

ShouldInvoNegate(b)    == Parity(Grade(b)) = 1
ShouldReverseNegate(b) == Grade(b) % 4 \in {2, 3}

\* The order of blade tags: by grade, then by the value of the bitmask.
BitsLess(S, U) == S # U /\ Max((S \ U) \cup (U \ S)) \in U
TagLess(a, b) ==
    \/ Grade(a) < Grade(b)
    \/ /\ Grade(a) = Grade(b)
       /\ IF a.swapped = b.swapped THEN BitsLess(a.dims, b.dims) ELSE b.swapped

\* Peel off the leftmost vector. In a blade that is not canonical the two
\* leftmost vectors are taken as exchanged, so the rest is canonical.
Factor(b) ==
    LET least == Min(b.dims)
        a     == IF b.swapped THEN Min(b.dims \ {least}) ELSE least
    IN  <<Tag({a}), Tag(b.dims \ {a})>>

RECURSIVE Factorize(_)
Factorize(b) == IF Grade(b) <= 1 THEN <<b>>
                ELSE <<Factor(b)[1]>> \o Factorize(Factor(b)[2])

\* The wedge product of basis vectors: every exchange that sorts them flips
\* the sign, a repeated vector gives zero.
Inversions(vs) ==
    Cardinality({<<i, j>> \in (1..Len(vs)) \X (1..Len(vs)) :
                    i < j /\ TagLess(vs[j], vs[i])})
Create(vs) ==
    LET dims == UNION {vs[i].dims : i \in 1..Len(vs)}
    IN  IF Cardinality(dims) < Len(vs) THEN ZeroTag
        ELSE [dims |-> dims, swapped |-> Parity(Inversions(vs)) = 1]

\* The tag of the wedge product of two blades (createBladeType).
WedgeTag(a, b) ==
    Create([j \in 1..Grade(a) |-> Factorize(a)[j]] \o [j \in 1..Grade(b) |-> Factorize(b)[j]])

-----------------------------------------------------------------------------
\* Metric

\* The conformal metric: orthonormal but for the null vectors 8 and 16.
DotProduct(a, b) ==
    CASE {a, b} = {8, 16}         -> -1
      [] a = b /\ a \in {8, 16}   -> 0
      [] a = b /\ a \notin {8, 16} -> 1
      [] OTHER                    -> 0
VecDot(a, b) == DotProduct(Min(a.dims), Min(b.dims))

IsOrthogonal(a, b) == \A x \in a.dims, y \in b.dims : DotProduct(x, y) = 0

-----------------------------------------------------------------------------
\* The reference: multivectors as functions from blades (sets of basis
\* vectors) to nonzero residues, and the Clifford product on them.

Mod(n) == n % P
RECURSIVE Power(_, _)
Power(x, k) ==
    IF k = 0 THEN 1
    ELSE LET h == Power(x, k \div 2)
         IN  IF Parity(k) = 0 THEN Mod(h * h) ELSE Mod(Mod(h * h) * x)
Reciprocal(x) == Power(Mod(x), P - 2)

Coef(M, S) == IF S \in DOMAIN M THEN M[S] ELSE 0
Sparse(f)  == [S \in {T \in DOMAIN f : f[T] # 0} |-> f[S]]
MVZero     == [S \in {} |-> 0]
MVBlade(S, c) == Sparse([T \in {S} |-> Mod(c)])
MVScalar(c)   == MVBlade({}, c)
MVAdd(M, N) ==
    Sparse([S \in DOMAIN M \cup DOMAIN N |-> Mod(Coef(M, S) + Coef(N, S))])
MVScale(c, M) == Sparse([S \in DOMAIN M |-> Mod(Mod(c) * M[S])])
MVSum(Ms)     == Reduce(MVAdd, MVZero, Ms)
MVGrades(M, K) == Sparse([S \in {T \in DOMAIN M : Cardinality(T) \in K} |-> M[S]])
SumOver(Set, Op(_)) == FoldSet(LAMBDA x, acc : MVAdd(Op(x), acc), MVZero, Set)

Sign(n) == IF Parity(n) = 0 THEN 1 ELSE -1
Below(x, S) == Cardinality({y \in S : y < x})

\* The contraction of a vector and a blade, and their wedge.
VecContract(x, S) ==
    SumOver(S, LAMBDA s : MVBlade(S \ {s}, Sign(Below(s, S)) * DotProduct(x, s)))
VecWedge(x, S) ==
    IF x \in S THEN MVZero ELSE MVBlade(S \cup {x}, Sign(Below(x, S)))
VecTimes(x, M) ==
    SumOver(DOMAIN M, LAMBDA S : MVScale(M[S], MVAdd(VecContract(x, S), VecWedge(x, S))))

\* (a ^ B) M = a (B M) - (a . B) M for the least vector a of a blade.
RECURSIVE BladeTimes(_, _)
BladeTimes(A, M) ==
    IF A = {} THEN M
    ELSE LET a == Min(A)
             B == A \ {a}
             C == VecContract(a, B)
         IN  MVAdd(VecTimes(a, BladeTimes(B, M)),
                   SumOver(DOMAIN C, LAMBDA S : MVScale(-C[S], BladeTimes(S, M))))

\* The products of basis blades.
ProductTable ==
    [A \in SUBSET Basis, B \in SUBSET Basis |-> BladeTimes(A, MVBlade(B, 1))]

\* A product that keeps only the grades G(r, s) of a blade of grade r times
\* one of grade s: the geometric, the outer product and the left contraction.
Graded(M, N, G(_, _)) ==
    SumOver((DOMAIN M) \X (DOMAIN N),
            LAMBDA AB : MVScale(Mod(M[AB[1]] * N[AB[2]]),
                          MVGrades(ProductTable[AB],
                                   G(Cardinality(AB[1]), Cardinality(AB[2])))))
MVGeom(M, N)  == Graded(M, N, LAMBDA r, s : 0..(r + s))
MVOuter(M, N) == Graded(M, N, LAMBDA r, s : {r + s})
MVInner(M, N) == Graded(M, N, LAMBDA r, s : {s - r})

MVReverse(M) == Sparse([S \in DOMAIN M |->
    Mod(M[S] * Sign((Cardinality(S) * (Cardinality(S) - 1)) \div 2))])
MVInvo(M)    == Sparse([S \in DOMAIN M |-> Mod(M[S] * Sign(Cardinality(S)))])
MVInverse(M) ==
    MVScale(Reciprocal(Coef(MVGeom(M, MVReverse(M)), {})), MVReverse(M))

\* A versor V of parity p maps the grade k part X of a multivector to
\* (-1)^(kp) V X V^-1.
MVIsOdd(V) == V # MVZero /\ \A S \in DOMAIN V : Parity(Cardinality(S)) = 1
MVApply(V, X) == MVGeom(V, MVGeom(IF MVIsOdd(V) THEN MVInvo(X) ELSE X, MVInverse(V)))

=============================================================================
