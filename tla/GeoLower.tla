-------------------------------- MODULE GeoLower -------------------------------
(***************************************************************************)
(* The lowering of an expanded function to arithmetic on numbers (LowerPass *)
(* of the geometric algebra compiler). A blade becomes a number, a vector  *)
(* or multivector the vector of its coefficients in the order of its       *)
(* blades, and a versor the elements of its factors one after the other.   *)
(* Every operation is converted by a pattern of its own, from the types    *)
(* alone; one that no pattern converts makes the pass fail.                *)
(***************************************************************************)
EXTENDS GeoGraph

-----------------------------------------------------------------------------
\* TypeConverter: the number of elements of a type, 0 if it is not converted.

Size(t) == IF t.k \in {"blade", "zero"} THEN 1
           ELSE IF IsMV(t) THEN Len(t.b)
           ELSE IF t.k = "versor"
           THEN Reduce(LAMBDA n, f : n + (IF IsMV(f) THEN Len(f.b) ELSE 1), 0, t.b)
           ELSE 0

\* Cut a sequence of elements into pieces of the sizes of some types.
Split(s, ts) ==
    Reduce(LAMBDA acc, t : [rest  |-> SubSeq(acc.rest, Size(t) + 1, Len(acc.rest)),
                            parts |-> Append(acc.parts, SubSeq(acc.rest, 1, Size(t)))],
           [rest |-> s, parts |-> <<>>], ts).parts

-----------------------------------------------------------------------------
\* The conversion patterns.

\* A pattern converts the operation, or an assertion in it holds.
Lowerable(n, ts) ==
    /\ \A j \in DOMAIN n.ty : Size(n.ty[j]) # 0 \/ n.op = "return"
    /\ CASE n.op = "sum" -> /\ \A j \in DOMAIN ts : Size(ts[j]) = 1
                            /\ IF IsMV(n.ty[1]) THEN Len(ts) = Size(n.ty[1])
                               ELSE IsBlade(n.ty[1])
         [] n.op = "expand" -> Len(n.ty) = Size(ts[1])
         [] n.op = "versor" -> Reduce(LAMBDA k, t : k + Size(t), 0, ts) = Size(n.ty[1])
         [] n.op = "factors" -> TRUE
         [] n.op = "dot"    -> Size(ts[1]) = Size(ts[2])
         [] n.op = "inverse" -> IsGrade(ts[1], 0)
         [] n.op = "cast"   -> Size(ts[1]) = Size(n.ty[1])
         [] OTHER -> n.op \in {"arg", "blade", "cmul", "negate", "oswap", "sqrt", "return"}

\* Broken: the first elements are left out.
DotToArithSkips(L, R) ==
    Reduce(LAMBDA c, j : Mod(c + L[j] * R[j]), 0, Tail([j \in DOMAIN L |-> j]))
\* A dot product multiplies the elements of two vectors pairwise.
DotToArith(L, R) ==
    Reduce(LAMBDA c, j : Mod(c + L[j] * R[j]), 0, [j \in DOMAIN L |-> j])

\* The elements of the results, given the elements of the operands.
Arithmetic(n, vals) ==
    CASE n.op = "blade"  -> << <<Residue(n.at)>> >>
      [] n.op = "cmul"   -> << <<Reduce(LAMBDA c, x : Mod(c * x[1]), 1, vals)>> >>
      [] n.op = "sum" /\ IsMV(n.ty[1]) -> <<Concat(vals)>>
      [] n.op = "sum" /\ ~IsMV(n.ty[1]) ->
             << <<Reduce(LAMBDA c, x : Mod(c + x[1]), 0, vals)>> >>
      [] n.op = "expand" -> [r \in DOMAIN n.ty |-> <<vals[1][r]>>]
      [] n.op = "versor" -> <<Concat(vals)>>
      [] n.op = "factors" -> Split(vals[1], n.ty)
      [] n.op \in {"negate", "oswap"} -> <<[j \in DOMAIN vals[1] |-> Mod(-vals[1][j])]>>
      [] n.op = "dot"    -> << <<DotToArith(vals[1], vals[2])>> >>
      [] n.op = "inverse" -> << <<Reciprocal(vals[1][1])>> >>
      [] n.op = "sqrt"   -> << <<SquareRoot(vals[1][1])>> >>
      [] n.op \in {"cast", "return"} -> <<vals[1]>>

-----------------------------------------------------------------------------
\* The function after the pass, applied to the elements of its arguments.

ElementsOf(val, t) ==
    IF t.k = "versor" THEN Concat([j \in DOMAIN t.b |->
                               IF IsMV(t.b[j])
                               THEN [k \in DOMAIN t.b[j].b |-> CoefOf(val[j], BladeT(t.b[j].b[k]))]
                               ELSE <<CoefOf(val[j], t.b[j])>>])
    ELSE IF IsMV(t) THEN [k \in DOMAIN t.b |-> CoefOf(val[1], BladeT(t.b[k]))]
    ELSE <<CoefOf(val[1], t)>>

OperandTypes(n) == [j \in DOMAIN n.args |-> ops[n.args[j][1]].ty[n.args[j][2]]]
IsLowerable == \A i \in DOMAIN ops : Lowerable(ops[i], OperandTypes(ops[i]))

\* The elements that the lowered function returns.
Lowered ==
    LET step(env, i) ==
            LET n == ops[i]
                vals == [j \in DOMAIN n.args |-> env[n.args[j][1]][n.args[j][2]]]
            IN  env @@ (i :> IF n.op = "arg" THEN <<ElementsOf(Args[n.at[1]], n.ty[1])>>
                             ELSE Arithmetic(n, vals))
    IN  Reduce(step, <<>>, order)[order[Len(order)]][1]

\* The multivector that some elements stand for.
ValueOf(elements, t) ==
    LET factor(s, f) == MVSum([k \in DOMAIN s |->
            BladeVal(IF IsMV(f) THEN BladeT(f.b[k]) ELSE f, s[k])])
        parts == Split(elements, t.b)
    IN  IF t.k = "versor"
        THEN Reduce(MVGeom, MVScalar(1), [j \in DOMAIN t.b |-> factor(parts[j], t.b[j])])
        ELSE factor(elements, t)

=============================================================================
