----------------------------- MODULE SimdLanes -----------------------------
(* The four and eight lane operations of prm_simd (Impl/Windows/SIMD.rs).  Each
   has an instruction path, taken when the build or the processor has the
   feature, and a scalar path, the fallback; p says which.  A lane is
   a fixed-point number in units of 1 / Unit, or NaN; the two input vectors of
   the eight-lane operations are made of two four-lane ones each. *)
EXTENDS Integers, Sequences

CONSTANTS LaneInputs  \* four-lane vectors

VARIABLES op, path, va, vb, vc, result

simdvars == <<op, path, va, vb, vc, result>>

Unit == 8
NaN == 1000000
Ones == -1    \* the bit pattern of a set mask lane; 0 is a clear one
Squares == {8, 32}  \* lanes whose reciprocal estimates are exact

\* Multiples of a half, whose products are exact, too small for a sum of
\* products to meet the number that stands for NaN.
Lane == {NaN} \union {4 * a : a \in -250 .. 250}
LanesAssumption == LaneInputs \subseteq [1 .. 4 -> Lane]

Plus(u, v) == IF NaN \in {u, v} THEN NaN ELSE u + v
Times(u, v) == IF NaN \in {u, v} THEN NaN ELSE (u * v) \div Unit
Less(u, v) == u # NaN /\ v # NaN /\ u < v
Same(u, v) == u # NaN /\ u = v

\* Rounding to an integer: towards minus infinity, to nearest with ties to even
\* (the instruction) or away from zero (f32::round), towards zero.
Floor(u) == IF u = NaN THEN NaN ELSE u - (u % Unit)
Ceil(u) == IF u = NaN THEN NaN ELSE -Floor(-u)
Abs(u) == IF u = NaN \/ u >= 0 THEN u ELSE -u
Trunc(u) == IF u < 0 THEN Ceil(u) ELSE Floor(u)
RoundAway(u) == IF u = NaN THEN NaN
                ELSE IF u >= 0 THEN Floor(u + Unit \div 2) ELSE -Floor(Unit \div 2 - u)
RoundEven(u) == IF u # NaN /\ u % (2 * Unit) = Unit \div 2 THEN Floor(u) ELSE Floor(Plus(u, Unit \div 2))

Lanes(v) == DOMAIN v
Each(f(_), v) == [i \in Lanes(v) |-> f(v[i])]
Pairwise(f(_, _), v, w) == [i \in Lanes(v) |-> f(v[i], w[i])]
Low(v) == SubSeq(v, 1, 4)
High(v) == SubSeq(v, 5, 8)

\* The instructions the code uses.
MoveHDup(v) == <<v[2], v[2], v[4], v[4]>>
MoveHL(v, w) == <<w[3], w[4], v[3], v[4]>>
BitAnd(m, u) == IF m = Ones THEN u ELSE 0
BitAndNot(m, u) == IF m = Ones THEN 0 ELSE u
BitOr(u, v) == IF u = 0 THEN v ELSE u

\* The horizontal sum of impl_dot and impl_hsum8, by lane 1 of the last add.
\* Mutant of HorizontalSum: the second shuffle takes its arguments swapped.
HorizontalSumSwapped(m) ==
    LET sums == Pairwise(Plus, m, MoveHDup(m))
    IN  Plus(sums[1], MoveHL(sums, MoveHDup(m))[1])

HorizontalSum(m) ==
    LET sums == Pairwise(Plus, m, MoveHDup(m))
    IN  Plus(sums[1], MoveHL(MoveHDup(m), sums)[1])

ScalarSum(v) ==
    LET s[i \in 0 .. Len(v)] == IF i = 0 THEN 0 ELSE Plus(s[i - 1], v[i])
    IN  s[Len(v)]

Dot(p) == IF p = "instruction" THEN HorizontalSum(Pairwise(Times, va, vb))
          ELSE ScalarSum(Pairwise(Times, va, vb))
HSum8(p) == IF p = "instruction" THEN HorizontalSum(Pairwise(Plus, Low(va), High(va)))
            ELSE ScalarSum(va)

\* The min and max instructions answer their second operand when the comparison
\* fails, as the scalar code does.
MinLane(u, v) == IF Less(u, v) THEN u ELSE v
MaxLane(u, v) == IF Less(v, u) THEN u ELSE v

CmpLt == Pairwise(LAMBDA u, v : IF Less(u, v) THEN Ones ELSE 0, va, vb)
CmpEq == Pairwise(LAMBDA u, v : IF Same(u, v) THEN Ones ELSE 0, va, vb)

\* select with the mask of a comparison; the eight-lane instruction path works
\* on bits, the others test a mask lane for nonzero.
SelectLane(p, m, u, v) ==
    IF Len(va) = 8 /\ p = "instruction"
    THEN BitOr(BitAnd(m, u), BitAndNot(m, v))
    ELSE IF m # 0 THEN u ELSE v
Select(p) == [i \in Lanes(va) |-> SelectLane(p, CmpLt[i], va[i], vc[i])]

\* x * cx + y * cy + z * cz, summed from z; the constants are the lanes of vb.
Dot3(p) ==
    [i \in Lanes(va) |->
        LET x == Times(va[i], vb[1])
            y == Times(vb[i], vb[2])
            z == Times(vc[i], vb[3])
        IN  IF p = "instruction" THEN Plus(x, Plus(y, z)) ELSE Plus(Plus(x, y), z)]

\* Rounding takes the instruction only with four lanes.
Round(p) == IF p = "instruction" /\ Len(va) = 4 THEN Each(RoundEven, va) ELSE Each(RoundAway, va)

\* The refinement steps after the estimates r0 of 1 / u and of 1 / sqrt(u).
RcpLane(p, u) ==
    LET r0 == (Unit * Unit) \div u
    IN  IF p = "instruction" THEN Times(r0, 2 * Unit - Times(u, r0)) ELSE r0
Rsqrt(u) == CHOOSE r \in 1 .. Unit : r * r * u = Unit * Unit * Unit
RsqrtLane(p, u) ==
    LET r0 == Rsqrt(u)
    IN  IF p = "instruction"
        THEN Times(r0, 3 * Unit - Times(Times(u, r0), Times(r0, Unit \div 2)))
        ELSE r0

\* What the operation answers on path p.
Answer(p) ==
    CASE op = "add" -> Pairwise(Plus, va, vb)
      [] op = "mul" -> Pairwise(Times, va, vb)
      [] op = "fma" -> Pairwise(Plus, Pairwise(Times, va, vb), vc)
      [] op = "min" -> Pairwise(MinLane, va, vb)
      [] op = "max" -> Pairwise(MaxLane, va, vb)
      [] op = "cmp_lt" -> CmpLt
      [] op = "cmp_eq" -> CmpEq
      [] op = "select" -> Select(p)
      [] op = "abs" -> Each(Abs, va)
      [] op = "dot" -> <<Dot(p)>>
      [] op = "hsum8" -> <<HSum8(p)>>
      [] op = "dot3" -> Dot3(p)
      [] op = "floor" -> Each(Floor, va)
      [] op = "ceil" -> Each(Ceil, va)
      [] op = "trunc" -> Each(Trunc, va)
      [] op = "round" -> Round(p)
      [] op = "rcp" -> [i \in Lanes(va) |-> RcpLane(p, va[i])]
      [] op = "rsqrt" -> [i \in Lanes(va) |-> RsqrtLane(p, va[i])]

Init ==
    /\ op \in {"add", "mul", "fma", "min", "max", "cmp_lt", "cmp_eq", "select", "abs",
               "dot", "hsum8", "dot3", "floor", "ceil", "round", "trunc", "rcp", "rsqrt"}
    /\ path \in {"instruction", "scalar"}
    /\ \E u, v, w \in LaneInputs, wide \in BOOLEAN :
         /\ va = IF wide THEN u \o v ELSE u
         /\ vb = IF wide THEN v \o w ELSE v
         /\ vc = IF wide THEN w \o u ELSE w
    /\ op \in {"hsum8", "dot3"} => Len(va) = 8
    /\ op = "dot" => Len(va) = 4
    /\ op \in {"rcp", "rsqrt"} => \A i \in DOMAIN va : va[i] \in Squares
    /\ result = << >>

Run ==
    /\ result = << >>
    /\ result' = Answer(path)
    /\ UNCHANGED <<op, path, va, vb, vc>>

Next == Run

Spec == Init /\ [][Next]_simdvars

Near(u, v) == IF NaN \in {u, v} THEN u = v ELSE 2 * Abs(u - v) <= Unit
AnyNaN(v) == \E i \in DOMAIN v : v[i] = NaN

(* Both paths compute the operation its name says, lane by lane, NaN included:
   sums and products do not depend on the shuffles, min and max answer the
   second operand beside a NaN, select takes va where va < vb, rounding answers
   an integer within a half, whichever of two at a tie.  Of rsqrt it says only
   what the scalar path answers; PathsAgree is about the other. *)
LanesMatch ==
    result # << >> =>
        \A i \in DOMAIN result :
          LET r == result[i]
          IN  CASE op = "add" -> r = IF NaN \in {va[i], vb[i]} THEN NaN ELSE vb[i] + va[i]
                [] op = "mul" -> NaN \in {va[i], vb[i]} \/ Unit * r = vb[i] * va[i]
                [] op = "fma" -> NaN \in {va[i], vb[i], vc[i]}
                                     \/ Unit * (r - vc[i]) = va[i] * vb[i]
                [] op \in {"min", "max"} ->
                     /\ r \in {va[i], vb[i]}
                     /\ NaN \in {va[i], vb[i]} => r = vb[i]
                     /\ NaN \notin {va[i], vb[i]} =>
                          IF op = "min" THEN r <= va[i] /\ r <= vb[i]
                          ELSE r >= va[i] /\ r >= vb[i]
                [] op = "cmp_lt" -> (r # 0) = (NaN \notin {va[i], vb[i]} /\ vb[i] > va[i])
                [] op = "cmp_eq" -> (r # 0) = (va[i] = vb[i] /\ vb[i] # NaN)
                [] op = "select" -> r = IF Less(va[i], vb[i]) THEN va[i] ELSE vc[i]
                [] op = "abs" -> r \in {va[i], -va[i]} /\ r >= 0
                [] op = "dot" -> \/ AnyNaN(va \o vb) /\ r = NaN
                                 \/ Unit * r = va[1] * vb[1] + va[2] * vb[2] + va[3] * vb[3] + va[4] * vb[4]
                [] op = "hsum8" -> \/ AnyNaN(va) /\ r = NaN
                                   \/ r = va[8] + va[7] + va[6] + va[5] + va[4] + va[3] + va[2] + va[1]
                [] op = "dot3" -> \/ NaN \in {va[i], vb[i], vc[i], vb[1], vb[2], vb[3]} /\ r = NaN
                                  \/ Unit * r = va[i] * vb[1] + vb[i] * vb[2] + vc[i] * vb[3]
                [] op = "floor" -> va[i] = NaN \/ (r % Unit = 0 /\ va[i] - r \in 0 .. Unit - 1)
                [] op = "ceil" -> va[i] = NaN \/ (r % Unit = 0 /\ r - va[i] \in 0 .. Unit - 1)
                [] op = "trunc" -> va[i] = NaN \/ (r % Unit = 0 /\ Abs(r) <= Abs(va[i])
                                                       /\ Abs(va[i] - r) < Unit)
                [] op = "round" -> Near(r, va[i]) /\ (r = NaN \/ r % Unit = 0)
                [] op = "rcp" -> r * va[i] = Unit * Unit
                [] op = "rsqrt" -> path = "scalar" => r * r * va[i] = Unit * Unit * Unit

(* Cap/Math/README.md:26 gives every interface a scalar fallback to check
   against, and :103 compares the scalar and the SIMD results within an epsilon:
   the path taken answers what the fallback answers, within Epsilon / Unit. *)
Epsilon == 1
PathsAgree ==
    \A i \in DOMAIN result :
      LET fallback == Answer("scalar")[i]
      IN  result[i] = fallback \/ (NaN \notin {result[i], fallback} /\ Abs(result[i] - fallback) <= Epsilon)
=============================================================================
