----------------------------- MODULE VectorMath -----------------------------
(* Matrices, quaternions and intersection tests: Cap/Math/API/Types.rs, the
   geometry of Cap/Math/Impl/Windows/Ops.rs, and the matrices Sys.RHI keeps as
   sixteen numbers in a row (resource.rs, vk_model.rs).  The state is one call
   with its arguments and, after Run, its answers; numbers are integers. *)
EXTENDS Integers, Sequences

CONSTANTS
    Linear,    \* 3 x 3 matrices with determinant 1 or -1, as rows
    Offsets,   \* translations, points and directions, as triples
    Units,     \* quaternions of length one with integer parts
    BoxPairs,  \* pairs of boxes, each a pair of corners
    Extent     \* how far points and corners are from the origin on an axis

VARIABLES call, arg1, arg2, answer

mathvars == <<call, arg1, arg2, answer>>

Determinant(m) ==
    m[1][1] * m[2][2] * m[3][3] + m[1][2] * m[2][3] * m[3][1] + m[1][3] * m[2][1] * m[3][2]
      - m[1][3] * m[2][2] * m[3][1] - m[1][2] * m[2][1] * m[3][3] - m[1][1] * m[2][3] * m[3][2]
Points == [1 .. 3 -> -Extent .. Extent]
\* The extent keeps a ray's parameters below the number that stands for infinity.
MathAssumption ==
    /\ Extent \in 3 .. 1000
    /\ \A m \in Linear : m \in [1 .. 3 -> [1 .. 3 -> Int]] /\ Determinant(m) \in {1, -1}
    /\ Offsets \subseteq Points
    /\ \A q \in Units : /\ q \in [1 .. 4 -> Int]
                       /\ q[1] * q[1] + q[2] * q[2] + q[3] * q[3] + q[4] * q[4] = 1
    /\ BoxPairs \subseteq [1 .. 2 -> [1 .. 2 -> Points]]
    /\ \A p \in BoxPairs, k \in 1 .. 2, i \in 1 .. 3 : p[k][1][i] <= p[k][2][i]

None == << >>
Inf == 1000000
NaN == 2000000

At3(m, t) == [i \in 1 .. 4 |-> IF i = 4 THEN <<0, 0, 0, 1>> ELSE Append(m[i], t[i])]
Affine == {At3(m, t) : m \in Linear, t \in Offsets}
Id4 == [i \in 1 .. 4 |-> [j \in 1 .. 4 |-> IF i = j THEN 1 ELSE 0]]
Dot3(u, v) == u[1] * v[1] + u[2] * v[2] + u[3] * v[3]
Dot4(u, v) == Dot3(u, v) + u[4] * v[4]

\* Mat4::mul: rows of o weighted by the elements of a row of m.
RowMul(m, o) ==
    [i \in 1 .. 4 |-> [j \in 1 .. 4 |->
        ((m[i][1] * o[1][j] + m[i][2] * o[2][j]) + m[i][3] * o[3][j]) + m[i][4] * o[4][j]]]

Transpose(m) == [i \in 1 .. 4 |-> [j \in 1 .. 4 |-> m[j][i]]]

\* impl_mat4_mul: dot products with the rows of the transpose.
DotMul(m, o) == LET t == Transpose(o) IN [i \in 1 .. 4 |-> [j \in 1 .. 4 |-> Dot4(m[i], t[j])]]

\* cap_to_rhi_mat4 and resource::mul, over sixteen numbers.
Flat(m) == [k \in 1 .. 16 |-> m[((k - 1) \div 4) + 1][((k - 1) % 4) + 1]]
FlatMul(m, o) ==
    [k \in 1 .. 16 |->
        LET i == (k - 1) \div 4
            j == (k - 1) % 4
            a(n) == m[i * 4 + n + 1]
            b(n) == o[n * 4 + j + 1]
        IN  a(0) * b(0) + a(1) * b(1) + a(2) * b(2) + a(3) * b(3)]

TransformPoint(m, p) == [i \in 1 .. 3 |-> Dot3(p, m[i]) + m[i][4]]
FlatTransform(m, p) ==
    [i \in 1 .. 4 |-> m[4 * i - 3] * p[1] + m[4 * i - 2] * p[2] + m[4 * i - 1] * p[3] + m[4 * i]]

\* Quat::mul, a quaternion being <<x, y, z, w>>.
QuatMul(q, o) ==
    << q[4] * o[1] + q[1] * o[4] + q[2] * o[3] - q[3] * o[2],
       q[4] * o[2] - q[1] * o[3] + q[2] * o[4] + q[3] * o[1],
       q[4] * o[3] + q[1] * o[2] - q[2] * o[1] + q[3] * o[4],
       q[4] * o[4] - q[1] * o[1] - q[2] * o[2] - q[3] * o[3] >>

\* Mat4::from_trs; m01 has + wz, and the scale multiplies rows.
FromTrs(t, r, s) ==
    LET d(i, j) == 2 * r[i] * r[j]
    IN  << << (1 - (d(2, 2) + d(3, 3))) * s[1], (d(1, 2) + d(4, 3)) * s[1],
              (d(1, 3) - d(4, 2)) * s[1], t[1] >>,
           << (d(1, 2) - d(4, 3)) * s[2], (1 - (d(1, 1) + d(3, 3))) * s[2],
              (d(2, 3) + d(4, 1)) * s[2], t[2] >>,
           << (d(1, 3) + d(4, 2)) * s[3], (d(2, 3) - d(4, 1)) * s[3],
              (1 - (d(1, 1) + d(2, 2))) * s[3], t[3] >>,
           << 0, 0, 0, 1 >> >>

\* Mat4::inverse_affine: cofactors over the determinant, which is 1 or -1.
\* Mutant of Cofactor: the factors are not transposed.
CofactorPlain(m, i, j) ==
    LET n(k) == (k % 3) + 1
    IN  m[n(i)][n(j)] * m[n(n(i))][n(n(j))] - m[n(i)][n(n(j))] * m[n(n(i))][n(j)]

Cofactor(m, i, j) ==
    LET n(k) == (k % 3) + 1
    IN  m[n(j)][n(i)] * m[n(n(j))][n(n(i))] - m[n(n(j))][n(i)] * m[n(j)][n(n(i))]

InverseAffine(m) ==
    LET det == m[1][1] * Cofactor(m, 1, 1) + m[1][2] * Cofactor(m, 2, 1) + m[1][3] * Cofactor(m, 3, 1)
        inv == [i \in 1 .. 3 |-> [j \in 1 .. 3 |-> Cofactor(m, i, j) * det]]
        t == <<m[1][4], m[2][4], m[3][4]>>
    IN  At3(inv, [i \in 1 .. 3 |-> -Dot3(t, inv[i])])

Contains(b, p) == \A i \in 1 .. 3 : b[1][i] <= p[i] /\ p[i] <= b[2][i]
Intersects(b, d) == \A i \in 1 .. 3 : b[1][i] <= d[2][i] /\ b[2][i] >= d[1][i]

\* impl_frustum_aabb_overlap over planes <<n, d>>: the corner farthest against n.
Overlap(planes, b) ==
    \A i \in DOMAIN planes :
      LET n == planes[i][1]
          p == [k \in 1 .. 3 |-> IF n[k] >= 0 THEN b[1][k] ELSE b[2][k]]
      IN  Dot3(n, p) + planes[i][2] <= 0

\* impl_ray_plane_intersect, the plane's normal and the ray being along axes.
RayPlane(o, dir, n, d) ==
    LET denom == Dot3(n, dir)
        t == -((Dot3(n, o) + d) * denom)
    IN  IF denom = 0 \/ t < 0 THEN None ELSE <<t>>

\* impl_ray_aabb_intersect, for directions of -1, 0 and 1 per axis.  A zero
\* component has the inverse infinity, and zero times infinity is NaN, which
\* every comparison answers with false.
TimesInv(u, dir) == IF dir # 0 THEN u * dir
                    ELSE CASE u = 0 -> NaN [] u > 0 -> Inf [] u < 0 -> -Inf
Gt(u, v) == u # NaN /\ v # NaN /\ u > v
Slab(o, dir, b, i) ==
    << TimesInv((IF dir[i] >= 0 THEN b[1][i] ELSE b[2][i]) - o[i], dir[i]),
       TimesInv((IF dir[i] >= 0 THEN b[2][i] ELSE b[1][i]) - o[i], dir[i]) >>
Disjoint(s, r) == Gt(s[1], r[2]) \/ Gt(r[1], s[2])
Narrow(s, r) == << IF Gt(r[1], s[1]) THEN r[1] ELSE s[1], IF Gt(s[2], r[2]) THEN r[2] ELSE s[2] >>
RayBox(o, dir, b) ==
    LET x == Slab(o, dir, b, 1)
        y == Slab(o, dir, b, 2)
        z == Slab(o, dir, b, 3)
        xy == Narrow(x, y)
        xyz == Narrow(xy, z)
    IN  IF Disjoint(x, y) \/ Disjoint(xy, z) \/ Gt(0, xyz[2]) THEN None
        ELSE IF xyz[1] # NaN /\ xyz[1] >= 0 THEN <<xyz[1]>> ELSE <<xyz[2]>>

Directions == {d \in [1 .. 3 -> {-1, 0, 1}] : d # <<0, 0, 0>>}
AxisDirections == {d \in Directions : Dot3(d, d) = 1}
Boxes == {p[1] : p \in BoxPairs}

Init ==
    /\ answer = << >>
    /\ \/ call = "mul" /\ arg1 \in Affine /\ arg2 \in Affine
       \/ call = "inverse" /\ arg1 \in Affine /\ arg2 = None
       \/ call = "quat" /\ arg1 \in Units /\ arg2 \in Units
       \/ call = "trs" /\ arg1 \in Units /\ arg2 \in Offsets \X Offsets
       \/ call = "boxes" /\ \E p \in BoxPairs : arg1 = p[1] /\ arg2 = p[2]
       \/ call = "overlap" /\ arg1 \in Boxes
                           /\ arg2 \in (Offsets \X {-3, 1}) \X (Directions \X {-1})
       \/ call = "ray_plane" /\ arg1 \in Offsets \X AxisDirections
                             /\ arg2 \in AxisDirections \X {-2, 0, 3}
       \/ call = "ray_box" /\ arg1 \in Offsets \X Directions /\ arg2 \in Boxes

Run ==
    /\ answer = << >>
    /\ answer' = <<
         CASE call = "mul" -> << RowMul(arg1, arg2), DotMul(arg1, arg2),
                                 FlatMul(Flat(arg1), Flat(arg2)) >>
           [] call = "inverse" -> InverseAffine(arg1)
           [] call = "quat" -> QuatMul(arg1, arg2)
           [] call = "trs" -> FromTrs(arg2[1], arg1, arg2[2])
           [] call = "boxes" -> Intersects(arg1, arg2)
           [] call = "overlap" -> Overlap(arg2, arg1)
           [] call = "ray_plane" -> RayPlane(arg1[1], arg1[2], arg2[1], arg2[2])
           [] call = "ray_box" -> RayBox(arg1[1], arg1[2], arg2) >>
    /\ UNCHANGED <<call, arg1, arg2>>

Next == Run

Spec == Init /\ [][Next]_mathvars

\* The turn a unit quaternion stands for: the vector part of q p q*.
Conj(q) == <<-q[1], -q[2], -q[3], q[4]>>
Turn(q, p) == SubSeq(QuatMul(QuatMul(q, Append(p, 0)), Conj(q)), 1, 3)
Alike(s) == s[1] = s[2] /\ s[2] = s[3]
On(o, dir, t) == [i \in 1 .. 3 |-> o[i] + t * dir[i]]
Reach == -(2 * Extent) .. 2 * Extent  \* the ray's parameters that meet a box
Hits(o, dir, b) == {t \in Reach : Contains(b, On(o, dir, t))}
Corners(b) == {[i \in 1 .. 3 |-> b[c[i]][i]] : c \in [1 .. 3 -> {1, 2}]}
Grazes(o, dir, b) == \E i \in 1 .. 3 : dir[i] = 0 /\ o[i] \in {b[1][i], b[2][i]}

(* The three products are one and compose as maps of points, in both forms of
   transform_point; inverse_affine inverts; the product of quaternions turns by
   the second, then the first; from_trs with a scale alike on all axes moves the
   origin to t and stretches distances from it by the scale, whichever way it
   turns.  Boxes intersect when a point is in both; an overlap is refused when a
   plane has the whole box in front; a ray meets a plane at the point answered,
   and a box at its first point or, from inside, its last one, unless it runs
   within a face's plane. *)
GeometrySound ==
    answer # << >> =>
    LET got == answer[1]
    IN  CASE call = "mul" ->
             /\ got[1] = got[2] /\ Flat(got[1]) = got[3]
             /\ \A p \in Offsets :
                  /\ TransformPoint(got[1], p) = TransformPoint(arg1, TransformPoint(arg2, p))
                  /\ FlatTransform(got[3], p) = Append(TransformPoint(got[1], p), 1)
        [] call = "inverse" -> RowMul(arg1, got) = Id4 /\ RowMul(got, arg1) = Id4
        [] call = "quat" -> \A p \in Offsets : Turn(got, p) = Turn(arg1, Turn(arg2, p))
        [] call = "trs" -> Alike(arg2[2]) => \A p \in Offsets :
             LET to == TransformPoint(got, p)
                 u == [i \in 1 .. 3 |-> to[i] - arg2[1][i]]
             IN  Dot3(u, u) = arg2[2][1] * arg2[2][1] * Dot3(p, p)
        [] call = "boxes" -> got <=> \E p \in Points : Contains(arg1, p) /\ Contains(arg2, p)
        [] call = "overlap" -> got <=> ~\E i \in DOMAIN arg2 : \A p \in Corners(arg1) :
                                            Dot3(arg2[i][1], p) + arg2[i][2] > 0
        [] call = "ray_plane" ->
             LET meets == {t \in Reach : Dot3(arg2[1], On(arg1[1], arg1[2], t)) + arg2[2] = 0}
             IN  IF meets = Reach \/ meets \intersect Nat = {} THEN got = None
                 ELSE got[1] \in meets
        [] call = "ray_box" ->
             LET hits == Hits(arg1[1], arg1[2], arg2)
                 lo == CHOOSE t \in hits : \A u \in hits : t <= u
                 hi == CHOOSE t \in hits : \A u \in hits : u <= t
             IN  \/ Grazes(arg1[1], arg1[2], arg2)
                 \/ got = IF hits \intersect Nat = {} THEN None
                          ELSE <<IF lo >= 0 THEN lo ELSE hi>>
=============================================================================
