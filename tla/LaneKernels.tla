---------------------------- MODULE LaneKernels ----------------------------
(* The column kernels of cap_math (Impl/Windows/Ops.rs).  A kernel sweeps
   structure-of-arrays columns from index 0 with packets of eight lanes, then
   of four, then one element at a time; the unchecked kernels have no scalar
   tail.  The three input lengths may differ: a kernel works on the shortest.
   The columns hold integers, distinct for every axis and index, so that an
   element computed from a wrong index or axis shows; the fourth axis of the
   Vec4 columns is treated like the other three. *)
EXTENDS Integers, Sequences, FiniteSets

CONSTANTS
    Lens,          \* lengths a column may have
    LaneKernelSet  \* names of the kernels that are run

VARIABLES kernel, lenA, lenB, out, at, returned

lkvars == <<kernel, lenA, lenB, out, at, returned>>

Axes == {"x", "y", "z"}
Untouched == "untouched"

KernelsAssumption == Lens \subseteq Nat

OneColumn == {"lwc", "lwc_view", "sin_view", "cos_view", "tan_view", "exp_view"}

\* The contents of the two input columns, the camera and the time step.
A(c, j) == 10 * j + (CASE c = "x" -> 1 [] c = "y" -> 2 [] c = "z" -> 3)
B(c, j) == 7 * j + (CASE c = "x" -> 5 [] c = "y" -> 3 [] c = "z" -> 4)
Cam(c) == CASE c = "x" -> 2 [] c = "y" -> 9 [] c = "z" -> 4
Dt == 3

Shortest == CHOOSE n \in {lenA, lenB, Len(out)} :
                \A m \in {lenA, lenB, Len(out)} : n <= m

Sum3(f) == f["x"] + f["y"] + f["z"]
AddElem(j) == [c \in Axes |-> A(c, j) + B(c, j)]
DotElem(j) == Sum3([c \in Axes |-> A(c, j) * B(c, j)])
FmaElem(j) == [c \in Axes |-> A(c, j) + B(c, j) * Dt]
LwcElem(j) == [c \in Axes |-> A(c, j) - Cam(c)]

\* sincos_scalar_precise: the angle, in sixteenths of a turn, is reduced to
\* r in -2 .. 2 about the nearest quarter k; the polynomials are exact there,
\* and k & 3 chooses.  A sine is named by its rank among the nine values.
Angle(j) == 5 * j - 30
SineTable == <<0, 1, 2, 3, 4, 3, 2, 1, 0, -1, -2, -3, -4, -3, -2, -1>>
Sine(x) == SineTable[(x % 16) + 1]
Quarter(x) == IF x >= 0 THEN (x + 2) \div 4 ELSE -((2 - x) \div 4)
SinCos(x) ==
    LET k == Quarter(x)
        s == Sine(x - 4 * k)
        c == Sine(x - 4 * k + 4)
    IN  CASE k % 4 = 0 -> <<s, c>> [] k % 4 = 1 -> <<c, -s>>
          [] k % 4 = 2 -> <<-s, -c>> [] OTHER -> <<-c, s>>
SinElem(j) == SinCos(Angle(j))[1]
CosElem(j) == SinCos(Angle(j))[2]
ExpElem(j) == <<"f", Angle(j)>>

Init ==
    /\ kernel \in LaneKernelSet
    /\ lenA \in Lens /\ lenB \in Lens
    /\ \E n \in Lens : out = [j \in 1 .. n |-> Untouched]
    /\ kernel \in OneColumn => lenB = lenA
    /\ kernel = "lwc" => Len(out) = lenA  \* it allocates its result
    /\ at = 0
    /\ returned = -1

\* Mutant of Fits: a packet that ends exactly at n is not taken.
FitsStrict(widths) == {w \in widths : at + w < Shortest}

\* The packet widths that still fit below n.
Fits(widths) == {w \in widths : at + w <= Shortest}

\* One packet of the widest kind that still fits below n; n is returned when
\* none fits.  The loops run widest first, and a width that no longer fits
\* never fits again.
Sweep(widths, Elem(_)) ==
    /\ returned = -1
    /\ IF Fits(widths) = {}
       THEN returned' = Shortest /\ UNCHANGED <<at, out>>
       ELSE LET w == CHOOSE v \in Fits(widths) : \A u \in Fits(widths) : u <= v
            IN  /\ at' = at + w
                /\ out' = [j \in 1 .. Len(out) |->
                             IF j - 1 \in at .. at + w - 1 THEN Elem(j - 1) ELSE out[j]]
                /\ UNCHANGED returned
    /\ UNCHANGED <<kernel, lenA, lenB>>

AddBatch         == kernel = "add_batch"         /\ Sweep({1}, AddElem)
AddSoA           == kernel = "add_soa"           /\ Sweep({8, 4, 1}, AddElem)
DotSoA           == kernel = "dot_soa"           /\ Sweep({8, 4, 1}, DotElem)
AddSoAUnchecked  == kernel = "add_soa_unchecked" /\ Sweep({8, 4}, AddElem)
DotSoAUnchecked  == kernel = "dot_soa_unchecked" /\ Sweep({4}, DotElem)
SubAndCast       == kernel = "lwc"               /\ Sweep({1}, LwcElem)
SubAndCastView   == kernel = "lwc_view"          /\ Sweep({8, 1}, LwcElem)
AddView          == kernel = "add_view"          /\ Sweep({4, 1}, AddElem)
FmaView          == kernel = "fma_view"          /\ Sweep({8, 4, 1}, FmaElem)
FmaViewUnchecked == kernel = "fma_unchecked"     /\ Sweep({8, 4}, FmaElem)
SinView          == kernel = "sin_view"          /\ Sweep({1}, SinElem)
CosView          == kernel = "cos_view"          /\ Sweep({1}, CosElem)
TanView          == kernel = "tan_view"          /\ Sweep({1}, LAMBDA j : SinCos(Angle(j)))
ExpView          == kernel = "exp_view"          /\ Sweep({1}, ExpElem)

\* The kernels of the other systems' backend (Impl/Generic/Ops.rs).
GenericAddSoA == kernel = "generic_add_soa" /\ Sweep({4, 1}, AddElem)
GenericDotSoA == kernel = "generic_dot_soa" /\ Sweep({4, 1}, DotElem)
GenericView   == kernel = "generic_fma_view" /\ Sweep({1}, FmaElem)

Next ==
    \/ AddBatch \/ AddSoA \/ DotSoA \/ AddSoAUnchecked \/ DotSoAUnchecked
    \/ SubAndCast \/ SubAndCastView \/ AddView \/ FmaView \/ FmaViewUnchecked
    \/ SinView \/ CosView \/ TanView \/ ExpView
    \/ GenericAddSoA \/ GenericDotSoA \/ GenericView

Spec == Init /\ [][Next]_lkvars

Unchecked == {"add_soa_unchecked", "dot_soa_unchecked", "fma_unchecked"}
Expected(j) ==
    CASE kernel \in {"dot_soa", "dot_soa_unchecked", "generic_dot_soa"} ->
            A("x", j) * B("x", j) + A("y", j) * B("y", j) + A("z", j) * B("z", j)
      [] kernel \in {"fma_view", "fma_unchecked", "generic_fma_view"} ->
            [c \in Axes |-> A(c, j) + Dt * B(c, j)]
      [] kernel \in {"lwc", "lwc_view"} -> [c \in Axes |-> A(c, j) - Cam(c)]
      [] kernel = "sin_view" -> Sine(Angle(j))
      [] kernel = "cos_view" -> Sine(Angle(j) + 4)
      [] kernel = "tan_view" -> <<Sine(Angle(j)), Sine(Angle(j) + 4)>>
      [] kernel = "exp_view" -> <<"f", Angle(j)>>
      [] OTHER -> [c \in Axes |-> B(c, j) + A(c, j)]

(* When a kernel returns n, exactly the elements below n of the output hold
   their values and none beyond is touched; an unchecked kernel has filled
   whole packets of four only, although it returns n too. *)
ColumnsFilled ==
    returned # -1 =>
        LET filled == IF kernel \in Unchecked THEN 4 * (returned \div 4) ELSE returned
        IN  /\ returned = Shortest
            /\ \A j \in 1 .. Len(out) :
                 out[j] = IF j <= filled THEN Expected(j - 1) ELSE Untouched
=============================================================================
