------------------------------- MODULE Triad -------------------------------
(***************************************************************************)
(* triad<T> (common/point/triad.h) with integer components. A square root  *)
(* is kept as its square: distances are compared, never displayed.         *)
(***************************************************************************)
EXTENDS Integers

Triplets(S) == [x : S, y : S, z : S]
Zero == [x |-> 0, y |-> 0, z |-> 0]

Plus(a, b) == [x |-> a.x + b.x, y |-> a.y + b.y, z |-> a.z + b.z]
Minus(a, b) == [x |-> a.x - b.x, y |-> a.y - b.y, z |-> a.z - b.z]
Times(a, s) == [x |-> a.x * s, y |-> a.y * s, z |-> a.z * s]

DotProduct(a, b) == a.x * b.x + a.y * b.y + a.z * b.z
MagnitudeSq(a) == DotProduct(a, a)
RangeSq(a, b) == MagnitudeSq(Minus(a, b))

VectorProduct(a, b) ==
  [x |-> a.y * b.z - a.z * b.y, y |-> a.z * b.x - a.x * b.z, z |-> a.x * b.y - a.y * b.x]
=============================================================================
