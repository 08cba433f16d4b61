---------------------------- MODULE MCBaseObject ----------------------------
(* An object with two rockets, the other effectors once each, on the ground  *)
(* or above it, and neighbours that come head on or pass by.                 *)
EXTENDS BaseObject

Vector(a, b, c) == [x |-> a, y |-> b, z |-> c]
MCEffectors == 1..6
MCKind == <<"radar", "gravity", "rocket", "drive", "rocket", "drag">>
MCCompass == [a \in 0..7 |-> CASE a \div 2 = 0 -> Vector(1, 0, 0) [] a \div 2 = 1 -> Vector(0, 1, 0)
                              [] a \div 2 = 2 -> Vector(-1, 0, 0) [] OTHER -> Vector(0, -1, 0)]
MCPlaces == {Vector(3, 0, 0), Vector(4, 0, -3)}
MCCourses == {Vector(-4, 0, 0), Vector(-1, -1, 0), Vector(1, 2, -3)}
MCTurnRates == {3}
MCPowers == {-1, 2}
MCSkids == {-1, 2}
=============================================================================
