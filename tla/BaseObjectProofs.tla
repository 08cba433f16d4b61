-------------------------- MODULE BaseObjectProofs --------------------------
(* What holds of an object's turns for every set of effectors, and of        *)
(* check_collision() for every position, course and radius.                  *)
EXTENDS BaseObject, FiniteSetTheorems, TLAPS

-----------------------------------------------------------------------------
(* Triplets *)

LEMMA TripletType ==
  ASSUME NEW a \in Triplets(Int), NEW b \in Triplets(Int)
  PROVE  /\ Plus(a, b) \in Triplets(Int) /\ Minus(a, b) \in Triplets(Int)
         /\ \A s \in Int : Times(a, s) \in Triplets(Int)
         /\ DotProduct(a, b) \in Int /\ MagnitudeSq(a) \in Int
  BY DEF Plus, Minus, Times, DotProduct, MagnitudeSq, Triplets

\* The components of a triplet are numbers.
LEMMA Components ==
  ASSUME NEW a \in Triplets(Int)
  PROVE  a.x \in Int /\ a.y \in Int /\ a.z \in Int
  BY DEF Triplets

\* vector_product() stands on both factors.
LEMMA VectorProductOrthogonal ==
  ASSUME NEW a \in Triplets(Int), NEW b \in Triplets(Int)
  PROVE  DotProduct(a, VectorProduct(a, b)) = 0 /\ DotProduct(b, VectorProduct(a, b)) = 0
<1>1. \A p, q, r, u, v, w \in Int :
         /\ p * (q * w - r * v) + q * (r * u - p * w) + r * (p * v - q * u) = 0
         /\ u * (q * w - r * v) + v * (r * u - p * w) + w * (p * v - q * u) = 0
  BY Z3
<1> QED
  BY <1>1, Components DEF DotProduct, VectorProduct

-----------------------------------------------------------------------------
(* check_collision() *)

\* The convex quadratic behind check_collision(): when none of the reasons to
\* answer TRUE holds, it has no negative value anywhere in the quanta.
LEMMA QuadraticStaysPositive ==
  ASSUME NEW pp \in Int, NEW pv \in Int, NEW vv \in Nat,
         pp > 0,
         pv >= 0 \/ (pv + vv <= 0 /\ vv + 2 * pv + pp >= 0),
         NEW d \in Nat \ {0}, NEW n \in 0..d
  PROVE  pp * d * d + 2 * pv * n * d + vv * n * n >= 0
<1>1. CASE pv >= 0
  <2>1. pp * d * d >= 0 /\ pv * n * d >= 0 /\ vv * n * n >= 0
    BY <1>1, Z3
  <2> QED
    BY <2>1, Z3
<1>2. CASE pv + vv <= 0 /\ vv + 2 * pv + pp >= 0
  \* The value at n/d is the value at 1 and what is left of the way, falling.
  <2>1. pp * d * d + 2 * pv * n * d + vv * n * n
          = (vv + 2 * pv + pp) * d * d + (d - n) * (-(2 * pv * d) - vv * (d + n))
    BY Z3
  <2>2. -(2 * pv * d) - vv * (d + n) >= 0
    <3>1. -pv * d >= vv * d
      BY <1>2, Z3
    <3>2. vv * (d + n) <= vv * (2 * d)
      BY Z3
    <3> QED
      BY <3>1, <3>2, Z3
  <2>3. (vv + 2 * pv + pp) * d * d >= 0
    BY <1>2, Z3
  <2>4. (d - n) * (-(2 * pv * d) - vv * (d + n)) >= 0
    BY <2>2, Z3
  <2> QED
    BY <2>1, <2>3, <2>4, Z3
<1> QED
  BY <1>1, <1>2

-----------------------------------------------------------------------------
(* The lists *)

ListInv ==
  /\ pre \subseteq Effectors /\ post \subseteq Effectors
  /\ CommandsReachTheAttached

\* The lists are subsets of the effectors for good.
LEMMA ListStep == ASSUME ListInv, [Next]_vars PROVE ListInv'
<1> USE DEF ListInv, CommandsReachTheAttached
<1>1. CASE \E e \in Effectors : AddPre(e) \/ AddPost(e)
  BY <1>1, Zenon DEF AddPre, AddPost
<1>2. CASE Tick
  BY <1>2 DEF Tick, DropPending
<1>3. CASE UNCHANGED lists
  BY <1>3 DEF lists
<1> QED
  BY <1>1, <1>2, <1>3 DEF Next, Command, Check, Apply, vars

\* Effectors come into and leave the list the router commands together with
\* the lists that are ticked, drops from inside a turn included
\* (base_object.cpp:165-177).
THEOREM CommandList == Spec => []CommandsReachTheAttached
<1>1. Init => ListInv
  BY DEF Init, ListInv, CommandsReachTheAttached
<1>2. ListInv /\ [Next]_vars => ListInv'
  BY ListStep
<1>3. ListInv => CommandsReachTheAttached
  BY DEF ListInv
<1> QED
  BY <1>1, <1>2, <1>3, PTL DEF Spec

-----------------------------------------------------------------------------
(* The cache of a rotatable *)

\* An attitude has three fields and nothing else, and its cache is fresh.
CacheInv ==
  /\ att = [axis |-> att.axis, dirty |-> att.dirty, cached |-> att.cached]
  /\ CacheFresh

\* What is computed again is right.
LEMMA RecalcIsFresh ==
  ASSUME NEW a, NEW d, NEW c
  PROVE  LET r == Recalc([axis |-> a, dirty |-> d, cached |-> c])
         IN /\ r = [axis |-> r.axis, dirty |-> r.dirty, cached |-> r.cached]
            /\ (d \/ c = a) => r.cached = r.axis
<1>1. CASE d
  BY <1>1 DEF Recalc
<1>2. CASE ~d
  BY <1>2 DEF Recalc
<1> QED
  BY <1>1, <1>2

\* The drive never steers by the sine of a heading its object has left
\* (base_object.cpp:55-104).
THEOREM HeadingCache == Spec => []CacheFresh
<1>1. Init => CacheInv
  BY DEF Init, CacheInv, CacheFresh
<1>2. CacheInv /\ [Next]_vars => CacheInv'
  <2> SUFFICES ASSUME CacheInv, [Next]_vars PROVE CacheInv'
    OBVIOUS
  <2> USE DEF CacheInv, CacheFresh
  <2>1. CASE UNCHANGED att
    BY <2>1
  <2>2. CASE att' = Recalc(att)
    <3> DEFINE r == Recalc([axis |-> att.axis, dirty |-> att.dirty, cached |-> att.cached])
    <3>1. att.dirty \/ att.cached = att.axis
      OBVIOUS
    <3>2. att' = r
      BY <2>2, Zenon
    <3>3. r = [axis |-> r.axis, dirty |-> r.dirty, cached |-> r.cached] /\ r.cached = r.axis
      BY <3>1, RecalcIsFresh, Zenon
    <3> HIDE DEF r
    <3> QED
      BY <3>2, <3>3, Zenon
  <2>3. CASE att' = Turned(att, spin)
    <3>1. att' = [axis |-> Trim(att.axis + spin), dirty |-> TRUE, cached |-> att.cached]
      BY <2>3 DEF Turned
    <3> QED
      BY <3>1
  <2>4. UNCHANGED att \/ att' = Recalc(att) \/ att' = Turned(att, spin)
    BY Zenon DEF Next, AddPre, AddPost, Command, Tick, Check, Apply, vars, motion
  <2> QED
    BY <2>1, <2>2, <2>3, <2>4
<1>3. CacheInv => CacheFresh
  BY DEF CacheInv
<1> QED
  BY <1>1, <1>2, <1>3, PTL DEF Spec

-----------------------------------------------------------------------------
(* Motion *)

SteerTypes ==
  /\ set \in [Effectors -> [turn : Int, power : Int, brake : Nat]]
  /\ rot \in Int /\ spin \in Int
  /\ att \in [axis : Int, dirty : BOOLEAN, cached : Int]

MotionTypes == {push, loc, vel, other, course} \subseteq Triplets(Int) /\ SteerTypes

\* Every angle has a sine and a cosine.
LEMMA HeadingType ==
  ASSUME NEW a \in Int
  PROVE  Heading(a) \in [x : Int, y : Int, z : {0}]
<1>1. a % Period \in 0..Period-1
  BY ObjectAssumption DEF ObjectAssumption
<1> QED
  BY <1>1, ObjectAssumption DEF ObjectAssumption, Heading

\* Commands keep the settings numbers, and the brake at or above 0.
LEMMA CommandedType ==
  ASSUME NEW s \in [turn : Int, power : Int, brake : Nat]
  PROVE  Commanded(s) \subseteq [turn : Int, power : Int, brake : Nat]
<1> DEFINE Settings == [turn : Int, power : Int, brake : Nat]
<1> SUFFICES ASSUME NEW c \in Commanded(s) PROVE c \in Settings
  OBVIOUS
<1>1. ASSUME NEW t \in TurnRates, c = [s EXCEPT !.turn = t] PROVE c \in Settings
  BY <1>1, ObjectAssumption DEF ObjectAssumption
<1>2. ASSUME NEW p \in Powers, c = [s EXCEPT !.power = p, !.brake = IF p = 0 THEN @ ELSE 0]
      PROVE  c \in Settings
  BY <1>2, ObjectAssumption DEF ObjectAssumption
<1>3. ASSUME NEW b \in Brakes, c = [s EXCEPT !.brake = b, !.power = IF b = 0 THEN @ ELSE 0]
      PROVE  c \in Settings
  <2>1. b \in Nat /\ s.power \in Int
    BY <1>3, ObjectAssumption DEF ObjectAssumption
  <2>2. c = [s EXCEPT !.brake = b, !.power = IF b = 0 THEN s.power ELSE 0]
    BY <1>3
  <2>3. s.turn \in Int /\ s = [turn |-> s.turn, power |-> s.power, brake |-> s.brake]
    OBVIOUS
  <2>4. c = [turn |-> s.turn, power |-> IF b = 0 THEN s.power ELSE 0, brake |-> b]
    BY <2>2, <2>3
  <2> QED
    BY <2>1, <2>3, <2>4
<1>4. CASE c = Locked
  BY <1>4, ObjectAssumption DEF ObjectAssumption, Locked
<1> HIDE DEF Settings
<1>5. \/ \E t \in TurnRates : c = [s EXCEPT !.turn = t]
      \/ \E p \in Powers : c = [s EXCEPT !.power = p, !.brake = IF p = 0 THEN @ ELSE 0]
      \/ \E b \in Brakes : c = [s EXCEPT !.brake = b, !.power = IF b = 0 THEN @ ELSE 0]
      \/ c = Locked
  BY DEF Commanded
<1> QED
  BY <1>1, <1>2, <1>3, <1>4, <1>5

\* Steering keeps its types.
LEMMA SteerStep ==
  ASSUME SteerTypes, ListInv, [Next]_vars
  PROVE  SteerTypes'
<1> USE DEF SteerTypes
<1>1. CASE Command
  <2>1. UNCHANGED <<rot, spin, att>>
    BY <1>1 DEF Command, motion
  <2>2. PICK e \in Of("drive", cmd) : \E s \in Commanded(set[e]) : set' = [set EXCEPT ![e] = s]
    BY <1>1 DEF Command
  <2>3. CASE e \in Effectors
    <3>1. Commanded(set[e]) \subseteq [turn : Int, power : Int, brake : Nat]
      BY <2>3, CommandedType
    <3> QED
      BY <2>1, <2>2, <2>3, <3>1
  <2>4. CASE e \notin Effectors
    BY <2>1, <2>2, <2>4
  <2> QED
    BY <2>3, <2>4
<1>2. CASE Tick
  <2>1. UNCHANGED set /\ rot' = Rotation(pre') /\ spin' = rot' + rot'
    BY <1>2 DEF Tick
  <2>2. pre' \in SUBSET Effectors
    BY <1>2 DEF Tick, DropPending, ListInv
  <2>3. rot' \in Int
    <3>1. CASE Wheels(pre') = {}
      BY <2>1, <3>1 DEF Rotation
    <3>2. CASE Wheels(pre') # {}
      <4>1. PICK e \in Effectors : Setting(pre') = set[e]
        BY <2>2, <3>2 DEF Setting, Wheels, Of
      <4> QED
        BY <2>1, <3>2, <4>1 DEF Rotation
    <3> QED
      BY <3>1, <3>2
  <2>4. att' \in [axis : Int, dirty : BOOLEAN, cached : Int]
    BY <1>2 DEF Tick, Recalc
  <2> QED
    BY <2>1, <2>3, <2>4
<1>3. CASE Apply
  <2>1. UNCHANGED <<set, rot, spin>> /\ att' = Turned(att, spin)
    BY <1>3 DEF Apply
  <2>2. \A a \in Int : Trim(a) \in Int
    BY ObjectAssumption DEF ObjectAssumption, Trim
  <2>3. att' \in [axis : Int, dirty : BOOLEAN, cached : Int]
    BY <2>1, <2>2 DEF Turned
  <2> QED
    BY <2>1, <2>3
<1>4. CASE UNCHANGED <<set, rot, spin, att>>
  BY <1>4
<1>5. Command \/ Tick \/ Apply \/ UNCHANGED <<set, rot, spin, att>>
  BY DEF Next, AddPre, AddPost, Check, vars, motion
<1> QED
  BY <1>1, <1>2, <1>3, <1>4, <1>5

\* The drive's force is a multiple of the heading.
LEMMA ThrustType ==
  ASSUME MotionTypes, NEW list \in SUBSET Effectors
  PROVE  Thrust(list) \in Triplets(Int)
<1>1. CASE Wheels(list) = {}
  BY <1>1 DEF Thrust, Zero, Triplets
<1>2. CASE Wheels(list) # {}
  <2>1. PICK e \in Effectors : Setting(list) = set[e]
    BY <1>2 DEF Setting, Wheels, Of
  <2>2. Setting(list) \in [turn : Int, power : Int, brake : Nat]
    BY <2>1 DEF MotionTypes, SteerTypes
  <2>3. Braking(Setting(list)) \in Int
    <3>1. [vel EXCEPT !.z = 0] \in Triplets(Int)
      BY DEF MotionTypes, Triplets
    <3>2. MagnitudeSq([vel EXCEPT !.z = 0]) \in Int
      BY <3>1, TripletType
    <3> QED
      BY <2>2, <3>2 DEF Braking
  <2>4. Recalc(att).cached \in Int
    BY DEF MotionTypes, SteerTypes, Recalc
  <2>5. Heading(Recalc(att).cached) \in Triplets(Int)
    BY <2>4, HeadingType DEF Triplets
  <2>6. Setting(list).power - Braking(Setting(list)) \in Int
    BY <2>2, <2>3
  <2> QED
    BY <1>2, <2>5, <2>6, TripletType DEF Thrust
<1> QED
  BY <1>1, <1>2

LEMMA PushesType ==
  ASSUME MotionTypes, NEW list \in SUBSET Effectors
  PROVE  Pushes(list) \in Triplets(Int)
<1>1. IsFiniteSet(Of("gravity", list)) /\ IsFiniteSet(Burning(list))
  BY FS_Subset, ObjectAssumption DEF ObjectAssumption, Of, Burning
<1>2. Cardinality(Of("gravity", list)) \in Int /\ Cardinality(Burning(list)) \in Int
  BY <1>1, FS_CardinalityType
<1>3. Gravity \in Triplets(Int) /\ Impulse \in Triplets(Int)
  BY DEF Gravity, Impulse, Triplets
<1> QED
  BY <1>2, <1>3, ThrustType, TripletType DEF Pushes

LEMMA MotionStep ==
  ASSUME MotionTypes, ListInv, [Next]_vars
  PROVE  MotionTypes'
<1> USE DEF MotionTypes
<1>1. CASE Tick
  <2>1. pre' \in SUBSET Effectors
    BY <1>1 DEF Tick, DropPending, ListInv
  <2>2. push' \in Triplets(Int)
    BY <1>1, <2>1, PushesType DEF Tick, Push
  <2>3. vel' \in Triplets(Int)
    BY <1>1, <2>2, TripletType DEF Tick
  <2> QED
    BY <1>1, <2>2, <2>3, SteerStep DEF Tick
<1>2. CASE Apply
  <2>1. loc' \in Triplets(Int) /\ other' \in Triplets(Int)
    BY <1>2, TripletType DEF Apply
  <2>2. vel' \in Triplets(Int)
    <3>1. CASE vel' = vel
      BY <3>1
    <3>2. CASE vel' \in Dragged(vel, att'.axis)
      <4>1. att'.axis \in Int
        BY SteerStep DEF SteerTypes
      <4>2. Heading(att'.axis) \in Triplets(Int)
        BY <4>1, HeadingType DEF Triplets
      <4>3. \A s \in Skids : Times(Heading(att'.axis), s) \in Triplets(Int)
        BY <4>2, TripletType, ObjectAssumption DEF ObjectAssumption
      <4>4. \A w \in Triplets(Int) : [w EXCEPT !.z = vel.z] \in Triplets(Int)
        BY DEF Triplets
      <4> QED
        BY <3>2, <4>3, <4>4 DEF Dragged
    <3> QED
      BY <1>2, <3>1, <3>2 DEF Apply
  <2> QED
    BY <1>2, <2>1, <2>2, SteerStep DEF Apply
<1>3. CASE UNCHANGED <<push, loc, vel, other, course>>
  BY <1>3, SteerStep
<1>4. Tick \/ Apply \/ UNCHANGED <<push, loc, vel, other, course>>
  BY DEF Next, AddPre, AddPost, Command, Check, vars, motion
<1> QED
  BY <1>1, <1>2, <1>3, <1>4

LEMMA MotionInit == ASSUME Init PROVE MotionTypes /\ ListInv
<1>1. Zero \in Triplets(Int)
  BY DEF Zero, Triplets
<1>2. MotionTypes
  <2>1. SteerTypes
    <3>1. Locked \in [turn : Int, power : Int, brake : Nat]
      BY ObjectAssumption DEF ObjectAssumption, Locked
    <3> QED
      BY <3>1 DEF Init, SteerTypes
  <2>2. loc \in Triplets(Int)
    BY ObjectAssumption DEF Init, ObjectAssumption, Zero, Triplets
  <2> QED
    BY <1>1, <2>1, <2>2, ObjectAssumption DEF Init, MotionTypes, ObjectAssumption
<1> QED
  BY <1>2 DEF Init, ListInv, CommandsReachTheAttached

\* The coefficients of check_collision() are numbers, and vv is a square.
LEMMA Coefficients ==
  ASSUME MotionTypes
  PROVE  PP \in Int /\ PV \in Int /\ VV \in Nat
<1>1. \A a, b \in Triplets(Int) : RangeSq(a, b) \in Int /\ DotProduct(a, b) \in Int
                                  /\ Minus(a, b) \in Triplets(Int)
  BY TripletType DEF RangeSq
<1>2. \A a \in Triplets(Int) : MagnitudeSq(a) \in Nat
  <2>1. \A x, y, z \in Int : x * x + y * y + z * z \in Nat
    BY Z3
  <2> QED
    BY <2>1, Components DEF MagnitudeSq, DotProduct
<1>3. VV \in Nat
  BY <1>1, <1>2 DEF VV, RangeSq, MotionTypes
<1>4. Reach * Reach \in Int
  BY ObjectAssumption DEF ObjectAssumption
<1> QED
  BY <1>1, <1>3, <1>4 DEF PP, PV, MotionTypes

\* What check_collision() clears has no contact at any fraction of the quanta.
LEMMA ClearIsClear ==
  ASSUME MotionTypes, ~Collides, NEW d \in Nat \ {0}, NEW n \in 0..d
  PROVE  PP * d * d + 2 * PV * n * d + VV * n * n >= 0
<1> DEFINE pp == PP
           pv == PV
           vv == VV
<1>1. pp \in Int /\ pv \in Int /\ vv \in Nat
  BY Coefficients
<1>2. /\ ~(pp <= 0)
      /\ pv >= 0 \/ (pv + vv <= 0 /\ vv + 2 * pv + pp >= 0) \/ pp * vv + pv * pv <= 0
  BY <1>1 DEF Collides
<1> HIDE DEF pp, pv, vv
<1>3. pv < 0 => pp * vv + pv * pv > 0
  <2>1. pp * vv >= 0
    BY <1>1, <1>2, Z3
  <2>2. pv < 0 => pv * pv > 0
    BY <1>1, Z3
  <2>3. pp * vv \in Int /\ pv * pv \in Int
    BY <1>1
  <2> QED
    BY <2>1, <2>2, <2>3, <1>1
<1>4. pv >= 0 \/ (pv + vv <= 0 /\ vv + 2 * pv + pp >= 0)
  <2>1. pp * vv \in Int /\ pv * pv \in Int
    BY <1>1
  <2> QED
    BY <1>1, <1>2, <1>3, <2>1
<1>5. pp > 0
  BY <1>1, <1>2
<1>6. pp * d * d + 2 * pv * n * d + vv * n * n >= 0
  BY <1>1, <1>4, <1>5, QuadraticStaysPositive
<1> QED
  BY <1>6 DEF pp, pv, vv

\* No contact inside the quanta is missed, whatever the positions, the courses
\* and the radii (base_object.cpp:221-252).
THEOREM ContactsAreSeen == Spec => []NoMissedContact
<1> DEFINE ContactInv == MotionTypes /\ ListInv /\ NoMissedContact
<1>1. Init => ContactInv
  BY MotionInit DEF Init, NoMissedContact
<1>2. ContactInv /\ [Next]_vars => ContactInv'
  <2> SUFFICES ASSUME ContactInv, [Next]_vars PROVE ContactInv'
    OBVIOUS
  <2>1. MotionTypes' /\ ListInv'
    BY MotionStep, ListStep
  <2>2. NoMissedContact'
    <3>1. CASE Check
      <4>1. UNCHANGED <<loc, vel, other, course>> /\ hit' = Collides
        BY <3>1 DEF Check, motion
      <4>2. PP' = PP /\ PV' = PV /\ VV' = VV
        BY <4>1 DEF PP, PV, VV
      <4>3. ASSUME ~hit', NEW d \in 1..Steps, NEW n \in 0..d
            PROVE  PP * d * d + 2 * PV * n * d + VV * n * n >= 0
        <5>1. d \in Nat \ {0} /\ ~Collides
          BY <4>1, <4>3, ObjectAssumption DEF ObjectAssumption
        <5> QED
          BY <5>1, ClearIsClear
      <4> QED
        BY <4>2, <4>3 DEF NoMissedContact
    <3>2. CASE phase' # "checked"
      BY <3>2 DEF NoMissedContact
    <3>3. CASE UNCHANGED <<phase, loc, vel, other, course, hit>>
      <4>1. PP' = PP /\ PV' = PV /\ VV' = VV
        BY <3>3 DEF PP, PV, VV
      <4> QED
        BY <3>3, <4>1 DEF NoMissedContact
    <3> QED
      BY <3>1, <3>2, <3>3 DEF Next, AddPre, AddPost, Command, Tick, Apply, vars, motion
  <2> QED
    BY <2>1, <2>2
<1>3. ContactInv => NoMissedContact
  OBVIOUS
<1> QED
  BY <1>1, <1>2, <1>3, PTL DEF Spec

-----------------------------------------------------------------------------
(* Standing *)

\* A brake does nothing to what stands, and power backwards is all taken for the brake.
LEMMA NoThrustOnStanding ==
  ASSUME MotionTypes, Standing(vel), NEW list \in SUBSET Effectors,
         \A e \in Of("drive", list) : set[e].power <= 0
  PROVE  Thrust(list).x = 0 /\ Thrust(list).y = 0
<1>1. CASE Wheels(list) = {}
  BY <1>1 DEF Thrust, Zero
<1>2. CASE Wheels(list) # {}
  <2>1. PICK e \in Of("drive", list) : Setting(list) = set[e]
    BY <1>2 DEF Setting, Wheels
  <2>2. e \in Effectors
    BY <2>1 DEF Of
  <2>3. /\ Setting(list) \in [turn : Int, power : Int, brake : Nat]
        /\ Setting(list).power <= 0
    BY <2>1, <2>2 DEF MotionTypes, SteerTypes
  <2>4. MagnitudeSq([vel EXCEPT !.z = 0]) = 0
    BY DEF MotionTypes, Triplets, Standing, MagnitudeSq, DotProduct
  <2>5. Setting(list).power - Braking(Setting(list)) = 0
    BY <2>3, <2>4 DEF Braking
  <2>6. Recalc(att).cached \in Int
    BY DEF MotionTypes, SteerTypes, Recalc
  <2>7. Heading(Recalc(att).cached) \in Triplets(Int)
    BY <2>6, HeadingType DEF Triplets
  <2>8. Thrust(list) = Times(Heading(Recalc(att).cached), 0)
    BY <1>2, <2>5 DEF Thrust
  <2> QED
    BY <2>7, <2>8, Components DEF Times
<1> QED
  BY <1>1, <1>2

\* What stands goes on standing until a rocket burns under it or power is set
\* forward: no force outlives its turn, and the brake sets nothing off, for any
\* effectors, settings, headings and skids (base_object.cpp:157-219, diff_steer.cpp:170-276).
THEOREM StandingStays == Spec => StandsUntilPushed
<1> DEFINE Inv == MotionTypes /\ ListInv
           Stays == Standing(vel) /\ Unpushed => Standing(vel')
<1>1. Init => Inv
  BY MotionInit
<1>2. Inv /\ [Next]_vars => Inv'
  BY MotionStep, ListStep
<1>3. Inv /\ [Next]_vars => [Stays]_vars
  <2> SUFFICES ASSUME Inv, [Next]_vars, Standing(vel), Unpushed PROVE Standing(vel')
    OBVIOUS
  <2>1. CASE Tick
    <3>1. pre' \in SUBSET Effectors
      BY <2>1 DEF Tick, DropPending, ListInv
    <3>2. Thrust(pre').x = 0 /\ Thrust(pre').y = 0
      BY <3>1, NoThrustOnStanding DEF Unpushed
    <3>3. Burning(pre') = {} /\ Cardinality(Burning(pre')) = 0
      BY FS_EmptySet DEF Unpushed
    <3>4. Cardinality(Of("gravity", pre')) \in Int
      <4>1. IsFiniteSet(Of("gravity", pre'))
        BY <3>1, FS_Subset, ObjectAssumption DEF ObjectAssumption, Of
      <4> QED
        BY <4>1, FS_CardinalityType
    <3>5. push'.x = 0 /\ push'.y = 0
      BY <2>1, <3>2, <3>3, <3>4 DEF Tick, Push, Pushes, Plus, Times, Gravity, Impulse
    <3>6. vel' = Plus(vel, push')
      BY <2>1 DEF Tick
    <3> QED
      BY <3>5, <3>6 DEF Standing, Plus
  <2>2. CASE Apply
    BY <2>2 DEF Apply, Dragged
  <2>3. CASE UNCHANGED vel
    BY <2>3 DEF Standing
  <2>4. Tick \/ Apply \/ UNCHANGED vel
    BY DEF Next, AddPre, AddPost, Command, Check, vars, motion
  <2> QED
    BY <2>1, <2>2, <2>3, <2>4
<1> QED
  BY <1>1, <1>2, <1>3, PTL DEF Spec, StandsUntilPushed

-----------------------------------------------------------------------------
(* The radar, and the products of triplets *)

RadarInv ==
  /\ MotionTypes
  /\ phase \in {"between", "ticked", "checked"}
  /\ (phase = "between" /\ turn = 0) \/ turn \in Nat \ {0}
  /\ phase # "between" /\ Of("radar", pre) # {} => radarAt = loc
  /\ RadarError

\* In a turn that leaves the speed alone, the offsets the radar hands out are
\* wrong by the last move and by nothing else (radar_mk1.cpp:110-116).
THEOREM RadarIsOneMoveLate == Spec => []RadarError
<1> DEFINE Inv == ListInv /\ RadarInv
<1>1. Init => Inv
  <2>1. Init => MotionTypes /\ ListInv
    BY MotionInit
  <2>2. Init => phase = "between" /\ turn = 0
    BY DEF Init
  <2> QED
    BY <2>1, <2>2 DEF RadarInv, RadarError
<1>2. Inv /\ [Next]_vars => Inv'
  <2> SUFFICES ASSUME Inv, [Next]_vars PROVE Inv'
    OBVIOUS
  <2>1. MotionTypes' /\ ListInv'
    BY MotionStep, ListStep DEF RadarInv
  <2>2. CASE \E e \in Effectors : AddPre(e) \/ AddPost(e)
    <3>1. phase' = "between" /\ turn' = 0
      BY <2>2, Zenon DEF AddPre, AddPost
    <3> QED
      BY <2>1, <3>1 DEF RadarInv, RadarError
  <2>3. CASE Tick
    BY <2>1, <2>3 DEF Tick, RadarTick, RadarInv, RadarError
  <2>4. CASE Check
    BY <2>1, <2>4 DEF Check, lists, motion, RadarInv, RadarError
  <2>5. CASE Apply
    <3>1. CASE Of("radar", pre) # {} /\ Of("drag", post) = {}
      <4>1. loc' = Plus(loc, vel) /\ vel' = vel /\ radarAt' = loc /\ other' = Plus(other, course)
        BY <2>5, <3>1 DEF Apply, RadarInv
      <4>2. \A p, v, q \in Triplets(Int) :
              Minus(Minus(q, p), Minus(q, Plus(p, v))) = v
        BY DEF Minus, Plus, Triplets
      <4>3. Minus(Minus(other', radarAt'), Minus(other', loc')) = vel'
        BY <2>1, <4>1, <4>2 DEF MotionTypes, RadarInv
      <4> QED
        BY <2>1, <2>5, <4>3 DEF Apply, RadarInv, RadarError
    <3>2. CASE ~(Of("radar", pre) # {} /\ Of("drag", post) = {})
      BY <2>1, <2>5, <3>2 DEF Apply, lists, RadarInv, RadarError
    <3> QED
      BY <3>1, <3>2
  <2>6. CASE Command
    BY <2>1, <2>6 DEF Command, lists, motion, RadarInv, RadarError
  <2>7. CASE UNCHANGED vars
    BY <2>1, <2>7 DEF vars, lists, motion, RadarInv, RadarError
  <2> QED
    BY <2>2, <2>3, <2>4, <2>5, <2>6, <2>7 DEF Next
<1>3. Inv => RadarError
  BY DEF RadarInv
<1> QED
  BY <1>1, <1>2, <1>3, PTL DEF Spec

\* Lagrange's identity, and the right angles of vector_product(), for any
\* components (triad.h:298-330).
THEOREM ProductsFit == Spec => []ProductsAgree
<1> DEFINE Inv == MotionTypes /\ ListInv
<1>1. Init => Inv
  BY MotionInit
<1>2. Inv /\ [Next]_vars => Inv'
  BY MotionStep, ListStep
<1>3. Inv => ProductsAgree
  <2> SUFFICES ASSUME MotionTypes, NEW a \in {vel, other, course}, NEW b \in {vel, other, course}
               PROVE  /\ DotProduct(a, VectorProduct(a, b)) = 0 /\ DotProduct(b, VectorProduct(a, b)) = 0
                      /\ MagnitudeSq(VectorProduct(a, b)) + DotProduct(a, b) * DotProduct(a, b)
                           = MagnitudeSq(a) * MagnitudeSq(b)
    BY DEF ProductsAgree
  <2>1. a \in Triplets(Int) /\ b \in Triplets(Int)
    BY DEF MotionTypes
  <2>2. \A p, q, r, u, v, w \in Int :
          (q * w - r * v) * (q * w - r * v) + (r * u - p * w) * (r * u - p * w)
              + (p * v - q * u) * (p * v - q * u)
              + (p * u + q * v + r * w) * (p * u + q * v + r * w)
            = (p * p + q * q + r * r) * (u * u + v * v + w * w)
    BY Z3
  <2> QED
    BY <2>1, <2>2, Components, VectorProductOrthogonal DEF MagnitudeSq, DotProduct, VectorProduct
<1> QED
  BY <1>1, <1>2, <1>3, PTL DEF Spec
=============================================================================
