----------------------------- MODULE BaseObject -----------------------------
(***************************************************************************)
(* One base_object with its effectors, turn by turn: sim_core::tick() calls *)
(* its tick(), checks it against the other objects, here one neighbour that *)
(* keeps its course, and calls its apply(). Between turns the bot's router  *)
(* hands it commands. A turn is one unit of time, the mass is one, so that  *)
(* a force is the acceleration it gives, and only rotation about z is kept. *)
(* The effectors are gravity, the rocket of base_object_test.cpp, the radar *)
(* and the two parts of the drive. Commands come whole between two turns:   *)
(* a command that meets a turn is in BotMk1.                                *)
(***************************************************************************)
EXTENDS Triad, FiniteSets

CONSTANTS Effectors,   \* ids of effectors, in the order of the maps
          Kind,        \* what each effector is
          BurnTime,    \* a rocket burns this often, and once more
          TurnRates, Powers, Brakes,  \* the settings commanded
          MaxBrake,    \* the brake fully on
          Period,      \* a full circle, in halves of the units of rotation
          Compass,     \* cosine and sine of an angle
          Radius,      \* bounding_sphere.radius
          Heights,     \* where the object starts
          Skids,       \* bound: what a skid or drag may leave of a speed
          Places, Courses,  \* where the neighbour starts and how it moves
          Reach,       \* the sum of the two radii
          Steps,       \* bound: fractions of a quanta looked at for a contact
          TurnLimit    \* bound on the turns

Kinds == {"gravity", "rocket", "drive", "drag", "radar"}

ASSUME ObjectAssumption ==
  /\ IsFiniteSet(Effectors) /\ Effectors \subseteq Nat /\ Kind \in [Effectors -> Kinds]
  /\ \A d, e \in Effectors : Kind[d] = "drive" /\ Kind[e] = "drive" => d = e
  /\ BurnTime \in Nat /\ TurnRates \subseteq Int /\ Powers \subseteq Int
  /\ Brakes \subseteq Nat /\ MaxBrake \in Nat
  /\ Period \in Nat \ {0} /\ Compass \in [0..Period-1 -> [x : Int, y : Int, z : {0}]]
  /\ Radius \in Nat /\ Heights \subseteq Int /\ Skids \subseteq Int
  /\ Places \subseteq Triplets(Int) /\ Courses \subseteq Triplets(Int)
  /\ Reach \in Nat /\ Steps \in Nat /\ TurnLimit \in Nat

VARIABLES phase,              \* "between", "ticked", "checked"
          turn,               \* turns begun
          pre, post, cmd,     \* the effector lists
          dropped,            \* dropped_attribs
          fuel, set,          \* rocket::time; set_t, set_p and set_b of each effector
          push,               \* force and accel_mod
          loc, vel,           \* location and velocity
          rot, spin,          \* rotation.z; twice rotation_mod.z
          att,                \* attitude: axis (twice z), dirty, and the angle cos and sin are of
          radarAt,            \* radar_mk1::parent_location
          other, course,      \* the neighbour
          hit                 \* what check_collision() said

lists == <<pre, post, cmd, dropped>>
motion == <<push, loc, vel, rot, spin, att>>
vars == <<phase, turn, lists, fuel, set, motion, radarAt, other, course, hit>>

Of(kind, list) == {e \in list : Kind[e] = kind}

Gravity == [x |-> 0, y |-> 0, z |-> -1]
Impulse == [x |-> 1, y |-> 0, z |-> 0]

Commandable(e) == Kind[e] \in {"rocket", "drive", "radar"}

\* pre::lockdown(), and what a new drive is set to: the brake is fully on.
Locked == [turn |-> 0, power |-> 0, brake |-> MaxBrake]

Init ==
  /\ phase = "between" /\ turn = 0
  /\ pre = {} /\ post = {} /\ cmd = {} /\ dropped = {}
  /\ fuel = [e \in Effectors |-> 0] /\ set = [e \in Effectors |-> Locked]
  /\ loc \in {[Zero EXCEPT !.z = h] : h \in Heights}
  /\ push = Zero /\ vel = Zero /\ rot = 0 /\ spin = 0
  /\ att = [axis |-> 0, dirty |-> TRUE, cached |-> 0]
  /\ radarAt = Zero
  /\ other \in Places /\ course \in Courses
  /\ hit = FALSE

-----------------------------------------------------------------------------
(* rotatable *)

\* fmodf keeps the sign of its first argument.
Trim(a) == IF a >= 0 THEN a % Period ELSE -((-a) % Period)

\* add() and trim().
Turned(r, by) == [axis |-> Trim(r.axis + by), dirty |-> TRUE, cached |-> r.cached]

\* get_cos(), get_sin(): computed again only when dirty.
Recalc(r) == IF r.dirty THEN [r EXCEPT !.cached = r.axis, !.dirty = FALSE] ELSE r

-----------------------------------------------------------------------------
(* Effectors come and go, and are commanded *)

\* add_pre() and add_post().
AddPre(e) ==
  /\ phase = "between" /\ turn = 0
  /\ Kind[e] # "drag"
  /\ pre' = pre \union {e}
  /\ cmd' = IF Commandable(e) THEN cmd \union {e} ELSE cmd
  /\ UNCHANGED <<phase, turn, post, dropped, fuel, set, motion, radarAt, other, course, hit>>

AddPost(e) ==
  /\ phase = "between" /\ turn = 0
  /\ Kind[e] = "drag"
  /\ post' = post \union {e}
  /\ cmd' = IF Commandable(e) THEN cmd \union {e} ELSE cmd
  /\ UNCHANGED <<phase, turn, pre, dropped, fuel, set, motion, radarAt, other, course, hit>>

\* pre::turn(), drive(), brake() and, for what they do not accept, lockdown().
\* Power takes the brake off and the brake takes power off; 0 leaves the other.
Commanded(s) ==
  {[s EXCEPT !.turn = t] : t \in TurnRates}
    \union {[s EXCEPT !.power = p, !.brake = IF p = 0 THEN @ ELSE 0] : p \in Powers}
    \union {[s EXCEPT !.brake = b, !.power = IF b = 0 THEN @ ELSE 0] : b \in Brakes}
    \union {Locked}

\* command(): the effector that knows the command has it.
Command ==
  /\ phase = "between"
  /\ \E e \in Of("drive", cmd) :
       \E s \in Commanded(set[e]) : set' = [set EXCEPT ![e] = s]
  /\ UNCHANGED <<phase, turn, lists, fuel, motion, radarAt, other, course, hit>>

-----------------------------------------------------------------------------
(* A turn *)

Burning(list) == {e \in Of("rocket", list) : fuel[e] <= BurnTime}

\* drop_attrib(), called by a rocket from its own tick().
Spent(list) == {e \in Of("rocket", list) : fuel[e] > BurnTime}

\* The drive works on the ground alone.
OnGround(l) == l.z <= Radius
Wheels(list) == IF OnGround(loc) THEN Of("drive", list) ELSE {}
Setting(list) == set[CHOOSE e \in Wheels(list) : TRUE]

Heading(angle) == Compass[angle % Period]

\* Mutation of Braking: the kinetic energy of the fall is among what can be braked.
Braking_InTheFall(s) ==
  LET KE == MagnitudeSq(vel) + s.power
  IN IF s.brake > KE THEN KE ELSE s.brake

\* The brake is limited to the kinetic energy across the ground and the power set.
Braking(s) ==
  LET KE == MagnitudeSq([vel EXCEPT !.z = 0]) + s.power
  IN IF s.brake > KE THEN KE ELSE s.brake

\* pre::tick(): power and brake work along the heading, from its sine and cosine.
Thrust(list) ==
  IF Wheels(list) = {} THEN Zero
  ELSE Times(Heading(Recalc(att).cached), Setting(list).power - Braking(Setting(list)))

\* What the pre-effectors of list add to force and accel_mod.
Pushes(list) ==
  Plus(Thrust(list),
       Plus(Times(Gravity, Cardinality(Of("gravity", list))),
            Times(Impulse, Cardinality(Burning(list)))))

\* Mutation of Push: the forces of the last turn are still there.
Push_Kept(list) == Plus(push, Pushes(list))

\* force = 0, accel_mod = 0, then the effectors.
Push(list) == Pushes(list)

\* The drive sets the rotation.
Rotation(list) == IF Wheels(list) = {} THEN rot ELSE Setting(list).turn

\* The radar looks where its object is before it looks who is about.
RadarTick(list) == IF Of("radar", list) = {} THEN radarAt ELSE loc

\* Mutation of DropPending: a dropped effector goes on being commandable.
DropPending_KeepsCmd ==
  pre' = pre \ dropped /\ post' = post \ dropped /\ cmd' = cmd

DropPending == pre' = pre \ dropped /\ post' = post \ dropped /\ cmd' = cmd \ dropped

\* tick(). Drops asked for since the last tick are executed first; what the
\* effectors of this turn drop goes on working until the next.
Tick ==
  /\ phase = "between" /\ turn < TurnLimit
  /\ phase' = "ticked" /\ turn' = turn + 1
  /\ DropPending
  /\ dropped' = Spent(pre')
  /\ push' = Push(pre')
  /\ vel' = Plus(vel, push')
  /\ fuel' = [e \in Effectors |-> IF e \in Burning(pre') THEN fuel[e] + 1 ELSE fuel[e]]
  /\ rot' = Rotation(pre')
  /\ spin' = rot' + rot'
  /\ att' = IF Wheels(pre') = {} THEN att ELSE Recalc(att)
  /\ radarAt' = RadarTick(pre')
  /\ UNCHANGED <<set, loc, other, course, hit>>

\* The quadratic |relative position + t * relative velocity|^2 - r^2.
PP == RangeSq(other, loc) - Reach * Reach
PV == DotProduct(Minus(other, loc), Minus(course, vel))
VV == RangeSq(course, vel)

\* Mutation of Collides: the objects' speeds towards each other are ignored.
Collides_Now == PP <= 0

\* check_collision(). The last line adds where the closest approach subtracts:
\* pp + pv * (pv / vv) is positive whenever it is reached.
Collides ==
  \/ PP <= 0
  \/ PV < 0 /\ ~(PV + VV <= 0 /\ VV + 2 * PV + PP >= 0) /\ PP * VV + PV * PV > 0

Check ==
  /\ phase = "ticked"
  /\ phase' = "checked"
  /\ hit' = Collides
  /\ UNCHANGED <<turn, lists, fuel, set, motion, radarAt, other, course>>

Standing(v) == v.x = 0 /\ v.y = 0

\* post::tick(): what is not along the heading skids into it. The factors of skid
\* and drag shorten the speeds of bots, turn round and lengthen extreme ones.
Dragged(v, angle) ==
  IF Standing(v) THEN {v}
  ELSE {[Times(Heading(angle), s) EXCEPT !.z = v.z] : s \in Skids}

\* apply(), and the neighbour's.
Apply ==
  /\ phase = "checked"
  /\ phase' = "between"
  /\ loc' = Plus(loc, vel)
  /\ att' = Turned(att, spin)
  /\ vel' \in IF Of("drag", post) # {} /\ OnGround(loc') THEN Dragged(vel, att'.axis)
              ELSE {vel}
  /\ other' = Plus(other, course)
  /\ UNCHANGED <<turn, lists, fuel, set, push, rot, spin, radarAt, course, hit>>

Next ==
  \/ \E e \in Effectors : AddPre(e) \/ AddPost(e)
  \/ Command \/ Tick \/ Check \/ Apply

Spec == Init /\ [][Next]_vars

-----------------------------------------------------------------------------
(* Properties *)

\* The router finds commands through a third list, kept beside the two that
\* are ticked: an effector answers as long as it works, and no longer.
CommandsReachTheAttached == cmd = {e \in pre \union post : Commandable(e)}

\* Nothing works across the ground: no rocket burns, and no power is set forward.
Unpushed ==
  /\ Burning(pre') = {}
  /\ \A e \in Of("drive", pre') : set[e].power <= 0

\* What stands goes on standing until it is pushed. Forces do not outlive their
\* turn (base_object.cpp:160), a dropped rocket pushes no more, and the brake is a force that only
\* stops: fully on, as in a new drive, it does not set off a bot that stands,
\* nor one that is falling or turning on the spot. Neither does reverse power,
\* which counts against the budget of the brake (diff_steer.cpp:190-199).
StandsUntilPushed == [][Standing(vel) /\ Unpushed => Standing(vel')]_vars

\* Sine and cosine that are taken from the cache are those of the attitude.
CacheFresh == ~att.dirty => att.cached = att.axis

\* The radar measures from where the object was before its last move, against
\* contacts listed after it: the error of an offset is that move, and never more.
RadarError ==
  phase = "between" /\ turn > 0 /\ Of("radar", pre) # {} /\ Of("drag", post) = {}
    => Minus(Minus(other, radarAt), Minus(other, loc)) = vel

\* A contact inside the quanta, seen at any of its fractions, is a collision.
\* (A touch at exactly the end of the quanta is left to the next one.)
NoMissedContact ==
  phase = "checked" /\ ~hit =>
    \A d \in 1..Steps : \A n \in 0..d : PP * d * d + 2 * PV * n * d + VV * n * n >= 0

\* "returns true if a collision is detected" (base_object.h:215): two objects
\* that do not come within their radii during the quanta do not collide.
NoFalseAlarm ==
  phase = "checked" /\ hit =>
    \/ PP <= 0
    \/ PP + 2 * PV + VV <= 0
    \/ PV < 0 /\ PV + VV >= 0 /\ PP * VV <= PV * PV

\* The vector product stands on both its factors, and its length and the dot
\* product are the two legs of the factors' lengths.
ProductsAgree ==
  \A a, b \in {vel, other, course} :
    /\ DotProduct(a, VectorProduct(a, b)) = 0 /\ DotProduct(b, VectorProduct(a, b)) = 0
    /\ MagnitudeSq(VectorProduct(a, b)) + DotProduct(a, b) * DotProduct(a, b)
         = MagnitudeSq(a) * MagnitudeSq(b)
=============================================================================
