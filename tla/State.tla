------------------------------- MODULE State -------------------------------
(***************************************************************************)
(* The state interface of the airborne code (state.c, state.h and          *)
(* math/pprz_orientation_conversion): the one place where the INS, the     *)
(* AHRS and the sensors leave what they estimated and where guidance,      *)
(* navigation, modules and telemetry read it.  A quantity is kept in many  *)
(* representations; a status bit per representation says that it is        *)
(* computed.  A setter stores one representation and clears the other      *)
(* bits; a getter of a representation without its bit converts the first   *)
(* available source, marks what it went through, and marks the result.     *)
(*                                                                         *)
(* The numbers are abstracted to one question: does the memory of a        *)
(* representation hold the value that was last set, in the current frame?  *)
(* "right" is the set of representations of which that is true.            *)
(*                                                                         *)
(* All calls come from the main loop, so each is one step.  Which setters  *)
(* and getters a firmware calls is a profile, chosen once.                 *)
(***************************************************************************)
EXTENDS Naturals, Sequences

CONSTANT PROFILES   \* the firmwares to look at

VARIABLES
  profile,    \* the firmware that runs
  nedInit,    \* ned_initialized_i and _f, which are only set together
  utmInit,    \* utm_initialized_f
  status,     \* the representations marked as computed, per quantity
  right,      \* those whose memory holds the last value set (ghost)
  given       \* those stored by the last setter and not cleared since (ghost)

vars == <<profile, nedInit, utmInit, status, right, given>>

Reps ==
  [pos   |-> {"ECEF_I", "NED_I", "ENU_I", "LLA_I",
              "ECEF_F", "NED_F", "ENU_F", "LLA_F", "UTM_F"},
   speed |-> {"ECEF_I", "NED_I", "ENU_I", "HNORM_I", "HDIR_I",
              "ECEF_F", "NED_F", "ENU_F", "HNORM_F", "HDIR_F"},
   accel |-> {"ECEF_I", "NED_I", "ECEF_F", "NED_F"},
   att   |-> {"QUAT_I", "EULER_I", "RMAT_I", "QUAT_F", "EULER_F", "RMAT_F"},
   rate  |-> {"RATE_I", "RATE_F"},
   wind  |-> {"WINDSPEED_I", "WINDSPEED_F"},
   air   |-> {"AIRSPEED_I", "AIRSPEED_F"}]

Quantities == DOMAIN Reps
Framed == {"pos", "speed", "accel"}   \* those a local frame is needed for

(* POS_LOCAL_COORD, SPEED_LOCAL_COORD and the two NED bits of the          *)
(* acceleration: what a new local origin clears.                           *)
Local == {"NED_I", "ENU_I", "NED_F", "ENU_F"}
(* Norm and direction of the horizontal speed are local too, but keep      *)
(* their bits when the origin changes.                                     *)
Horizontal == {"HNORM_I", "HDIR_I", "HNORM_F", "HDIR_F"}
InFrame == Local \cup Horizontal

Frame == IF nedInit THEN "ned" ELSE IF utmInit THEN "utm" ELSE "none"

-----------------------------------------------------------------------------
(* A branch of a stateCalc function: it is taken when the bit of "from" is *)
(* set; it goes through "via", which is then marked except for "quiet",    *)
(* "stray" are bits it sets in the status of another quantity, and         *)
(* "exact" is FALSE when the conversion does not give the value.           *)

Via(from, via) == [from |-> from, via |-> via, quiet |-> {}, stray |-> {}, exact |-> TRUE]
Of(from) == Via(from, {})
Garbled(from) == [Of(from) EXCEPT !.exact = FALSE]
Stray(from, x) == [Via(from, {x}) EXCEPT !.quiet = {x}, !.stray = {<<"pos", x>>}]

CalcPositionEcef_i ==
  << Of("ECEF_F"), Of("NED_I"), Via("NED_F", {"ECEF_F"}),
     Via("LLA_F", {"ECEF_F"}), Of("LLA_I") >>

CalcPositionNed_i(frame) ==
  CASE frame = "ned" ->
    << Of("NED_F"), Of("ENU_I"), Via("ENU_F", {"ENU_I"}), Of("ECEF_I"),
       Via("ECEF_F", {"NED_F"}), Via("LLA_F", {"ECEF_F", "NED_F"}), Of("LLA_I") >>
  [] frame = "utm" ->
    << Of("NED_F"), Of("ENU_I"), Via("ENU_F", {"ENU_I"}), Via("UTM_F", {"NED_F"}),
       Via("LLA_F", {"UTM_F", "NED_F"}), Via("LLA_I", {"LLA_F", "UTM_F", "NED_F"}) >>
  [] OTHER -> <<>>

CalcPositionEnu_i(frame) ==
  CASE frame = "ned" ->
    << Of("NED_I"), Of("ENU_F"), Via("NED_F", {"NED_I"}), Of("ECEF_I"),
       Via("ECEF_F", {"ENU_F"}), Via("LLA_F", {"ECEF_F", "ENU_F"}), Of("LLA_I") >>
  [] frame = "utm" ->
    << Of("ENU_F"), Of("NED_I"), Via("NED_F", {"NED_I"}), Via("UTM_F", {"ENU_F"}),
       Via("LLA_F", {"UTM_F", "ENU_F"}), Via("LLA_I", {"LLA_F", "UTM_F", "ENU_F"}) >>
  [] OTHER -> <<>>

CalcPositionLla_i ==
  << Of("LLA_F"), Of("ECEF_I"), Via("ECEF_F", {"LLA_F"}),
     Via("NED_F", {"ECEF_F", "LLA_F"}), Via("NED_I", {"ECEF_I"}), Via("UTM_F", {"LLA_F"}) >>

CalcPositionUtm_f == << Of("LLA_F"), Via("LLA_I", {"LLA_F"}) >>

(* From NED_I it computes ECEF_I and marks ECEF_F in its place.            *)
CalcPositionEcef_f ==
  << Of("ECEF_I"), Of("NED_F"), [Via("NED_I", {"ECEF_I"}) EXCEPT !.quiet = {"ECEF_I"}],
     Of("LLA_F"), Via("LLA_I", {"LLA_F"}) >>

CalcPositionNed_f(frame) ==
  CASE frame = "ned" ->
    << Of("NED_I"), Of("ECEF_F"), Via("ECEF_I", {"NED_I"}), Of("LLA_F"),
       Via("LLA_I", {"ECEF_I", "NED_I"}) >>
  [] frame = "utm" ->
    << Of("NED_I"), Via("ENU_I", {"ENU_F"}), Of("ENU_F"), Of("UTM_F"),
       Via("LLA_F", {"UTM_F"}), Via("LLA_I", {"LLA_F", "UTM_F"}) >>
  [] OTHER -> <<>>

CalcPositionEnu_f(frame) ==
  CASE frame = "ned" ->
    << Of("NED_F"), Of("ENU_I"), Via("NED_I", {"NED_F"}), Of("ECEF_F"),
       Via("ECEF_I", {"ENU_I"}), Of("LLA_F"), Via("LLA_I", {"ECEF_I", "ENU_I"}) >>
  [] frame = "utm" ->
    << Of("ENU_I"), Of("NED_F"), Via("NED_I", {"NED_F"}), Of("UTM_F"),
       Via("LLA_F", {"UTM_F"}), Via("LLA_I", {"LLA_F", "UTM_F"}) >>
  [] OTHER -> <<>>

(* From LLA_I it converts lla_pos_f to itself.                             *)
CalcPositionLla_f ==
  << Garbled("LLA_I"), Of("ECEF_F"), Via("ECEF_I", {"ECEF_F"}), Via("NED_F", {"ECEF_F"}),
     Via("NED_I", {"NED_F", "ECEF_F"}), Of("UTM_F") >>

Position(frame) ==
  [ECEF_I |-> CalcPositionEcef_i, NED_I |-> CalcPositionNed_i(frame),
   ENU_I  |-> CalcPositionEnu_i(frame), LLA_I |-> CalcPositionLla_i,
   UTM_F  |-> CalcPositionUtm_f, ECEF_F |-> CalcPositionEcef_f,
   NED_F  |-> CalcPositionNed_f(frame), ENU_F |-> CalcPositionEnu_f(frame),
   LLA_F  |-> CalcPositionLla_f]

-----------------------------------------------------------------------------
(* In the local frames of the ground speed, the sources in local           *)
(* coordinates come first; those in ECEF only exist with a NED origin.     *)
CalcSpeedNed_i(frame) ==
  LET local == << Of("NED_F"), Of("ENU_I"), Via("ENU_F", {"ENU_I"}) >> IN
  CASE frame = "ned" -> local \o << Of("ECEF_I"), Via("ECEF_F", {"ECEF_I"}) >>
    [] frame = "utm" -> local
    [] OTHER -> <<>>

(* The branch of NED_I is not closed by an else: what the others compute   *)
(* overwrites it, so it counts last.  ENU_F is scaled as a position, and   *)
(* the branch of NED_F sets bit SPEED_NED_I in the status of the position, *)
(* where it is POS_NED_I.                                                  *)
CalcSpeedEnu_i(frame) ==
  CASE frame = "ned" -> << Garbled("ENU_F"), Stray("NED_F", "NED_I"), Of("ECEF_I"),
                           Via("ECEF_F", {"ECEF_I"}), Of("NED_I") >>
    [] frame = "utm" -> << Garbled("ENU_F"), Stray("NED_F", "NED_I"), Of("NED_I") >>
    [] OTHER -> <<>>

CalcSpeedEcef_i == << Of("ECEF_F"), Of("NED_I"), Via("NED_F", {"NED_I"}) >>

CalcHorizontalSpeedNorm_i ==
  << Of("HNORM_F"), Of("NED_I"), Via("NED_F", {"HNORM_F"}), Of("ENU_I"),
     Via("ENU_F", {"HNORM_F"}), Via("ECEF_I", {"NED_I"}), Via("ECEF_F", {"NED_F", "HNORM_F"}) >>

(* The direction is an angle, and is converted with the scale of a speed.  *)
CalcHorizontalSpeedDir_i ==
  << Garbled("HDIR_F"), Of("NED_I"), Of("ENU_I"), Via("NED_F", {"NED_I"}),
     Via("ENU_F", {"ENU_I"}) >>

CalcSpeedNed_f(frame) ==
  LET local == << Of("NED_I"), Of("ENU_F"), Via("ENU_I", {"ENU_F"}) >> IN
  CASE frame = "ned" -> local \o << Of("ECEF_F"), Via("ECEF_I", {"ECEF_F"}) >>
    [] frame = "utm" -> local
    [] OTHER -> <<>>

(* ENU_I is scaled as a position, and the branch of NED_I sets bit         *)
(* SPEED_NED_F in the status of the position, where it is POS_NED_F.       *)
CalcSpeedEnu_f(frame) ==
  LET local == << Of("NED_F"), Garbled("ENU_I"), Stray("NED_I", "NED_F") >> IN
  CASE frame = "ned" -> local \o << Of("ECEF_F"), Via("ECEF_I", {"ECEF_F"}) >>
    [] frame = "utm" -> local
    [] OTHER -> <<>>

(* From ECEF_I it converts ned_speed_i.                                    *)
CalcSpeedEcef_f == << Garbled("ECEF_I"), Of("NED_F"), Via("NED_I", {"NED_F"}) >>

CalcHorizontalSpeedNorm_f ==
  << Of("HNORM_I"), Of("NED_F"), Of("ENU_F"), Via("NED_I", {"NED_F"}), Via("ENU_I", {"ENU_F"}) >>

CalcHorizontalSpeedDir_f ==
  << Garbled("HDIR_I"), Of("NED_F"), Of("ENU_F"), Via("NED_I", {"NED_F"}),
     Via("ENU_I", {"ENU_F"}) >>

Speed(frame) ==
  [NED_I  |-> CalcSpeedNed_i(frame), ENU_I |-> CalcSpeedEnu_i(frame),
   ECEF_I |-> CalcSpeedEcef_i, HNORM_I |-> CalcHorizontalSpeedNorm_i,
   HDIR_I |-> CalcHorizontalSpeedDir_i,
   NED_F  |-> CalcSpeedNed_f(frame), ENU_F |-> CalcSpeedEnu_f(frame),
   ECEF_F |-> CalcSpeedEcef_f, HNORM_F |-> CalcHorizontalSpeedNorm_f,
   HDIR_F |-> CalcHorizontalSpeedDir_f]

-----------------------------------------------------------------------------
(* The acceleration has no UTM branch.  CalcAccelEcef_f converts           *)
(* ned_accel_i when it is asked to convert ECEF_I.                         *)
Acceleration(frame) ==
  LET ned(routes) == IF frame = "ned" THEN routes ELSE <<>> IN
  [NED_I  |-> ned(<< Of("NED_F"), Of("ECEF_I"), Via("ECEF_F", {"ECEF_I"}) >>),
   ECEF_I |-> << Of("ECEF_F"), Of("NED_I"), Via("NED_F", {"NED_I"}) >>,
   NED_F  |-> ned(<< Of("NED_I"), Of("ECEF_F"), Via("ECEF_I", {"ECEF_F"}) >>),
   ECEF_F |-> << Garbled("ECEF_I"), Of("NED_F"), Via("NED_I", {"NED_F"}) >>]

Attitude ==
  [QUAT_I  |-> << Of("QUAT_F"), Of("RMAT_I"), Of("EULER_I"),
                  Via("RMAT_F", {"RMAT_I"}), Via("EULER_F", {"EULER_I"}) >>,
   RMAT_I  |-> << Of("RMAT_F"), Of("QUAT_I"), Of("EULER_I"),
                  Via("QUAT_F", {"QUAT_I"}), Via("EULER_F", {"EULER_I"}) >>,
   EULER_I |-> << Of("EULER_F"), Of("RMAT_I"), Of("QUAT_I"),
                  Via("RMAT_F", {"RMAT_I"}), Via("QUAT_F", {"QUAT_I"}) >>,
   QUAT_F  |-> << Of("QUAT_I"), Of("RMAT_F"), Of("EULER_F"),
                  Via("RMAT_I", {"RMAT_F"}), Via("EULER_I", {"EULER_F"}) >>,
   RMAT_F  |-> << Of("RMAT_I"), Of("QUAT_F"), Of("EULER_F"),
                  Via("QUAT_I", {"QUAT_F"}), Via("EULER_I", {"EULER_F"}) >>,
   EULER_F |-> << Of("EULER_I"), Of("RMAT_F"), Of("QUAT_F"),
                  Via("RMAT_I", {"RMAT_F"}), Via("QUAT_I", {"QUAT_F"}) >>]

BodyRates == [RATE_I |-> << Of("RATE_F") >>, RATE_F |-> << Of("RATE_I") >>]

(* The float conversion writes x twice and leaves y.                       *)
Windspeed ==
  [WINDSPEED_I |-> << Of("WINDSPEED_F") >>, WINDSPEED_F |-> << Garbled("WINDSPEED_I") >>]

Airspeed == [AIRSPEED_I |-> << Of("AIRSPEED_F") >>, AIRSPEED_F |-> << Of("AIRSPEED_I") >>]

Routes(q, r, frame) ==
  CASE q = "pos"   -> Position(frame)[r]
    [] q = "speed" -> Speed(frame)[r]
    [] q = "accel" -> Acceleration(frame)[r]
    [] q = "att"   -> Attitude[r]
    [] q = "rate"  -> BodyRates[r]
    [] q = "wind"  -> Windspeed[r]
    [] OTHER       -> Airspeed[r]

(* The bit a stateCalc function sets last.  The two of the wind set it in  *)
(* rate_status: WINDSPEED_I is the number of RATE_I there, WINDSPEED_F is  *)
(* the number of no representation.                                        *)
ResultBits(q, r) ==
  CASE q # "wind"        -> {<<q, r>>}
    [] r = "WINDSPEED_I" -> {<<"rate", "RATE_I">>}
    [] OTHER             -> {}

-----------------------------------------------------------------------------
(* A conversion between local and geocentric coordinates needs the origin  *)
(* of the frame it uses: the NED origin, or the UTM origin if it goes      *)
(* through UTM_F.                                                          *)
Carries(route, x, r, frame) ==
  \/ route.from \in InFrame <=> x \in InFrame
  \/ frame = "ned"
  \/ frame = "utm" /\ "UTM_F" \in {route.from, r} \cup route.via

(* What the memory holds, and the bits that are set, after a branch.       *)
Written(route, r) == route.via \cup {r}
Exact(route, q, r) ==
  {x \in Written(route, r) : route.exact /\ route.from \in right[q] /\ Carries(route, x, r, Frame)}
Marks(route, q, r) ==
  {<<q, x>> : x \in route.via \ route.quiet} \cup route.stray \cup ResultBits(q, r)

SetBits(bits) == status' = [p \in Quantities |-> status[p] \cup {x \in Reps[p] : <<p, x>> \in bits}]

(* The branch a stateCalc function takes: the first whose source is marked.*)
Taken(routes, i, q) ==
  /\ routes[i].from \in status[q]
  /\ \A j \in DOMAIN routes : j < i => routes[j].from \notin status[q]

-----------------------------------------------------------------------------
Init ==
  /\ profile \in PROFILES
  /\ nedInit = (profile.boot = "ned")
  /\ utmInit = (profile.boot = "utm")
  /\ given = [q \in Quantities |-> IF profile.boot = "utm" /\ q = "pos" THEN {"UTM_F"} ELSE {}]
  /\ status = given
  /\ right = given

(* A slip: a setter that leaves the other bits.                            *)
SetLeavesBits(q, rs) ==
  /\ rs \in profile.set[q]
  /\ status' = [status EXCEPT ![q] = @ \cup rs]
  /\ right' = [right EXCEPT ![q] = rs]
  /\ given' = [given EXCEPT ![q] = rs]
  /\ UNCHANGED <<profile, nedInit, utmInit>>

(* A slip: a setter that clears all bits after it has set its own.         *)
SetClearsLast(q, rs) ==
  /\ rs \in profile.set[q]
  /\ status' = [status EXCEPT ![q] = {}]
  /\ right' = [right EXCEPT ![q] = rs]
  /\ given' = [given EXCEPT ![q] = rs]
  /\ UNCHANGED <<profile, nedInit, utmInit>>

(* A setter: rs are the representations it is given, one or, for           *)
(* stateSetPosition_i and its like, several of the same precision.         *)
Set(q, rs) ==
  /\ rs \in profile.set[q]
  /\ status' = [status EXCEPT ![q] = rs]
  /\ right' = [right EXCEPT ![q] = rs]
  /\ given' = [given EXCEPT ![q] = rs]
  /\ UNCHANGED <<profile, nedInit, utmInit>>

(* A getter whose bit is not set and that finds a source.                  *)
GetConverted(q, r) ==
  LET routes == Routes(q, r, Frame) IN
  /\ r \in profile.get[q] \ status[q]
  /\ \E i \in DOMAIN routes :
       /\ Taken(routes, i, q)
       /\ right' = [right EXCEPT ![q] =
                      (@ \ Written(routes[i], r)) \cup Exact(routes[i], q, r)]
       /\ SetBits(Marks(routes[i], q, r))
  /\ UNCHANGED <<profile, nedInit, utmInit, given>>

(* A getter that finds none: "could not get this representation".  It      *)
(* computes nothing and sets the bit all the same.                         *)
GetNothing(q, r) ==
  LET routes == Routes(q, r, Frame) IN
  /\ r \in profile.get[q] \ status[q]
  /\ \A i \in DOMAIN routes : routes[i].from \notin status[q]
  /\ SetBits(ResultBits(q, r))
  /\ UNCHANGED <<profile, nedInit, utmInit, right, given>>

(* A slip: only the bits of the position are cleared.                      *)
ClearLocalPosition(f) == [f EXCEPT !.pos = @ \ Local]

(* What a new local origin clears.                                         *)
ClearLocal(f) == [q \in Quantities |-> IF q \in Framed THEN f[q] \ Local ELSE f[q]]

(* The INS sets a new NED origin: at the first fix of the GPS, after       *)
(* nav_reset_reference and in nav_reset_alt.                               *)
SetLocalOrigin_i ==
  /\ profile.origin = "ned"
  /\ nedInit' = TRUE
  /\ status' = ClearLocal(status)
  /\ given' = ClearLocal(given)
  /\ right' = [q \in Quantities |-> IF q \in Framed THEN right[q] \ InFrame ELSE right[q]]
  /\ UNCHANGED <<profile, utmInit>>

(* A new UTM origin.  It moves the frame without turning it: the norm and  *)
(* the direction of the speed stay what they were.                         *)
SetLocalUtmOrigin_f ==
  /\ profile.origin = "utm"
  /\ utmInit' = TRUE
  /\ status' = ClearLocal(status)
  /\ given' = ClearLocal(given)
  /\ right' = ClearLocal(right)
  /\ UNCHANGED <<profile, nedInit>>

Next ==
  \/ \E q \in Quantities : \E rs \in profile.set[q] : Set(q, rs)
  \/ \E q \in Quantities : \E r \in profile.get[q] : GetConverted(q, r) \/ GetNothing(q, r)
  \/ SetLocalOrigin_i
  \/ SetLocalUtmOrigin_f

Spec == Init /\ [][Next]_vars
-----------------------------------------------------------------------------
(* The bits, the ghosts and the flags have their types; what was given and *)
(* not cleared is marked.                                                  *)
AllReps == UNION {Reps[q] : q \in Quantities}

TypeOK ==
  /\ profile \in PROFILES
  /\ nedInit \in BOOLEAN /\ utmInit \in BOOLEAN
  /\ \A f \in {status, right, given} :
       /\ f \in [Quantities -> SUBSET AllReps]
       /\ \A q \in Quantities : f[q] \subseteq Reps[q]
  /\ \A q \in Quantities : given[q] \subseteq status[q]

(* "When the corresponding bit is set the representation is already        *)
(* computed" (state.h): as long as something that a setter stored counts,  *)
(* and the local frame of a quantity that needs one is defined, every      *)
(* marked representation holds the value last set, in whatever order the   *)
(* firmware reads the representations, of this quantity and of the others, *)
(* and whenever the origin moves.                                          *)
FreshReads ==
  \A q \in Quantities :
    given[q] # {} /\ (q \in Framed => Frame # "none") => status[q] \subseteq right[q]

(* Reading one representation, setting another quantity or moving the      *)
(* origin never spoils a value that is marked and right and stays marked.  *)
MarkedStaysRight ==
  [][\A q \in Quantities : status[q] \cap status'[q] \cap right[q] \subseteq right'[q]]_vars

(* What a firmware must respect for the cache to serve it.  Its "marks"    *)
(* bound what it may come to mark: a branch that it can take goes through  *)
(* no others and sets no bit of another quantity.                          *)
Confined(p, q) ==
  /\ p.marks[q] \subseteq Reps[q]
  /\ p.get[q] \subseteq p.marks[q]
  /\ \A rs \in p.set[q] : rs \subseteq p.marks[q]
  /\ \A r \in p.get[q] : ResultBits(q, r) \subseteq {<<q, r>>}
  /\ \A r \in p.get[q], frame \in {p.origin, "none"} :
       \A i \in DOMAIN Routes(q, r, frame) :
         LET route == Routes(q, r, frame)[i] IN
         route.from \in p.marks[q] =>
           /\ route.via \subseteq p.marks[q]
           /\ Marks(route, q, r) \subseteq {q} \X Written(route, r)

(* With its frame defined, every read finds a source among what the        *)
(* setters give, and whatever else is marked, no branch that it can take   *)
(* is inexact or lacks the origin.                                         *)
Served(p, q) ==
  LET frame == IF q \in Framed THEN p.origin ELSE "none" IN
  \A r \in p.get[q] :
    /\ \A g \in (UNION p.set[q]) \ {r} :
         \E i \in DOMAIN Routes(q, r, frame) : Routes(q, r, frame)[i].from = g
    /\ \A i \in DOMAIN Routes(q, r, frame) :
         LET route == Routes(q, r, frame)[i] IN
         route.from \in p.marks[q] =>
           route.exact /\ \A x \in Written(route, r) : Carries(route, x, r, frame)

(* A quantity set in other than local coordinates outlives a new origin:   *)
(* nothing derived before the first one, and no norm or direction of the   *)
(* speed, may then be left marked.                                         *)
SurvivesOrigin(p, q) ==
  \/ q \notin Framed
  \/ \A rs \in p.set[q] : rs \subseteq Local
  \/ p.boot = p.origin /\ p.marks[q] \cap Horizontal = {}

Sound(p) ==
  /\ p.origin \in {"ned", "utm"} /\ p.boot \in {"none", p.origin}
  /\ p.boot = "utm" => {"UTM_F"} \in p.set["pos"]
  /\ \A q \in Quantities : Confined(p, q) /\ Served(p, q) /\ SurvivesOrigin(p, q)

(* What keeps a value that is marked: a branch comes after those from all  *)
(* it goes through, so none of these is marked when it is taken; and a NED *)
(* firmware marks no norm or direction of the speed, which a new origin    *)
(* invalidates without clearing them.                                      *)
Steady(p) ==
  /\ p.origin = "ned" => \A q \in Framed : p.marks[q] \cap Horizontal = {}
  /\ \A q \in Quantities : \A r \in p.get[q], frame \in {p.origin, "none"} :
       LET routes == Routes(q, r, frame) IN
       \A i \in DOMAIN routes :
         routes[i].from \in p.marks[q] =>
           \A x \in routes[i].via : \E j \in DOMAIN routes : j < i /\ routes[j].from = x
=============================================================================
