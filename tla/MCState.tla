------------------------------- MODULE MCState ------------------------------
(***************************************************************************)
(* The firmwares of the runs on State, as profiles of the calls they make. *)
(* The attitude has a profile of its own, since no other quantity's code   *)
(* touches it.                                                             *)
(***************************************************************************)
EXTENDS State

None == [q \in Quantities |-> {}]

(* ins_int and ahrs_int_cmpl_quat with the rotorcraft guidance,            *)
(* navigation and telemetry and the swarm module, that is, the airframes   *)
(* of the swarm.  The origin is set in ins_init or, without                *)
(* USE_INS_NAV_INIT, at the first fix of the GPS.                          *)
Rotorcraft(boot) ==
  [origin |-> "ned", boot |-> boot,
   set |-> [None EXCEPT !.pos = {{"NED_I"}}, !.speed = {{"NED_I"}}, !.accel = {{"NED_I"}},
                        !.rate = {{"RATE_I"}}],
   get |-> [None EXCEPT !.pos = {"NED_I", "ENU_I", "ENU_F", "ECEF_I"},
                        !.speed = {"NED_I", "ENU_I"}, !.accel = {"NED_I", "NED_F"},
                        !.rate = {"RATE_I", "RATE_F"}],
   marks |-> [None EXCEPT !.pos = {"NED_I", "NED_F", "ENU_I", "ENU_F", "ECEF_I", "ECEF_F"},
                          !.speed = {"NED_I", "ENU_I"}, !.accel = {"NED_I", "NED_F"},
                          !.rate = {"RATE_I", "RATE_F"}]]

(* ins_alt_float with the fixed-wing guidance, navigation and telemetry.   *)
FixedWing ==
  [origin |-> "utm", boot |-> "utm",
   set |-> [None EXCEPT !.pos = {{"UTM_F"}}, !.speed = {{"NED_F"}}, !.rate = {{"RATE_F"}},
                        !.wind = {{"WINDSPEED_F"}}, !.air = {{"AIRSPEED_F"}}],
   get |-> [None EXCEPT !.pos = {"UTM_F", "ENU_F"},
                        !.speed = {"NED_F", "ENU_F", "HNORM_F", "HDIR_F"},
                        !.rate = {"RATE_F"}, !.wind = {"WINDSPEED_F"}, !.air = {"AIRSPEED_F"}],
   marks |-> [None EXCEPT !.pos = {"UTM_F", "ENU_F"},
                          !.speed = {"NED_F", "ENU_F", "HNORM_F", "HDIR_F"},
                          !.rate = {"RATE_F"}, !.wind = {"WINDSPEED_F"}, !.air = {"AIRSPEED_F"}]]

(* Any AHRS, and readers of all its attitudes and rates.                   *)
Ahrs ==
  [origin |-> "ned", boot |-> "none",
   set |-> [None EXCEPT !.att = {{r} : r \in Reps["att"]}, !.rate = {{"RATE_I"}, {"RATE_F"}}],
   get |-> [None EXCEPT !.att = Reps["att"], !.rate = Reps["rate"]],
   marks |-> [None EXCEPT !.att = Reps["att"], !.rate = Reps["rate"]]]

(* The rotorcraft with a module that reads float speeds, such as           *)
(* modules/multi/tcas.c.  Sound rejects it: stateCalcSpeedEnu_f marks a     *)
(* position it has not computed.  With PROFILES <- WithTcas, TLC shows the *)
(* stale position that FreshReads forbids.                                 *)
RotorcraftTcas ==
  [Rotorcraft("ned") EXCEPT !.get.speed = @ \cup {"ENU_F", "HNORM_F", "HDIR_F"}]

InService == {Rotorcraft("ned"), Rotorcraft("none"), FixedWing, Ahrs}
WithTcas == {RotorcraftTcas}

(* The firmwares in service call the state interface soundly.              *)
ASSUME InServiceSound == \A p \in InService : Sound(p)
ASSUME InServiceSteady == \A p \in InService : Steady(p)

(* Readers of float speeds on a rotorcraft would not.                      *)
ASSUME TcasUnsound == \A p \in WithTcas : ~Sound(p)
=============================================================================
