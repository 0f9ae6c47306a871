------------------------------ MODULE Setpoints ------------------------------
(* The setpoints the two processors exchange (crate messenger_mouse).  The  *)
(* number of a velocity setpoint is its speed, with the sign; that of a     *)
(* position setpoint is its target, which is approached at the speed 0 of a *)
(* new setpoint or at POSITION_MODE_VELOCITY (in mm/s).                     *)
EXTENDS Integers

Motors == {"Cut", "Rotation", "Translation"}
ControlModes == {"Manual", "Vision"}

Flip(mode) == IF mode = "Manual" THEN "Vision" ELSE "Manual"

Plain(k) == [kind |-> k, v |-> 0]
Velocity(v) == [kind |-> "MoveVelocity", v |-> v]
Position(t, speed) == [kind |-> "MovePosition", v |-> t, speed |-> speed]

POSITION_MODE_VELOCITY == 2

MotorActions ==
    [kind : {"Coast", "Hold", "Home", "Seek"}, v : {0}]
        \cup [kind : {"MoveVelocity"}, v : Int]
        \cup [kind : {"MovePosition"}, v : Int, speed : {0, POSITION_MODE_VELOCITY}]
=============================================================================
