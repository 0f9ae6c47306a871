------------------------------ MODULE StepperMC ------------------------------
(* The low level stepper task with the firmware's own speed constants.      *)
EXTENDS Stepper

\* Standstill, below the minimum, below and above the transition speed in
\* both directions, and above the maximum.
AllVelocities == {-2500, -400, 0, 60, 1500}

\* The position moves the panel issues: a new setpoint is at speed 0 for
\* target 0, and one the knob handler has seen is at 2 mm/s
\* (POSITION_MODE_VELOCITY_MM_PS) for a multiple of 0.1 mm.
NewMove == [speed |-> 0, target |-> 0]

MovesTo(targets) == [speed: {9142}, target: targets]

\* 0 and 0.1 mm.
NearMoves == {NewMove} \union MovesTo({0, 457})

\* -0.1, 0 and 0.1 mm.
PanelMoves == {NewMove} \union MovesTo({-457, 0, 457})

\* 0.3 and 0.5 mm.
ForwardMoves == MovesTo({1371, 2285})
=============================================================================
