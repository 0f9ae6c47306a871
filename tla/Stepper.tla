------------------------------- MODULE Stepper -------------------------------
(***************************************************************************)
(* The low level stepper task of the knife axis: the loop of               *)
(* low_lvl_stepper_task, the StepperStateMachine it drives (velocity ramp, *)
(* position mode, direction switch) and the RMT burst of step pulses.      *)
(*                                                                         *)
(* One pass of the loop is two steps.  At pc = "loop" the task adjusts the *)
(* ramp (Loop actions); at pc = "select" it waits in select3 and runs the  *)
(* branch that fires (Command, StepTimer, PositionReset).  A burst of      *)
(* pulses that was armed runs in the RMT peripheral, concurrently with the *)
(* task, until TxDone.  A stop is two steps as well: the enable pin is set *)
(* (BeginStop), then stop_stepping blocks the task, and the executor with  *)
(* it, at pc = "stopping" until the burst is over or ten FreeRTOS ticks    *)
(* have passed, whichever is first (FinishStop).                           *)
(*                                                                         *)
(* Velocities are signed integers in steps per second: the conversion from *)
(* mm/s is a fixed factor of the axis; its sign, truncation and            *)
(* saturation are kept (FromVelocity).                                     *)
(***************************************************************************)
EXTENDS Integers

CONSTANTS
    MINIMUM_SPS, MAXIMUM_SPS,      \* slowest and fastest pulse rate
    MINIMUM_TRANSITION_SPS,        \* fastest rate at which direction may switch
    ACCEL_SPS_PER_INTERVAL,        \* ramp step of one loop pass
    ACCEL_SPS_PER_SECOND,
    TICK_HZ,                       \* embassy ticks (and RMT ticks) per second
    STEP_INTERVAL,                 \* ticks between two re-arms
    APPROACHING_STEP_INTERVAL,     \* the same, close to a position target
    TARGET_REACHED_EPSILON, TARGET_CLOSE_EPSILON,
    LOOP_LIMIT,                    \* longest burst the RMT accepts
    Velocities,                    \* signed speeds of the velocity moves requested
    PositionMoves,                 \* speed and target of the position moves requested
    DirPinOutcomes,                \* can writing the direction pin fail?
    ArmOutcomes,                   \* can arming the RMT fail?
    Interrupt,                     \* may a new action arrive while moving?
    MaxSent,                       \* bound: actions sent in a behaviour
    MaxPosition                    \* bound: |position| of a cruising motor

ASSUME RampConstants ==
    /\ MINIMUM_SPS \in Nat \ {0}
    /\ MAXIMUM_SPS \in Nat
    /\ MINIMUM_TRANSITION_SPS \in Nat
    /\ ACCEL_SPS_PER_INTERVAL \in Nat
    /\ MINIMUM_SPS <= ACCEL_SPS_PER_INTERVAL
    /\ MINIMUM_TRANSITION_SPS <= ACCEL_SPS_PER_INTERVAL
    /\ ACCEL_SPS_PER_INTERVAL <= MAXIMUM_SPS

ASSUME InputConstants ==
    /\ Velocities \subseteq Int
    /\ PositionMoves \subseteq [speed: Int, target: Int]
    /\ DirPinOutcomes \subseteq BOOLEAN
    /\ DirPinOutcomes # {}
    /\ ArmOutcomes \subseteq BOOLEAN
    /\ Interrupt \in BOOLEAN
    /\ MaxSent \in Nat
    /\ MaxPosition \in Nat
    /\ ACCEL_SPS_PER_SECOND \in Nat \ {0}
    /\ TARGET_REACHED_EPSILON \in Nat
    /\ TARGET_CLOSE_EPSILON \in Nat

Dirs == {"Forward", "Reverse"}

RampStates == {"Cruising", "Accelerating", "Decelerating"}

\* StepperAction::SingleStep is not here: no task of the firmware sends it.
StepperActions ==
    [kind: {"Coast", "Hold"}]
        \union [kind: {"MoveVelocity"}, speed: Velocities]
        \union {[kind |-> "MovePosition", speed |-> m.speed, target |-> m.target] :
                   m \in PositionMoves}

Coast == [kind |-> "Coast"]

NoAction == [kind |-> "None"]

StepperStates == {"Coast", "Hold", "Velocity", "Position"}

Moving == {"Velocity", "Position"}

VARIABLES
    pc,                 \* "loop", "select" or "stopping": where the task is
    state,              \* sm.state
    enabled,            \* level of the driver's enable pin (TRUE: energised)
    current_position, target_position,
    current_dir, target_dir, current_speed, target_speed, ramp_state,
    interval_steps,     \* sm.interval_cfg: 0 stands for None
    rmt_busy,           \* an armed burst is still being pulsed out
    action,             \* the STEPPER_ACTION watch: unseen action or NoAction
    reset_requested,    \* the KNIFE_MOTOR_POS_RESET watch
    sent,               \* actions sent so far (bounded by MaxSent)
    dir_fault,          \* history: the last direction write failed
    burst               \* history: length of the running burst, as long as the
                        \* task has done nothing else since it armed it, or 0

velocity == <<current_dir, target_dir, current_speed, target_speed, ramp_state>>
position == <<current_position, target_position>>
inputs == <<action, reset_requested, sent>>
rmt == <<rmt_busy, burst>>
vars == <<pc, state, enabled, position, velocity, interval_steps, rmt,
          inputs, dir_fault>>

-----------------------------------------------------------------------------
(* Arithmetic of the state machine.                                        *)

Abs(x) == IF x < 0 THEN -x ELSE x

Clamp(x, low, high) == IF x < low THEN low ELSE IF x > high THEN high ELSE x

SaturatingSub(x, y) == IF x > y THEN x - y ELSE 0

\* Mutant: the upper limit is not applied.
FromVelocityUnsaturated(v) == IF Abs(v) < MINIMUM_SPS THEN 0 ELSE Abs(v)

FromVelocity(v) ==
    IF Abs(v) < MINIMUM_SPS THEN 0
    ELSE IF Abs(v) > MAXIMUM_SPS THEN MAXIMUM_SPS ELSE Abs(v)

DirOf(v) ==
    IF v = 0 THEN current_dir ELSE IF v > 0 THEN "Forward" ELSE "Reverse"

\* Duration::from_hz rounds to the nearest tick.
TicksPerStep(sps) == (TICK_HZ + sps \div 2) \div sps

\* What the constants have to satisfy for every interval to hold at least one
\* pulse and no more than the RMT can loop.
ASSUME IntervalConstants ==
    /\ TICK_HZ \in Nat
    /\ LOOP_LIMIT \in Nat
    /\ \A ticks \in {STEP_INTERVAL, APPROACHING_STEP_INTERVAL} :
          \A sps \in MINIMUM_SPS .. MAXIMUM_SPS :
             ticks \div TicksPerStep(sps) \in 1 .. LOOP_LIMIT

\* And for the burst of a speed at which direction may switch to be half of
\* what a position move calls reached.
ASSUME ReversalConstants ==
    /\ MINIMUM_SPS <= MINIMUM_TRANSITION_SPS
    /\ \A ticks \in {STEP_INTERVAL, APPROACHING_STEP_INTERVAL} :
          \A sps \in MINIMUM_SPS .. MINIMUM_TRANSITION_SPS :
             2 * (ticks \div TicksPerStep(sps)) <= TARGET_REACHED_EPSILON

TargetIsClose == Abs(target_position - current_position) <= TARGET_CLOSE_EPSILON

TargetIsReached ==
    Abs(target_position - current_position) <= TARGET_REACHED_EPSILON

\* Mutant: no steps at standstill, instead of the clamp to the minimum rate.
StepsInIntervalUnclamped(sps) ==
    IF sps = 0 THEN 0 ELSE STEP_INTERVAL \div TicksPerStep(sps)

StepsInInterval(sps) ==
    LET ticks == IF state = "Position" /\ TargetIsClose
                 THEN APPROACHING_STEP_INTERVAL ELSE STEP_INTERVAL
    IN  ticks \div TicksPerStep(Clamp(sps, MINIMUM_SPS, MAXIMUM_SPS))


BrakingDistance == (current_speed * current_speed) \div (2 * ACCEL_SPS_PER_SECOND)

-----------------------------------------------------------------------------
(* The state machine's operations.                                         *)

\* Mutant: the speeds are compared without looking at the directions.
RampTowardsAnyDir(dir, sps) ==
    IF current_speed = sps THEN "Cruising"
    ELSE IF current_speed < sps THEN "Accelerating" ELSE "Decelerating"

RampTowards(dir, sps) ==
    IF current_dir # dir THEN "Decelerating"
    ELSE IF current_speed = sps THEN "Cruising"
    ELSE IF current_speed < sps THEN "Accelerating" ELSE "Decelerating"

UpdateTargetVelocity(v) ==
    /\ target_dir' = DirOf(v)
    /\ target_speed' = FromVelocity(v)
    /\ ramp_state' = RampTowards(DirOf(v), FromVelocity(v))
    /\ dir_fault' = FALSE

\* Coast and Hold set the enable pin first, while the burst still runs.
BeginStop(kind) ==
    /\ enabled' = (kind = "Hold")
    /\ pc' = "stopping"
    /\ burst' = 0
    /\ UNCHANGED <<state, position, velocity, interval_steps, rmt_busy, dir_fault>>

\* Mutant: the interval configuration survives.
ResetKeepsInterval ==
    /\ current_speed' = 0 /\ target_speed' = 0
    /\ ramp_state' = "Cruising"
    /\ UNCHANGED interval_steps

Reset ==
    /\ current_speed' = 0 /\ target_speed' = 0
    /\ ramp_state' = "Cruising"
    /\ interval_steps' = 0

MoveVelocity(v) ==
    /\ state' = "Velocity"
    /\ enabled' = TRUE
    /\ UpdateTargetVelocity(v)
    /\ burst' = 0
    /\ UNCHANGED <<current_dir, current_speed, position, interval_steps, rmt_busy>>

MovePosition(target, v) ==
    /\ state' = "Position"
    /\ enabled' = TRUE
    /\ UpdateTargetVelocity(IF target <= current_position THEN -Abs(v) ELSE Abs(v))
    /\ target_position' = target
    /\ burst' = 0
    /\ UNCHANGED <<current_dir, current_speed, current_position, interval_steps,
                   rmt_busy>>

TransitionTo(a) ==
    \/ a.kind \in {"Coast", "Hold"} /\ BeginStop(a.kind)
    \/ a.kind = "MoveVelocity" /\ MoveVelocity(a.speed) /\ pc' = "loop"
    \/ a.kind = "MovePosition" /\ MovePosition(a.target, a.speed) /\ pc' = "loop"

\* Mutant: the direction is switched at any speed.
ReadyAtAnySpeed == current_dir # target_dir

\* Mutant: the speed looked at is the one the next ramp step will reach.
ReadyOneIntervalEarly ==
    /\ current_dir # target_dir
    /\ SaturatingSub(current_speed, ACCEL_SPS_PER_INTERVAL) <= MINIMUM_TRANSITION_SPS

ReadyForDirectionSwitch ==
    /\ current_dir # target_dir
    /\ current_speed <= MINIMUM_TRANSITION_SPS

\* switch_direction: the direction the motor has when the pin was written, or
\* could not be.
SwitchedDir(pin_ok) == IF pin_ok THEN target_dir ELSE current_dir

WithinSingleRampInterval(ramp) ==
    \/ ramp = "Cruising"
    \/ ramp = "Accelerating" /\ current_speed + ACCEL_SPS_PER_INTERVAL >= target_speed
    \/ /\ ramp = "Decelerating"
       /\ SaturatingSub(current_speed, ACCEL_SPS_PER_INTERVAL) <= target_speed

Ramped(ramp) ==
    LET next == IF ramp = "Accelerating"
                THEN current_speed + ACCEL_SPS_PER_INTERVAL
                ELSE SaturatingSub(current_speed, ACCEL_SPS_PER_INTERVAL)
    IN  Clamp(next, MINIMUM_SPS, MAXIMUM_SPS)

\* Mutant: the final step of the ramp is clamped to the minimum rate as well.
UpdateVelocityClamped(dir, ramp) ==
    /\ \/ /\ ramp = "Cruising"
          /\ UNCHANGED current_speed
          /\ ramp_state' = ramp
       \/ /\ ramp # "Cruising"
          /\ current_speed' =
                IF dir = target_dir /\ WithinSingleRampInterval(ramp)
                THEN Clamp(target_speed, MINIMUM_SPS, MAXIMUM_SPS) ELSE Ramped(ramp)
          /\ ramp_state' = IF dir = target_dir /\ WithinSingleRampInterval(ramp)
                           THEN "Cruising" ELSE ramp
    /\ interval_steps' = StepsInInterval(current_speed')

\* dir and ramp are the direction and the ramp state after a direction switch.
UpdateVelocity(dir, ramp) ==
    /\ \/ /\ ramp = "Cruising"
          /\ UNCHANGED current_speed
          /\ ramp_state' = ramp
       \/ /\ ramp # "Cruising"
          /\ dir = target_dir /\ WithinSingleRampInterval(ramp)
          /\ current_speed' = target_speed
          /\ ramp_state' = "Cruising"
       \/ /\ ramp # "Cruising"
          /\ ~(dir = target_dir /\ WithinSingleRampInterval(ramp))
          /\ current_speed' = Ramped(ramp)
          /\ ramp_state' = ramp
    /\ interval_steps' = StepsInInterval(current_speed')

-----------------------------------------------------------------------------
(* The task.                                                               *)

Init ==
    /\ pc = "loop"
    /\ state = "Coast"
    /\ enabled = FALSE
    /\ current_position = 0 /\ target_position = 0
    /\ current_dir = "Forward" /\ target_dir = "Forward"
    /\ current_speed = 0 /\ target_speed = 0
    /\ ramp_state = "Cruising"
    /\ interval_steps = 0
    /\ rmt_busy = FALSE /\ burst = 0
    /\ action = Coast            \* control_knife_motor starts stopped
    /\ reset_requested = FALSE
    /\ sent = 0
    /\ dir_fault = FALSE

BelowMinimum ==
    /\ state = "Velocity"
    /\ target_speed < MINIMUM_SPS
    /\ current_speed < MINIMUM_SPS

\* A velocity move that has come to rest turns into Hold.
LoopHold ==
    /\ pc = "loop" /\ BelowMinimum
    /\ BeginStop("Hold")
    /\ UNCHANGED inputs

\* stop_stepping has returned and velocity and interval are reset.  It returns
\* an error when the burst outlasts its wait of ten ticks, and the error is
\* ignored: the burst may be running still (rmt_busy is left as it is).
FinishStop ==
    /\ pc = "stopping"
    /\ Reset
    /\ state' = IF enabled THEN "Hold" ELSE "Coast"
    /\ dir_fault' = FALSE
    /\ pc' = "loop"
    /\ UNCHANGED <<enabled, position, current_dir, target_dir, rmt, inputs>>

\* The pass of a moving motor.  When slow enough and bound for the other
\* direction it switches; a failed write of the pin leaves the direction but
\* starts the acceleration all the same.
LoopMove(pin_ok) ==
    LET switch == ramp_state = "Decelerating" /\ ReadyForDirectionSwitch
        dir == IF switch THEN SwitchedDir(pin_ok) ELSE current_dir
        ramp == IF switch THEN "Accelerating" ELSE ramp_state
    IN  /\ pc = "loop" /\ state \in Moving /\ ~BelowMinimum
        /\ current_dir' = dir
        /\ UpdateVelocity(dir, ramp)
        /\ dir_fault' = IF switch THEN ~pin_ok ELSE dir_fault
        /\ pc' = "select"
        /\ UNCHANGED <<state, enabled, position, target_dir, target_speed,
                       rmt, inputs>>

LoopIdle ==
    /\ pc = "loop" /\ state \notin Moving
    /\ pc' = "select"
    /\ UNCHANGED <<state, enabled, position, velocity, interval_steps, rmt,
                   inputs, dir_fault>>

\* First branch of select3.
Command ==
    /\ pc = "select" /\ action # NoAction
    /\ TransitionTo(action)
    /\ action' = NoAction
    /\ UNCHANGED <<reset_requested, sent>>

\* Bound of the model, not of the code: past MaxPosition a motor is followed
\* only as long as its speed still has to change or it is on its way back.
InBounds ==
    \/ Abs(current_position) < MaxPosition
    \/ ramp_state = "Decelerating"
    \/ ramp_state = "Accelerating" /\ current_speed < MAXIMUM_SPS
    \/ state = "Velocity" /\ current_speed = 0
    \/ (current_dir = "Forward") = (current_position < 0)

\* Second branch.  The timer is created after the burst was armed and a burst
\* lasts at most one interval, so the burst is over when it expires (one that
\* outlasted a stop has even less left); and the branch is polled after the
\* first one.
TimerExpires ==
    /\ pc = "select" /\ state \in Moving
    /\ action = NoAction
    /\ ~rmt_busy
    /\ InBounds

StepBurst ==
    current_position + (IF current_dir = "Forward" THEN 1 ELSE -1) * interval_steps

\* on_step_timer_expire: arm the burst, count its steps, and in position mode
\* start braking when the target is within braking distance.
StepTimer ==
    /\ TimerExpires /\ TRUE \in ArmOutcomes
    /\ ~(state = "Position" /\ TargetIsReached)
    /\ rmt_busy' = TRUE /\ burst' = interval_steps
    /\ current_position' = StepBurst
    /\ IF state = "Position" /\ BrakingDistance >= Abs(StepBurst - target_position)
       THEN UpdateTargetVelocity(0)
       ELSE UNCHANGED <<target_dir, target_speed, ramp_state, dir_fault>>
    /\ pc' = "loop"
    /\ UNCHANGED <<state, enabled, target_position, current_dir, current_speed,
                   interval_steps, inputs>>

\* arm_n_steps failed: nothing is pulsed and nothing is counted.
StepTimerArmError ==
    /\ TimerExpires /\ FALSE \in ArmOutcomes
    /\ ~(state = "Position" /\ TargetIsReached)
    /\ pc' = "loop"
    /\ UNCHANGED <<state, enabled, position, velocity, interval_steps, rmt,
                   inputs, dir_fault>>

StepTimerReached ==
    /\ TimerExpires
    /\ state = "Position" /\ TargetIsReached
    /\ BeginStop("Hold")
    /\ UNCHANGED inputs

\* Third branch.
PositionReset ==
    /\ pc = "select" /\ action = NoAction /\ reset_requested
    /\ current_position' = 0
    /\ reset_requested' = FALSE
    /\ pc' = "loop" /\ burst' = 0
    /\ UNCHANGED <<state, enabled, target_position, velocity, interval_steps,
                   rmt_busy, action, sent, dir_fault>>

-----------------------------------------------------------------------------
(* The surroundings: the RMT peripheral and the upstream motor task.        *)

TxDone ==
    /\ rmt_busy
    /\ rmt_busy' = FALSE /\ burst' = 0
    /\ UNCHANGED <<pc, state, enabled, position, velocity, interval_steps, inputs,
                   dir_fault>>

\* While stop_stepping blocks the executor the upstream task does not run.
MaySend ==
    /\ sent < MaxSent
    /\ pc # "stopping"
    /\ \/ Interrupt
       \/ /\ pc = "select" /\ state \notin Moving
          /\ action = NoAction /\ ~reset_requested

\* A Watch holds one value: an action not yet taken is overwritten.
SendAction(a) ==
    /\ MaySend
    /\ action' = a
    /\ sent' = sent + 1
    /\ UNCHANGED <<pc, state, enabled, position, velocity, interval_steps, rmt,
                   reset_requested, dir_fault>>

\* homing_finished stops the motor and asks for position 0 in one go.
SendHomingFinished ==
    /\ MaySend
    /\ action' = Coast
    /\ reset_requested' = TRUE
    /\ sent' = sent + 1
    /\ UNCHANGED <<pc, state, enabled, position, velocity, interval_steps, rmt,
                   dir_fault>>

Task ==
    \/ LoopHold
    \/ FinishStop
    \/ \E pin_ok \in DirPinOutcomes : LoopMove(pin_ok)
    \/ LoopIdle
    \/ Command
    \/ StepTimer
    \/ StepTimerArmError
    \/ StepTimerReached
    \/ PositionReset

Next ==
    \/ Task
    \/ TxDone
    \/ \E a \in StepperActions : SendAction(a)
    \/ SendHomingFinished

Spec == Init /\ [][Next]_vars

\* The executor polls a woken task again, stop_stepping returns at the latest
\* after its timeout, the timer and the RMT make progress
\* on their own, and arming the RMT does not fail for ever.
Fairness ==
    /\ WF_vars(LoopHold)
    /\ WF_vars(FinishStop)
    /\ \A pin_ok \in DirPinOutcomes : WF_vars(LoopMove(pin_ok))
    /\ WF_vars(LoopIdle)
    /\ WF_vars(Command)
    /\ SF_vars(StepTimer)
    /\ WF_vars(StepTimerReached)
    /\ SF_vars(PositionReset)
    /\ WF_vars(TxDone)

FairSpec == Spec /\ Fairness

-----------------------------------------------------------------------------
(* Properties.                                                             *)

\* Type invariant.
TypeOK ==
    /\ pc \in {"loop", "select", "stopping"}
    /\ state \in StepperStates
    /\ enabled \in BOOLEAN
    /\ current_position \in Int /\ target_position \in Int
    /\ current_dir \in Dirs /\ target_dir \in Dirs
    /\ current_speed \in 0 .. MAXIMUM_SPS /\ target_speed \in 0 .. MAXIMUM_SPS
    /\ ramp_state \in RampStates
    /\ interval_steps \in 0 .. LOOP_LIMIT
    /\ rmt_busy \in BOOLEAN
    /\ burst \in 0 .. LOOP_LIMIT
    /\ action \in StepperActions \union {NoAction}
    /\ reset_requested \in BOOLEAN
    /\ sent \in 0 .. MaxSent
    /\ dir_fault \in BOOLEAN

\* The ramp state always agrees with where the motor is going and has to go:
\* a motor turning the wrong way is braking (unless the direction pin could
\* not be written), one that accelerates is below its target or has just
\* turned, one that brakes in the right direction is above its target, and
\* one that cruises runs at its target speed.
\* (update_target_velocity, switch_direction and update_velocity together.)
RampConsistent ==
    state \in Moving =>
        /\ current_dir # target_dir =>
              \/ ramp_state = "Decelerating"
              \/ ramp_state = "Accelerating" /\ dir_fault
        /\ ramp_state = "Accelerating" /\ current_dir = target_dir =>
              \/ current_speed <= target_speed
              \/ current_speed <= MINIMUM_TRANSITION_SPS
        /\ ramp_state = "Decelerating" /\ current_dir = target_dir =>
              current_speed >= target_speed
        /\ ramp_state = "Cruising" => current_speed = target_speed

\* A stop that is through has left nothing the next pass could arm, whatever
\* the ramp was doing when it began: no speed, no target speed, no interval;
\* and except between the two steps of a stop the enable pin says what the
\* state machine says.  (Pulses of a burst armed before the stop may still be
\* running: see CountedStepsAreMade.)
StopLeavesNothing ==
    /\ state \notin Moving =>
          current_speed = 0 /\ target_speed = 0 /\ interval_steps = 0
    /\ pc # "stopping" => (enabled <=> state # "Coast")

\* "Tracks steps made" (low_lvl_stepper_task), "Assume we stepped N times;
\* Update position" (on_step_timer_expire): the pulses of a burst, counted when
\* it was armed, go to a driver that is energised and makes the steps.
CountedStepsAreMade == rmt_busy => enabled

\* Whenever the task waits for its step timer there is a burst to arm, and it
\* is no longer than the RMT loops: arm_n_steps never truncates it, so the
\* steps counted in current_position are the steps made.
BurstFits ==
    pc = "select" /\ state \in Moving => interval_steps \in 1 .. LOOP_LIMIT

SignedSpeed == IF current_dir = "Forward" THEN current_speed ELSE -current_speed

\* As long as the motor moves, no step of the task changes its velocity by
\* more than one ramp step; only a reversal may jump further, and then from
\* and to a speed at which the motor can reverse.
SmoothMotion ==
    [][state' \in Moving =>
          \/ Abs(SignedSpeed' - SignedSpeed) <= ACCEL_SPS_PER_INTERVAL
          \/ /\ current_dir' # current_dir
             /\ current_speed <= MINIMUM_TRANSITION_SPS
             /\ current_speed' <= MINIMUM_TRANSITION_SPS + ACCEL_SPS_PER_INTERVAL]_vars

\* Once upstream has asked a moving motor for less than the minimum speed and
\* asks for nothing else, the ramp comes down and the motor ends in Hold,
\* unless a write of the direction pin fails on the way: update_velocity then
\* accelerates in the old direction whatever the target speed.
StopCompletes ==
    (/\ sent = MaxSent /\ action = NoAction
     /\ pc # "stopping" /\ state = "Velocity" /\ target_speed = 0)
        ~> (state = "Hold" \/ dir_fault)


\* "Figure out direction to move in" (transition_to) and "Start ramping down
\* velocity to avoid overshoot" (on_step_timer_expire): when the ramp is
\* through, a position move that is not at its target is heading for it.
HeadsForTarget ==
    pc = "select" /\ state = "Position" /\ ramp_state = "Cruising" /\ ~TargetIsReached
        => (current_dir = "Forward") = (target_position > current_position)

\* switch_direction turns the pin while the burst armed one pass before may
\* still be running; its steps are counted one way already and the rest of
\* them is made the other way.  What such a reversal puts the step count wrong
\* by stays within the precision of a position move, because the direction
\* only switches at a speed whose burst is that short.  (An action taken in
\* between is a pass of its own: it brakes the ramp without waiting for the
\* burst, so the bound is about reversals the ramp makes on its own.)
ReversalKeepsCount ==
    [][current_dir' # current_dir => 2 * burst <= TARGET_REACHED_EPSILON]_vars

\* "Early stopping is out of the question, we have to finish the current TX
\* Loop" (stop_stepping): the direction pin is not switched under a burst
\* whose pulses are still being made and have been counted already.
DirStableDuringBurst == [][rmt_busy => current_dir' = current_dir]_vars
=============================================================================
