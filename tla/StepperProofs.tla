---------------------------- MODULE StepperProofs ----------------------------
(***************************************************************************)
(* Proofs about the low level stepper task, for every choice of the speed  *)
(* constants that satisfies the assumptions of Stepper.                    *)
(*                                                                         *)
(* Inv is the inductive invariant.  RampConsistent alone is inductive only *)
(* with the types; BurstFits needs the assumption on the interval          *)
(* constants, and ReversalKeepsCount the invariant SlowInv on top of it.   *)
(***************************************************************************)
EXTENDS Stepper, TLAPS

Inv ==
    /\ TypeOK
    /\ RampConsistent
    /\ StopLeavesNothing
    /\ BurstFits

\* Two speeds are as far apart in one direction as in the other.
LEMMA NegatedDistance ==
    ASSUME NEW x \in Int, NEW y \in Int
    PROVE  Abs((-x) - (-y)) = Abs(x - y)
  BY DEF Abs

\* from_velocity yields standstill or a rate the motor can run at.
LEMMA FromVelocityType ==
    ASSUME NEW v \in Int
    PROVE  FromVelocity(v) \in 0 .. MAXIMUM_SPS
  BY RampConstants DEF FromVelocity, Abs

\* Whatever the speed, set_interval_config arms at least one pulse and no more
\* than the RMT loops.
LEMMA StepsInIntervalRange ==
    ASSUME NEW sps \in Nat
    PROVE  StepsInInterval(sps) \in 1 .. LOOP_LIMIT
  <1> DEFINE rate == Clamp(sps, MINIMUM_SPS, MAXIMUM_SPS)
  <1>1. rate \in MINIMUM_SPS .. MAXIMUM_SPS
    BY RampConstants DEF Clamp
  <1> HIDE DEF rate
  <1>2. STEP_INTERVAL \div TicksPerStep(rate) \in 1 .. LOOP_LIMIT
    BY <1>1, IntervalConstants
  <1>3. APPROACHING_STEP_INTERVAL \div TicksPerStep(rate) \in 1 .. LOOP_LIMIT
    BY <1>1, IntervalConstants
  <1>4. StepsInInterval(sps) =
           (IF state = "Position" /\ TargetIsClose
            THEN APPROACHING_STEP_INTERVAL ELSE STEP_INTERVAL) \div TicksPerStep(rate)
    BY DEF StepsInInterval, rate
  <1> QED
    BY <1>2, <1>3, <1>4

\* The initial state satisfies the invariant.
LEMMA InitInv == Init => Inv
  <1> SUFFICES ASSUME Init
               PROVE  Inv
    OBVIOUS
  <1>1. action \in StepperActions
    BY DEF Init, Coast, StepperActions
  <1>2. sent \in 0 .. MaxSent /\ interval_steps \in 0 .. LOOP_LIMIT /\ burst \in 0 .. LOOP_LIMIT
    BY InputConstants, IntervalConstants DEF Init
  <1>3. current_speed \in 0 .. MAXIMUM_SPS /\ target_speed \in 0 .. MAXIMUM_SPS
    BY RampConstants DEF Init
  <1>4. TypeOK
    <2>1. current_position \in Int /\ target_position \in Int
      BY DEF Init
    <2> QED
      BY <1>1, <1>2, <1>3, <2>1, Zenon
      DEF Init, TypeOK, StepperStates, Dirs, RampStates
  <1>5. RampConsistent /\ StopLeavesNothing /\ BurstFits
    BY DEF Init, RampConsistent, StopLeavesNothing, BurstFits, Moving
  <1> QED
    BY <1>4, <1>5 DEF Inv

\* Setting the enable pin for a stop touches nothing the invariant says of
\* the ramp.
LEMMA BeginStopInv ==
    ASSUME Inv, NEW kind \in {"Coast", "Hold"}, BeginStop(kind),
           action' \in StepperActions \union {NoAction}, reset_requested' \in BOOLEAN,
           sent' \in 0 .. MaxSent
    PROVE  Inv'
  <1>1. /\ pc' = "stopping" /\ burst' = 0 /\ enabled' \in BOOLEAN
        /\ UNCHANGED <<state, current_position, target_position, current_dir,
                       target_dir, current_speed, target_speed, ramp_state,
                       interval_steps, rmt_busy, dir_fault>>
    BY DEF BeginStop, position, velocity
  <1>2. burst' \in 0 .. LOOP_LIMIT
    BY <1>1, IntervalConstants
  <1>3. TypeOK'
    BY <1>1, <1>2 DEF Inv, TypeOK
  <1>4. RampConsistent' /\ StopLeavesNothing' /\ BurstFits'
    BY <1>1 DEF Inv, RampConsistent, StopLeavesNothing, BurstFits
  <1> QED
    BY <1>3, <1>4 DEF Inv

\* The rest of the stop resets everything the invariant speaks about.
LEMMA FinishStopInv == Inv /\ FinishStop => Inv'
  <1> SUFFICES ASSUME Inv, FinishStop
               PROVE  Inv'
    OBVIOUS
  <1>1. /\ pc' = "loop" /\ state' = IF enabled THEN "Hold" ELSE "Coast"
        /\ current_speed' = 0 /\ target_speed' = 0 /\ interval_steps' = 0
        /\ ramp_state' = "Cruising" /\ dir_fault' = FALSE
        /\ UNCHANGED <<enabled, current_position, target_position, current_dir,
                       target_dir, rmt_busy, burst, action, reset_requested, sent>>
    BY DEF FinishStop, Reset, position, rmt, inputs
  <1>2. state' \in {"Coast", "Hold"} /\ enabled \in BOOLEAN
    BY <1>1 DEF Inv, TypeOK
  <1>3. interval_steps' \in 0 .. LOOP_LIMIT
    BY <1>1, IntervalConstants
  <1>4. current_speed' \in 0 .. MAXIMUM_SPS /\ target_speed' \in 0 .. MAXIMUM_SPS
    BY <1>1, RampConstants
  <1>5. TypeOK'
    BY <1>1, <1>2, <1>3, <1>4 DEF Inv, TypeOK, StepperStates, RampStates
  <1>6. RampConsistent' /\ StopLeavesNothing' /\ BurstFits'
    BY <1>1, <1>2 DEF RampConsistent, StopLeavesNothing, BurstFits, Moving
  <1> QED
    BY <1>5, <1>6 DEF Inv

\* A new target velocity leaves the ramp state consistent, whatever it was.
LEMMA UpdateTargetVelocityRamp ==
    ASSUME TypeOK, NEW v \in Int, UpdateTargetVelocity(v),
           current_dir' = current_dir, current_speed' = current_speed
    PROVE  /\ target_dir' \in Dirs
           /\ target_speed' \in 0 .. MAXIMUM_SPS
           /\ ramp_state' \in RampStates
           /\ dir_fault' \in BOOLEAN
           /\ RampConsistent'
  <1>1. target_dir' \in Dirs /\ target_speed' \in 0 .. MAXIMUM_SPS
    BY FromVelocityType DEF UpdateTargetVelocity, DirOf, Dirs, TypeOK
  <1>2. ramp_state' \in RampStates /\ dir_fault' \in BOOLEAN
    BY DEF UpdateTargetVelocity, RampTowards, RampStates
  <1>3. ramp_state' = RampTowards(target_dir', target_speed')
    BY DEF UpdateTargetVelocity
  <1>4. RampConsistent'
    BY <1>1, <1>3 DEF RampConsistent, RampTowards, TypeOK
  <1> QED
    BY <1>1, <1>2, <1>4

\* The pass of a moving motor preserves the invariant.
LEMMA LoopMoveInv ==
    ASSUME Inv, NEW pin_ok \in DirPinOutcomes, LoopMove(pin_ok)
    PROVE  Inv'
  <1> DEFINE switch == ramp_state = "Decelerating" /\ ReadyForDirectionSwitch
             dir == IF switch /\ pin_ok THEN target_dir ELSE current_dir
             ramp == IF switch THEN "Accelerating" ELSE ramp_state
  <1>0. /\ pc = "loop" /\ state \in Moving /\ pc' = "select"
        /\ current_dir' = dir /\ UpdateVelocity(dir, ramp)
        /\ dir_fault' = IF switch THEN ~pin_ok ELSE dir_fault
        /\ UNCHANGED <<state, enabled, current_position, target_position,
                       target_dir, target_speed, rmt_busy, burst, action,
                       reset_requested, sent>>
    BY DEF LoopMove, SwitchedDir, position, inputs, rmt
  <1>1. pin_ok \in BOOLEAN
    BY InputConstants
  <1>2. dir \in Dirs /\ ramp \in RampStates
    BY DEF Inv, TypeOK, RampStates
  <1>3. current_speed' \in 0 .. MAXIMUM_SPS /\ ramp_state' \in RampStates
    BY <1>0, <1>2, RampConstants
    DEF UpdateVelocity, Ramped, Clamp, SaturatingSub, RampStates, Inv, TypeOK
  <1>4. interval_steps' \in 1 .. LOOP_LIMIT
    BY <1>0, <1>3, StepsInIntervalRange DEF UpdateVelocity
  <1>5. TypeOK'
    <2>1. dir_fault' \in BOOLEAN
      BY <1>0, <1>1 DEF Inv, TypeOK
    <2>2. interval_steps' \in 0 .. LOOP_LIMIT
      BY <1>4, IntervalConstants
    <2> QED
      BY <1>0, <1>2, <1>3, <2>1, <2>2 DEF Inv, TypeOK
  <1>6. RampConsistent'
    <2>1. CASE switch
      <3>1. /\ ramp = "Accelerating"
            /\ current_dir # target_dir
            /\ current_speed <= MINIMUM_TRANSITION_SPS
        BY <2>1 DEF ReadyForDirectionSwitch
      <3>2. CASE pin_ok
        BY <1>0, <2>1, <3>1, <3>2, RampConstants
        DEF UpdateVelocity, WithinSingleRampInterval, Ramped, Clamp, SaturatingSub,
            RampConsistent, Inv, TypeOK
      <3>3. CASE ~pin_ok
        BY <1>0, <2>1, <3>1, <3>3, RampConstants
        DEF UpdateVelocity, WithinSingleRampInterval, Ramped, Clamp, SaturatingSub,
            RampConsistent, Inv, TypeOK
      <3> QED
        BY <3>2, <3>3
    <2>2. CASE ~switch
      <3>1. /\ ramp = ramp_state /\ dir = current_dir
            /\ current_dir' = current_dir /\ dir_fault' = dir_fault
        BY <1>0, <2>2
      <3>2. CASE current_dir = target_dir
        BY <1>0, <3>1, <3>2, RampConstants
        DEF UpdateVelocity, WithinSingleRampInterval, Ramped, Clamp, SaturatingSub,
            RampConsistent, Inv, TypeOK, RampStates
      <3>3. CASE current_dir # target_dir
        BY <1>0, <3>1, <3>3, RampConstants
        DEF UpdateVelocity, WithinSingleRampInterval, Ramped, Clamp, SaturatingSub,
            RampConsistent, Inv, TypeOK, RampStates
      <3> QED
        BY <3>2, <3>3
    <2> QED
      BY <2>1, <2>2
  <1>7. StopLeavesNothing' /\ BurstFits'
    BY <1>0, <1>4 DEF Inv, StopLeavesNothing, BurstFits
  <1> QED
    BY <1>5, <1>6, <1>7 DEF Inv

\* What the upstream task sends has integers where a move needs them.
LEMMA MoveArguments ==
    ASSUME NEW a \in StepperActions
    PROVE  /\ a.kind = "MoveVelocity" => a.speed \in Int
           /\ a.kind = "MovePosition" => a.speed \in Int /\ a.target \in Int
  <1>1. CASE a \in [kind: {"Coast", "Hold"}]
    BY <1>1
  <1>2. CASE a \in [kind: {"MoveVelocity"}, speed: Velocities]
    BY <1>2, InputConstants
  <1>3. ASSUME NEW m \in PositionMoves,
               a = [kind |-> "MovePosition", speed |-> m.speed, target |-> m.target]
        PROVE  a.kind = "MovePosition" /\ a.speed \in Int /\ a.target \in Int
    <2>1. m \in [speed: Int, target: Int]
      BY InputConstants
    <2> QED
      BY <1>3, <2>1
  <1> QED
    BY <1>1, <1>2, <1>3 DEF StepperActions

\* Taking an action from the watch preserves the invariant.
LEMMA CommandInv == Inv /\ Command => Inv'
  <1> SUFFICES ASSUME Inv, Command
               PROVE  Inv'
    OBVIOUS
  <1>0. /\ action' = NoAction
        /\ reset_requested' = reset_requested /\ sent' = sent
        /\ action \in StepperActions
        /\ TransitionTo(action)
    BY DEF Command, Inv, TypeOK
  <1>1. CASE action.kind \in {"Coast", "Hold"} /\ BeginStop(action.kind)
    BY <1>0, <1>1, BeginStopInv DEF Inv, TypeOK
  <1>2. CASE action.kind = "MoveVelocity" /\ MoveVelocity(action.speed) /\ pc' = "loop"
    <2>1. action.speed \in Int
      BY <1>0, <1>2, MoveArguments
    <2>2. /\ state' = "Velocity" /\ enabled' = TRUE /\ burst' = 0
          /\ UpdateTargetVelocity(action.speed)
          /\ UNCHANGED <<current_dir, current_speed, current_position,
                         target_position, interval_steps, rmt_busy>>
      BY <1>2 DEF MoveVelocity, position
    <2>3. /\ target_dir' \in Dirs /\ target_speed' \in 0 .. MAXIMUM_SPS
          /\ ramp_state' \in RampStates /\ dir_fault' \in BOOLEAN
          /\ RampConsistent'
      BY <2>1, <2>2, UpdateTargetVelocityRamp DEF Inv
    <2> QED
      BY <1>0, <1>2, <2>2, <2>3, IntervalConstants
      DEF Inv, TypeOK, StopLeavesNothing, BurstFits, Moving, StepperStates
  <1>3. CASE /\ action.kind = "MovePosition"
             /\ MovePosition(action.target, action.speed) /\ pc' = "loop"
    <2>1. action.speed \in Int /\ action.target \in Int
      BY <1>0, <1>3, MoveArguments
    <2> DEFINE v == IF action.target <= current_position
                    THEN -Abs(action.speed) ELSE Abs(action.speed)
    <2>2. /\ state' = "Position" /\ enabled' = TRUE /\ burst' = 0
          /\ UpdateTargetVelocity(v)
          /\ target_position' = action.target
          /\ UNCHANGED <<current_dir, current_speed, current_position,
                         interval_steps, rmt_busy>>
      BY <1>3 DEF MovePosition
    <2>3. v \in Int
      BY <2>1 DEF Abs
    <2> HIDE DEF v
    <2>4. /\ target_dir' \in Dirs /\ target_speed' \in 0 .. MAXIMUM_SPS
          /\ ramp_state' \in RampStates /\ dir_fault' \in BOOLEAN
          /\ RampConsistent'
      BY <2>2, <2>3, UpdateTargetVelocityRamp DEF Inv
    <2> QED
      BY <1>0, <1>3, <2>1, <2>2, <2>4, IntervalConstants
      DEF Inv, TypeOK, StopLeavesNothing, BurstFits, Moving, StepperStates
  <1> QED
    BY <1>0, <1>1, <1>2, <1>3 DEF TransitionTo

\* Arming a burst, with the braking decision of position mode, preserves the
\* invariant.
LEMMA StepTimerInv == Inv /\ StepTimer => Inv'
  <1> SUFFICES ASSUME Inv, StepTimer
               PROVE  Inv'
    OBVIOUS
  <1>0. /\ pc = "select" /\ state \in Moving /\ pc' = "loop" /\ rmt_busy' = TRUE
        /\ burst' = interval_steps
        /\ current_position' = StepBurst
        /\ UNCHANGED <<state, enabled, target_position, current_dir, current_speed,
                       interval_steps, action, reset_requested, sent>>
    BY DEF StepTimer, TimerExpires, inputs
  <1>1. StepBurst \in Int
    <2>1. current_position \in Int /\ interval_steps \in Int
      BY DEF Inv, TypeOK
    <2> QED
      BY <2>1 DEF StepBurst
  <1>2. /\ target_dir' \in Dirs /\ target_speed' \in 0 .. MAXIMUM_SPS
        /\ ramp_state' \in RampStates /\ dir_fault' \in BOOLEAN
        /\ RampConsistent'
    <2>1. CASE UpdateTargetVelocity(0)
      BY <1>0, <2>1, UpdateTargetVelocityRamp DEF Inv
    <2>2. CASE UNCHANGED <<target_dir, target_speed, ramp_state, dir_fault>>
      BY <1>0, <2>2 DEF Inv, TypeOK, RampConsistent
    <2> QED
      BY <2>1, <2>2 DEF StepTimer
  <1> QED
    BY <1>0, <1>1, <1>2 DEF Inv, TypeOK, StopLeavesNothing, BurstFits

\* Every step preserves the invariant.
LEMMA NextInv == Inv /\ [Next]_vars => Inv'
  <1> SUFFICES ASSUME Inv, [Next]_vars
               PROVE  Inv'
    OBVIOUS
  <1> USE DEF position, velocity, inputs, rmt
  <1>1. CASE LoopHold
    <2>1. BeginStop("Hold") /\ UNCHANGED <<action, reset_requested, sent>>
      BY <1>1 DEF LoopHold
    <2>2. /\ action' \in StepperActions \union {NoAction}
          /\ reset_requested' \in BOOLEAN /\ sent' \in 0 .. MaxSent
      BY <2>1 DEF Inv, TypeOK
    <2> QED
      BY <2>1, <2>2, BeginStopInv
  <1>2. CASE \E pin_ok \in DirPinOutcomes : LoopMove(pin_ok)
    BY <1>2, LoopMoveInv
  <1>3. CASE LoopIdle
    BY <1>3 DEF LoopIdle, Inv, TypeOK, RampConsistent, StopLeavesNothing, BurstFits
  <1>4. CASE Command
    BY <1>4, CommandInv
  <1>5. CASE StepTimer
    BY <1>5, StepTimerInv
  <1>6. CASE StepTimerArmError
    BY <1>6 DEF StepTimerArmError, TimerExpires, Inv, TypeOK, RampConsistent,
                StopLeavesNothing, BurstFits
  <1>7. CASE StepTimerReached
    <2>1. BeginStop("Hold") /\ UNCHANGED <<action, reset_requested, sent>>
      BY <1>7 DEF StepTimerReached
    <2>2. /\ action' \in StepperActions \union {NoAction}
          /\ reset_requested' \in BOOLEAN /\ sent' \in 0 .. MaxSent
      BY <2>1 DEF Inv, TypeOK
    <2> QED
      BY <2>1, <2>2, BeginStopInv
  <1>8. CASE PositionReset
    <2>0. reset_requested' = FALSE
      BY <1>8 DEF PositionReset
    <2>1. current_position' = 0
      BY <1>8 DEF PositionReset
    <2>2. TypeOK'
      <3>1. current_position' \in Int
        BY <2>1
      <3>2. UNCHANGED <<state, enabled, target_position, current_dir, target_dir,
                        current_speed, target_speed, ramp_state, interval_steps,
                        rmt_busy, action, sent, dir_fault>>
        BY <1>8 DEF PositionReset
      <3>3. pc' = "loop"
        BY <1>8 DEF PositionReset
      <3>4. burst' \in 0 .. LOOP_LIMIT
        BY <1>8, IntervalConstants DEF PositionReset
      <3> QED
        BY <2>0, <3>1, <3>2, <3>3, <3>4, Zenon DEF Inv, TypeOK
    <2>3. RampConsistent' /\ StopLeavesNothing' /\ BurstFits'
      BY <1>8 DEF PositionReset, Inv, RampConsistent, StopLeavesNothing, BurstFits
    <2> QED
      BY <2>2, <2>3 DEF Inv
  <1>9. CASE TxDone
    <2>0. burst' = 0 /\ rmt_busy' = FALSE
      BY <1>9 DEF TxDone
    <2>1. burst' \in 0 .. LOOP_LIMIT
      BY <2>0, IntervalConstants
    <2>2. UNCHANGED <<pc, state, enabled, position, velocity, interval_steps, inputs,
                      dir_fault>>
      BY <1>9 DEF TxDone
    <2>3. TypeOK'
      BY <2>0, <2>1, <2>2 DEF Inv, TypeOK
    <2>4. RampConsistent' /\ StopLeavesNothing' /\ BurstFits'
      BY <1>9 DEF TxDone, Inv, RampConsistent, StopLeavesNothing, BurstFits
    <2> QED
      BY <2>3, <2>4 DEF Inv
  <1>10. CASE \E a \in StepperActions : SendAction(a)
    BY <1>10, InputConstants
    DEF SendAction, MaySend, Inv, TypeOK, RampConsistent, StopLeavesNothing, BurstFits
  <1>11. CASE SendHomingFinished
    BY <1>11, InputConstants
    DEF SendHomingFinished, MaySend, Coast, StepperActions, Inv, TypeOK,
        RampConsistent, StopLeavesNothing, BurstFits
  <1>12. CASE UNCHANGED vars
    BY <1>12 DEF vars, Inv, TypeOK, RampConsistent, StopLeavesNothing, BurstFits
  <1> QED
    BY <1>1, <1>2, <1>3, <1>4, <1>5, <1>6, <1>7, <1>8, <1>9, <1>10, <1>11, <1>12,
       FinishStopInv
    DEF Next, Task

\* The inductive invariant holds throughout.
THEOREM Invariance == Spec => []Inv
  BY InitInv, NextInv, PTL DEF Spec

\* Type correctness of the stepper task.
THEOREM TypeCorrect == Spec => []TypeOK
  <1>1. Inv => TypeOK
    BY DEF Inv
  <1> QED
    BY <1>1, Invariance, PTL

\* The ramp state agrees with the speeds and directions for every choice of
\* the ramp constants with MINIMUM_SPS and MINIMUM_TRANSITION_SPS no larger
\* than a ramp step.
THEOREM RampIsConsistent == Spec => []RampConsistent
  <1>1. Inv => RampConsistent
    BY DEF Inv
  <1> QED
    BY <1>1, Invariance, PTL

\* Whatever the ramp was doing, a stop leaves nothing to arm, and the enable
\* pin agrees with the state except in the middle of a stop.
THEOREM StopsLeaveNothing == Spec => []StopLeavesNothing
  <1>1. Inv => StopLeavesNothing
    BY DEF Inv
  <1> QED
    BY <1>1, Invariance, PTL

\* One step of a motor that goes on moving changes its velocity by at most a
\* ramp step, or reverses it at a speed at which the motor can reverse.
LEMMA SmoothStep ==
    ASSUME Inv, [Next]_vars, state' \in Moving
    PROVE  \/ Abs(SignedSpeed' - SignedSpeed) <= ACCEL_SPS_PER_INTERVAL
           \/ /\ current_dir' # current_dir
              /\ current_speed <= MINIMUM_TRANSITION_SPS
              /\ current_speed' <= MINIMUM_TRANSITION_SPS + ACCEL_SPS_PER_INTERVAL
  <1> USE DEF position, velocity, inputs, rmt
  <1>1. CASE current_speed' = current_speed /\ current_dir' = current_dir
    BY <1>1, RampConstants DEF SignedSpeed, Abs, Inv, TypeOK
  <1>2. ASSUME NEW pin_ok \in DirPinOutcomes, LoopMove(pin_ok)
        PROVE  \/ Abs(SignedSpeed' - SignedSpeed) <= ACCEL_SPS_PER_INTERVAL
               \/ /\ current_dir' # current_dir
                  /\ current_speed <= MINIMUM_TRANSITION_SPS
                  /\ current_speed' <= MINIMUM_TRANSITION_SPS + ACCEL_SPS_PER_INTERVAL
    <2> DEFINE switch == ramp_state = "Decelerating" /\ ReadyForDirectionSwitch
               dir == IF switch /\ pin_ok THEN target_dir ELSE current_dir
               ramp == IF switch THEN "Accelerating" ELSE ramp_state
    <2>0. /\ state \in Moving
          /\ current_dir' = dir /\ UpdateVelocity(dir, ramp)
          /\ target_dir' = target_dir /\ target_speed' = target_speed
      BY <1>2 DEF LoopMove, SwitchedDir
    <2>1. CASE switch
      <3>1. /\ ramp = "Accelerating"
            /\ current_dir # target_dir
            /\ current_speed <= MINIMUM_TRANSITION_SPS
        BY <2>1 DEF ReadyForDirectionSwitch
      <3>2. current_speed' <= MINIMUM_TRANSITION_SPS + ACCEL_SPS_PER_INTERVAL
        BY <2>0, <3>1, RampConstants
        DEF UpdateVelocity, WithinSingleRampInterval, Ramped, Clamp, Inv, TypeOK
      <3>3. CASE pin_ok
        BY <2>0, <2>1, <3>1, <3>2, <3>3
      <3>4. CASE ~pin_ok
        <4>1. current_dir' = current_dir
          BY <2>0, <3>4
        <4>2. current_speed' = Clamp(current_speed + ACCEL_SPS_PER_INTERVAL,
                                     MINIMUM_SPS, MAXIMUM_SPS)
          BY <2>0, <3>1, <3>4 DEF UpdateVelocity, Ramped
        <4> QED
          BY <4>1, <4>2, RampConstants DEF Clamp, SignedSpeed, Abs, Inv, TypeOK
      <3> QED
        BY <3>3, <3>4
    <2>2. CASE ~switch
      <3>1. ramp = ramp_state /\ dir = current_dir /\ current_dir' = current_dir
        BY <2>0, <2>2
      <3>2. Abs(current_speed' - current_speed) <= ACCEL_SPS_PER_INTERVAL
        BY <2>0, <3>1, RampConstants
        DEF UpdateVelocity, WithinSingleRampInterval, Ramped, Clamp, SaturatingSub,
            Abs, RampConsistent, Inv, TypeOK, RampStates
      <3>3. current_speed' \in Int /\ current_speed \in Int
        BY <1>2, LoopMoveInv DEF Inv, TypeOK
      <3>4. current_dir' = current_dir
        BY <3>1
      <3> HIDE DEF switch, dir, ramp
      <3>5. CASE current_dir = "Forward"
        BY <3>2, <3>3, <3>4, <3>5, RampConstants DEF SignedSpeed, Abs
      <3>6. CASE current_dir # "Forward"
        <4>1. SignedSpeed = -current_speed /\ SignedSpeed' = -current_speed'
          BY <3>4, <3>6 DEF SignedSpeed
        <4>2. Abs(SignedSpeed' - SignedSpeed) = Abs((-current_speed') - (-current_speed))
          BY <4>1
        <4>3. Abs(SignedSpeed' - SignedSpeed) = Abs(current_speed' - current_speed)
          BY <3>3, <4>2, NegatedDistance
        <4> QED
          BY <3>2, <4>3
      <3> QED
        BY <3>5, <3>6
    <2> QED
      BY <2>1, <2>2
  <1>3. CASE \E pin_ok \in DirPinOutcomes : LoopMove(pin_ok)
    BY <1>2, <1>3
  <1>4. CASE Command
    BY <1>1, <1>4 DEF Command, TransitionTo, BeginStop, MoveVelocity, MovePosition
  <1>5. CASE FinishStop
    BY <1>5 DEF FinishStop, Moving
  <1>6. CASE \/ LoopHold \/ LoopIdle \/ StepTimer \/ StepTimerArmError
             \/ StepTimerReached \/ PositionReset \/ TxDone
    BY <1>1, <1>6 DEF LoopHold, LoopIdle, StepTimer, StepTimerArmError,
                      StepTimerReached, BeginStop, PositionReset, TxDone
  <1>7. CASE \/ \E a \in StepperActions : SendAction(a)
             \/ SendHomingFinished
             \/ UNCHANGED vars
    BY <1>1, <1>7 DEF SendAction, SendHomingFinished, vars
  <1> QED
    BY <1>3, <1>4, <1>5, <1>6, <1>7 DEF Next, Task

\* The velocity of a moving motor is slew limited in every behaviour.
THEOREM MotionIsSmooth == Spec => SmoothMotion
  <1>1. Inv /\ [Next]_vars =>
           [state' \in Moving =>
              \/ Abs(SignedSpeed' - SignedSpeed) <= ACCEL_SPS_PER_INTERVAL
              \/ /\ current_dir' # current_dir
                 /\ current_speed <= MINIMUM_TRANSITION_SPS
                 /\ current_speed' <= MINIMUM_TRANSITION_SPS + ACCEL_SPS_PER_INTERVAL]_vars
    BY SmoothStep
  <1> QED
    BY <1>1, Invariance, PTL DEF Spec, SmoothMotion

\* Why a reversal finds a short burst running: what is armed at a speed at
\* which direction may switch is short, and the pass after the arming still has
\* that speed.
SlowInv ==
    /\ burst # 0 => rmt_busy
    /\ pc = "select" /\ state \in Moving /\ current_speed <= MINIMUM_TRANSITION_SPS =>
          2 * interval_steps <= TARGET_REACHED_EPSILON
    /\ pc = "loop" /\ current_speed <= MINIMUM_TRANSITION_SPS =>
          2 * burst <= TARGET_REACHED_EPSILON
    /\ pc = "stopping" => burst = 0

\* At a speed at which direction may switch, set_interval_config yields a short
\* burst.
LEMMA SlowStepsInInterval ==
    ASSUME NEW sps \in Nat, sps <= MINIMUM_TRANSITION_SPS
    PROVE  2 * StepsInInterval(sps) <= TARGET_REACHED_EPSILON
  <1> DEFINE rate == Clamp(sps, MINIMUM_SPS, MAXIMUM_SPS)
  <1>1. rate \in MINIMUM_SPS .. MINIMUM_TRANSITION_SPS
    BY RampConstants, ReversalConstants DEF Clamp
  <1> HIDE DEF rate
  <1>2. /\ 2 * (STEP_INTERVAL \div TicksPerStep(rate)) <= TARGET_REACHED_EPSILON
        /\ 2 * (APPROACHING_STEP_INTERVAL \div TicksPerStep(rate))
              <= TARGET_REACHED_EPSILON
    BY <1>1, ReversalConstants
  <1>3. StepsInInterval(sps) =
           (IF state = "Position" /\ TargetIsClose
            THEN APPROACHING_STEP_INTERVAL ELSE STEP_INTERVAL) \div TicksPerStep(rate)
    BY DEF StepsInInterval, rate
  <1>4. CASE state = "Position" /\ TargetIsClose
    <2>1. StepsInInterval(sps) = APPROACHING_STEP_INTERVAL \div TicksPerStep(rate)
      BY <1>3, <1>4
    <2> QED
      BY <1>2, <2>1
  <1>5. CASE ~(state = "Position" /\ TargetIsClose)
    <2>1. StepsInInterval(sps) = STEP_INTERVAL \div TicksPerStep(rate)
      BY <1>3, <1>5
    <2> QED
      BY <1>2, <2>1
  <1> QED
    BY <1>4, <1>5

\* A stop forgets the burst; it is no longer one the task has just armed.
LEMMA BeginStopSlowInv ==
    ASSUME NEW kind \in {"Coast", "Hold"}, BeginStop(kind)
    PROVE  SlowInv'
  <1>1. pc' = "stopping" /\ burst' = 0
    BY DEF BeginStop
  <1> QED
    BY <1>1 DEF SlowInv

\* The reason is inductive.
LEMMA NextSlowInv == Inv /\ SlowInv /\ [Next]_vars => SlowInv'
  <1> SUFFICES ASSUME Inv, SlowInv, [Next]_vars
               PROVE  SlowInv'
    OBVIOUS
  <1> USE DEF position, velocity, inputs, rmt
  <1>1. CASE LoopHold \/ StepTimerReached
    BY <1>1, BeginStopSlowInv DEF LoopHold, StepTimerReached
  <1>2. ASSUME NEW pin_ok \in DirPinOutcomes, LoopMove(pin_ok)
        PROVE  SlowInv'
    <2>1. /\ pc' = "select" /\ burst' = burst /\ rmt_busy' = rmt_busy
          /\ interval_steps' = StepsInInterval(current_speed')
      BY <1>2 DEF LoopMove, UpdateVelocity
    <2>2. current_speed' \in Nat
      BY <1>2, LoopMoveInv, RampConstants DEF Inv, TypeOK
    <2>3. current_speed' <= MINIMUM_TRANSITION_SPS =>
             2 * interval_steps' <= TARGET_REACHED_EPSILON
      BY <2>1, <2>2, SlowStepsInInterval
    <2> QED
      BY <2>1, <2>3 DEF SlowInv
  <1>3. CASE LoopIdle
    BY <1>3 DEF LoopIdle, SlowInv
  <1>4. CASE Command
    <2>1. pc' \in {"loop", "stopping"} /\ burst' = 0
      BY <1>4 DEF Command, TransitionTo, BeginStop, MoveVelocity, MovePosition
    <2> QED
      BY <2>1, InputConstants DEF SlowInv
  <1>5. CASE StepTimer
    <2>1. /\ pc = "select" /\ state \in Moving /\ pc' = "loop"
          /\ rmt_busy' = TRUE /\ burst' = interval_steps
          /\ current_speed' = current_speed
      BY <1>5 DEF StepTimer, TimerExpires
    <2> QED
      BY <2>1 DEF SlowInv
  <1>6. CASE StepTimerArmError
    <2>1. burst = 0
      BY <1>6 DEF StepTimerArmError, TimerExpires, SlowInv
    <2>2. pc' = "loop" /\ burst' = 0
      BY <1>6, <2>1 DEF StepTimerArmError
    <2> QED
      BY <2>2, InputConstants DEF SlowInv
  <1>7. CASE PositionReset
    <2>1. pc' = "loop" /\ burst' = 0
      BY <1>7 DEF PositionReset
    <2> QED
      BY <2>1, InputConstants DEF SlowInv
  <1>8. CASE TxDone
    <2>1. burst' = 0 /\ UNCHANGED <<pc, state, current_speed, interval_steps>>
      BY <1>8 DEF TxDone
    <2> QED
      BY <2>1, InputConstants DEF SlowInv
  <1>9. CASE \/ \E a \in StepperActions : SendAction(a)
             \/ SendHomingFinished
             \/ UNCHANGED vars
    BY <1>9 DEF SendAction, SendHomingFinished, vars, SlowInv
  <1>10. CASE FinishStop
    <2>1. pc' = "loop" /\ burst' = 0 /\ rmt_busy' = rmt_busy
      BY <1>10 DEF FinishStop, SlowInv
    <2> QED
      BY <2>1, InputConstants DEF SlowInv
  <1> QED
    BY <1>1, <1>2, <1>3, <1>4, <1>5, <1>6, <1>7, <1>8, <1>9, <1>10 DEF Next, Task

\* Only the pass of a moving motor turns it, and only when it is slow.
LEMMA ReversalStep ==
    ASSUME Inv, SlowInv, [Next]_vars, current_dir' # current_dir
    PROVE  2 * burst <= TARGET_REACHED_EPSILON
  <1> USE DEF position, velocity, inputs, rmt
  <1>1. PICK pin_ok \in DirPinOutcomes : LoopMove(pin_ok)
    BY DEF Next, Task, LoopHold, FinishStop, LoopIdle, Command, TransitionTo,
           BeginStop, MoveVelocity, MovePosition, StepTimer, StepTimerArmError,
           StepTimerReached,
           PositionReset, TxDone, SendAction, SendHomingFinished, vars
  <1>2. pc = "loop" /\ current_speed <= MINIMUM_TRANSITION_SPS
    BY <1>1 DEF LoopMove, ReadyForDirectionSwitch
  <1> QED
    BY <1>2 DEF SlowInv

\* A reversal the ramp makes on its own puts the step count wrong by no more
\* than the precision of a position move, for every choice of the constants
\* under which the burst of the transition speed is that short.
THEOREM ReversalsKeepCount == Spec => ReversalKeepsCount
  <1>1. Init => SlowInv
    BY InputConstants DEF Init, SlowInv, Moving
  <1>2. Inv /\ SlowInv /\ [Next]_vars =>
           [current_dir' # current_dir => 2 * burst <= TARGET_REACHED_EPSILON]_vars
    BY ReversalStep
  <1> QED
    BY <1>1, <1>2, Invariance, NextSlowInv, PTL DEF Spec, ReversalKeepsCount

\* Every burst the timer arms has a pulse in it and is not truncated.
THEOREM BurstsFit == Spec => []BurstFits
  <1>1. Inv => BurstFits
    BY DEF Inv
  <1> QED
    BY <1>1, Invariance, PTL
=============================================================================
