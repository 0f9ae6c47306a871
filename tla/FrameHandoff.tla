---------------------------- MODULE FrameHandoff -----------------------------
(***************************************************************************)
(* The life of a camera frame.  The camera task (core 1) takes a           *)
(* framebuffer from the driver, lends it to the control loop and the web   *)
(* server through two watches, waits for FRAME_DONE_SIGNAL and returns it; *)
(* from then on the driver overwrites it.  The control loop (core 0) reads *)
(* it in vision mode and only signals in manual mode.                      *)
(***************************************************************************)
EXTENDS Naturals

CONSTANTS
    Modes,            \* control modes the base station may ask for
    ControlTask,      \* FALSE in the build with feature "streaming"
    GENERATIONS       \* the generation counter wraps here (u32 in the code)

ASSUME HandoffConstants ==
    /\ Modes \subseteq {"Manual", "Vision"}
    /\ ControlTask \in BOOLEAN
    /\ GENERATIONS \in Nat \ {0, 1}

None == GENERATIONS

VARIABLES
    \* camera task
    camera_pc,         \* the statement of the loop it is at
    generation,        \* generation of the frame it has, or had last
    lent,              \* the driver's framebuffer is not yet returned
    \* shared
    done,              \* FRAME_DONE_SIGNAL
    control_watch,     \* FRAMEBUFFER_CONTROL_LOOP_CHANNEL: a generation or None
    control_new,       \* its value has not been seen by the control loop
    web_watch,         \* FRAMEBUFFER_WEBSERVER_CHANNEL
    web_new,
    \* control loop
    control_pc, latest_mode,
    frame,             \* frame the control loop reads, or None
    setpoint_mode,     \* mode in the latest setpoint of the base station
    \* web server
    web_frame,         \* frame the request handler reads, or None
    \* history
    processed,         \* generation the control loop processed last
    late,              \* the frame it reads had been released before it was taken
    unread             \* the signal was given by a pass that did not read the frame lent

camera == <<camera_pc, generation, lent>>
channels == <<control_watch, control_new, web_watch, web_new>>
history == <<processed, late, unread>>
control == <<control_pc, latest_mode, frame, history>>
vars == <<camera, done, channels, control, setpoint_mode, web_frame>>

-----------------------------------------------------------------------------
(* The camera task.                                                        *)

\* Mutant: the counter is not wrapped.
NextGenerationUnwrapped(g) == g + 1

NextGeneration(g) == (g + 1) % GENERATIONS

Capture ==
    /\ camera_pc = "capture"
    /\ generation' = NextGeneration(generation)
    /\ lent' = TRUE
    /\ camera_pc' = "reset"
    /\ UNCHANGED <<done, channels, control, setpoint_mode, web_frame>>

\* esp_camera_fb_get returned null: try again at the next period.
CaptureFails ==
    /\ camera_pc = "capture"
    /\ UNCHANGED vars

\* Mutant: the signal left over from the last frame is kept.
ResetForgotten ==
    /\ camera_pc = "reset"
    /\ unread' = FALSE
    /\ camera_pc' = "publish"
    /\ UNCHANGED <<generation, lent, done, channels, control_pc, latest_mode, frame,
                   processed, late, setpoint_mode, web_frame>>

ResetSignal ==
    /\ camera_pc = "reset"
    /\ done' = FALSE /\ unread' = FALSE
    /\ camera_pc' = "publish"
    /\ UNCHANGED <<generation, lent, channels, control_pc, latest_mode, frame, processed,
                   late, setpoint_mode, web_frame>>

Publish ==
    /\ camera_pc = "publish"
    /\ control_watch' = generation /\ control_new' = TRUE
    /\ camera_pc' = "publish_web"
    /\ UNCHANGED <<generation, lent, done, web_watch, web_new, control, setpoint_mode,
                   web_frame>>

\* Mutant: the signal is reset when the frame has been sent.
PublishWebThenReset ==
    /\ camera_pc = "publish_web"
    /\ web_watch' = generation /\ web_new' = TRUE
    /\ done' = FALSE
    /\ camera_pc' = "wait"
    /\ UNCHANGED <<generation, lent, control_watch, control_new, control,
                   setpoint_mode, web_frame>>

PublishWeb ==
    /\ camera_pc = "publish_web"
    /\ web_watch' = generation /\ web_new' = TRUE
    /\ camera_pc' = "wait"
    /\ UNCHANGED <<generation, lent, done, control_watch, control_new, control,
                   setpoint_mode, web_frame>>

\* The signal is polled, not consumed.
WaitDone ==
    /\ camera_pc = "wait" /\ done
    /\ camera_pc' = "clear_web"
    /\ UNCHANGED <<generation, lent, done, channels, control, setpoint_mode, web_frame>>

\* Clearing a watch drops its value and leaves its change counter alone.
ClearWeb ==
    /\ camera_pc = "clear_web"
    /\ web_watch' = None
    /\ camera_pc' = "clear"
    /\ UNCHANGED <<generation, lent, done, control_watch, control_new, web_new, control,
                   setpoint_mode, web_frame>>

Clear ==
    /\ camera_pc = "clear"
    /\ control_watch' = None
    /\ camera_pc' = "return"
    /\ UNCHANGED <<generation, lent, done, control_new, web_watch, web_new, control,
                   setpoint_mode, web_frame>>

\* return_to_driver, whoever still holds a clone; then wait for the period.
ReturnToDriver ==
    /\ camera_pc = "return"
    /\ lent' = FALSE
    /\ camera_pc' = "capture"
    /\ UNCHANGED <<generation, done, channels, control, setpoint_mode, web_frame>>

-----------------------------------------------------------------------------
(* The control loop.                                                       *)

\* The main loop starts when the axis is homed.
Homed ==
    /\ control_pc = "startup" /\ ControlTask
    /\ control_pc' = "top"
    /\ UNCHANGED <<camera, done, channels, latest_mode, frame, history, setpoint_mode,
                   web_frame>>

FetchSetpoint ==
    /\ control_pc = "top"
    /\ latest_mode' = setpoint_mode
    /\ control_pc' = IF setpoint_mode = "Vision" THEN "await" ELSE "release"
    /\ UNCHANGED <<camera, done, channels, frame, history, setpoint_mode, web_frame>>

\* Mutant: the frame is released when it is taken.
TakeFrameReleases ==
    /\ control_pc = "await"
    /\ control_new /\ control_watch # None
    /\ control_new' = FALSE
    /\ frame' = control_watch /\ late' = done
    /\ done' = TRUE /\ processed' = control_watch
    /\ control_pc' = "process"
    /\ UNCHANGED <<camera, control_watch, web_watch, web_new, latest_mode, unread,
                   setpoint_mode, web_frame>>

\* framebuffer_rx.changed(): a value that is new and has not been cleared.
TakeFrame ==
    /\ control_pc = "await"
    /\ control_new /\ control_watch # None
    /\ control_new' = FALSE
    /\ frame' = control_watch /\ late' = done
    /\ control_pc' = "process"
    /\ UNCHANGED <<camera, done, control_watch, web_watch, web_new, latest_mode,
                   processed, unread, setpoint_mode, web_frame>>

FrameDone ==
    /\ control_pc = "process"
    /\ done' = TRUE
    /\ processed' = frame /\ unread' = (unread \/ late) /\ late' = FALSE
    /\ frame' = None
    /\ control_pc' = "tick"
    /\ UNCHANGED <<camera, channels, latest_mode, setpoint_mode, web_frame>>

\* Mutant: manual mode does not release the frame.
ManualKeepsFrame ==
    /\ control_pc = "release"
    /\ control_pc' = "tick"
    /\ UNCHANGED <<camera, done, channels, latest_mode, frame, history, setpoint_mode,
                   web_frame>>

\* "Manual mode doesn't use the camera frame, release framebuffer immediately".
ManualRelease ==
    /\ control_pc = "release"
    /\ done' = TRUE /\ unread' = TRUE
    /\ control_pc' = "tick"
    /\ UNCHANGED <<camera, channels, latest_mode, frame, processed, late, setpoint_mode,
                   web_frame>>

\* The ticker catches up: after a slow pass the next one follows at once.
Tick ==
    /\ control_pc = "tick"
    /\ control_pc' = "top"
    /\ UNCHANGED <<camera, done, channels, latest_mode, frame, history, setpoint_mode,
                   web_frame>>

-----------------------------------------------------------------------------
(* Base station and web server.                                            *)

NewSetpoint(m) ==
    /\ setpoint_mode' = m
    /\ UNCHANGED <<camera, done, channels, control, web_frame>>

\* The handler of GET /camera polls its watch; a value that was cleared is
\* marked as seen all the same.
WebPoll ==
    /\ web_frame = None /\ web_new
    /\ web_new' = FALSE
    /\ web_frame' = web_watch
    /\ UNCHANGED <<camera, done, control_watch, control_new, web_watch, control,
                   setpoint_mode>>

\* The next request makes a receiver of its own, to which the value that is
\* there, or was there, is new.
WebDone ==
    /\ web_frame # None
    /\ web_frame' = None
    /\ web_new' = TRUE
    /\ UNCHANGED <<camera, done, control_watch, control_new, web_watch, control,
                   setpoint_mode>>

-----------------------------------------------------------------------------

Init ==
    /\ camera_pc = "capture" /\ generation = 0 /\ lent = FALSE
    /\ done = FALSE
    /\ control_watch = None /\ control_new = FALSE
    /\ web_watch = None /\ web_new = FALSE
    /\ control_pc = "startup" /\ latest_mode = "Manual" /\ frame = None
    /\ setpoint_mode = "Manual"
    /\ web_frame = None
    /\ processed = None /\ late = FALSE /\ unread = FALSE

CameraStep ==
    \/ Capture \/ CaptureFails \/ ResetSignal \/ Publish \/ PublishWeb \/ WaitDone
    \/ ClearWeb \/ Clear \/ ReturnToDriver

ControlStep ==
    Homed \/ FetchSetpoint \/ TakeFrame \/ FrameDone \/ ManualRelease \/ Tick

Next ==
    \/ CameraStep
    \/ ControlStep
    \/ \E m \in Modes : NewSetpoint(m)
    \/ WebPoll \/ WebDone

Spec == Init /\ [][Next]_vars

\* Both cores run, homing ends, and the camera does not fail for ever.
Fairness ==
    /\ WF_vars(CameraStep)
    /\ WF_vars(Homed) /\ WF_vars(FetchSetpoint) /\ WF_vars(FrameDone)
    /\ WF_vars(ManualRelease) /\ WF_vars(Tick) /\ WF_vars(TakeFrame)

FairSpec == Spec /\ Fairness

-----------------------------------------------------------------------------
(* Properties.                                                             *)

Generations == 0 .. GENERATIONS - 1

\* Type invariant.
TypeOK ==
    /\ camera_pc \in {"capture", "reset", "publish", "publish_web", "wait",
                      "clear_web", "clear", "return"}
    /\ generation \in Generations /\ lent \in BOOLEAN
    /\ done \in BOOLEAN
    /\ control_watch \in Generations \union {None} /\ control_new \in BOOLEAN
    /\ web_watch \in Generations \union {None} /\ web_new \in BOOLEAN
    /\ control_pc \in {"startup", "top", "await", "process", "release", "tick"}
    /\ latest_mode \in {"Manual", "Vision"} /\ setpoint_mode \in {"Manual", "Vision"}
    /\ frame \in Generations \union {None}
    /\ web_frame \in Generations \union {None}
    /\ processed \in Generations \union {None} /\ late \in BOOLEAN /\ unread \in BOOLEAN

\* "SAFETY: Only call this from the camera task when control loop is done"
\* (return_to_driver): the frame the control loop reads is the one that is lent,
\* and stays lent, unless its signal had been given when it was taken.
ReadsLentFrame == control_pc = "process" /\ ~late => lent /\ frame = generation

\* No frame is returned that the control loop has not processed, unless the
\* signal came from a pass that was not reading it (manual mode, or a late one).
NoFrameLost == [][lent /\ ~lent' => processed = generation \/ unread]_vars

\* Camera task and control loop are in step: the frame being read had not been
\* released before, and nothing but the pass that reads it has released the one
\* that is lent.  Only manual mode, which signals for a frame it does not read,
\* can bring them out of step; a pass in vision mode never does it by itself,
\* whatever modes came before and however long the pass takes.
OnlyManualLosesStep ==
    [][~late /\ ~unread /\ (late' \/ unread') => control_pc = "release"]_vars

\* The control loop gets around to every mode the base station insists on,
\* although in vision mode it waits for a frame without a timeout.
ModeTaken ==
    \A m \in Modes :
        (setpoint_mode = m /\ control_pc # "startup")
            ~> (latest_mode = m \/ setpoint_mode # m)

\* The camera task never waits for its signal for ever: frames keep coming.
FramesKeepComing == []<>(camera_pc = "publish")

\* "Invariant: No consumer may access framebuffer memory after the camera task
\* has published the next generation" (FrameBufferView), for the control loop.
ViewInvariant ==
    control_pc = "process" /\ camera_pc \notin {"capture", "reset", "publish"}
        => frame = generation

\* A control loop that stays in vision mode gets back into step with the camera
\* task.  Does not hold: a late pass signals for the frame after its own.
LateHeals == late ~> (setpoint_mode = "Manual" \/ (control_pc = "process" /\ ~late))
=============================================================================
