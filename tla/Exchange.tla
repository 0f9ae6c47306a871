------------------------------- MODULE Exchange ------------------------------
(***************************************************************************)
(* The two processors joined by the serial link: the base station's tasks  *)
(* (module BaseStation), the control loop of the ESP32, and a FrameLink in *)
(* either direction.  Nothing is acknowledged or repeated by the link, and *)
(* no task has a timeout.  What is lost is made good because the senders   *)
(* repeat themselves: the panel sends its state after every sample of the  *)
(* knob, the control loop a report at the end of every turn, and either    *)
(* makes the base station send its setpoint again.                         *)
(*                                                                         *)
(* The base station has booted.  Its motor tasks are left out: setpoint is *)
(* what control_motors has sent them (CommandsInOrder of BaseStation is    *)
(* about the rest of the way).  The knife axis is the last action that the *)
(* control loop sent to it (module KnifeMotor).                            *)
(***************************************************************************)
EXTENDS BaseStation, FiniteSets

CONSTANTS
    Scenes,         \* what the vision algorithm may make of a frame, for every motor
    BadSetpoints,   \* what a damaged setpoint frame may be decoded to
    BadReports,     \* what a damaged report may be decoded to
    MaxFlight,      \* bound: frames in a direction's pipes
    MaxInputs,      \* bound: changes of the panel
    MaxFaults       \* bound: losses on the link and restarts of the ESP32

EspSetpoints == [control_mode : ControlModes, knife : MotorActions, params : Parameters]

NoScene == [m \in Motors |-> None]

\* The part of a scene that the base station's motors follow.
EffortOf(s) == [m \in StepperMotors |-> s[m]]

ASSUME ExchangeAssumption ==
    /\ Scenes \subseteq [Motors -> MotorActions]
    /\ Efforts = {EffortOf(s) : s \in Scenes}
    /\ BadSetpoints \subseteq EspSetpoints
    /\ BadReports \subseteq Efforts \cup {None}
    /\ MaxFlight \in Nat \ {0}
    /\ {MaxInputs, MaxFaults} \subseteq Nat

VARIABLES
    \* the link
    esp_new,        \* ESP_SETPOINT_WATCH holds a value that has not been framed
    down,           \* setpoint frames on their way
    up,             \* report frames on their way
    \* the ESP32
    received,       \* SETPOINT_WATCH
    has,            \* it holds a value
    esp_pc,         \* "startup" (homing), "fetch" or "frame" (waiting for the camera)
    latest,         \* latest_setpoint
    knife,          \* KNIFE_MOTOR_SETPOINT
    esp_report,     \* the ESP32's REPORT_WATCH: the effort in it
    esp_report_new, \* it has not been framed
    \* history and bounds
    scene,          \* the scene in the last frame
    inputs, faults

station == <<panel, reports, appstate, outputs, motor>>
link == <<esp_new, down, up>>
control == <<received, has, esp_pc, latest, knife, esp_report, esp_report_new>>
world == <<scene, inputs, faults>>
allVars == <<station, link, control, world>>

Down == INSTANCE FrameLink
    WITH Values <- EspSetpoints, Damaged <- BadSetpoints,
         slot <- esp, slot_new <- esp_new, flight <- down, held <- received

Up == INSTANCE FrameLink
    WITH Values <- Efforts \cup {None}, Damaged <- BadReports,
         slot <- esp_report, slot_new <- esp_report_new, flight <- up, held <- report

-----------------------------------------------------------------------------
(* The base station.                                                       *)

\* An input changes the panel's state; one that does not is as good as a sample.
PanelInput(p) ==
    /\ inputs < MaxInputs /\ p # hmi
    /\ inputs' = inputs + 1
    /\ PanelSends(p)
    /\ UNCHANGED <<link, control, scene, faults>>

\* Ten times a second the knob is sampled, and supervise_hmi sends its state
\* whether or not the knob was turned.
PanelResend == PanelSends(hmi) /\ UNCHANGED <<link, control, world>>

TakePanel == TakeHmi /\ UNCHANGED <<link, control, world>>

TakeEffort == TakeReport /\ UNCHANGED <<link, control, world>>

\* Mutant: the ESP32 is sent its setpoint only when that has changed.
SendSetpointsIfChanged ==
    /\ ControlMotors
    /\ esp_new' = (esp_new \/ esp' # esp)
    /\ UNCHANGED <<down, up, control, world>>

SendSetpoints == ControlMotors /\ esp_new' = TRUE /\ UNCHANGED <<down, up, control, world>>

-----------------------------------------------------------------------------
(* The link.  Pipes hold back the serialising tasks.                       *)

HasRoom(flight) ==
    Cardinality({i \in DOMAIN flight : flight[i].state # "open"}) < MaxFlight

SerialiseSetpoint ==
    /\ HasRoom(down) /\ Down!Take
    /\ UNCHANGED <<panel, reports, appstate, setpoint, setpoint_new, motor, up, has, esp_pc,
                   latest, knife, esp_report, esp_report_new, world>>

SetpointArrives ==
    /\ \E n \in DOMAIN down : \/ Down!Deliver(n) /\ has' = TRUE
                              \/ Down!Reject(n) /\ UNCHANGED has
    /\ UNCHANGED <<panel, reports, appstate, setpoint, setpoint_new, motor, up, esp_pc,
                   latest, knife, esp_report, esp_report_new, world>>

SerialiseReport ==
    /\ HasRoom(up) /\ Up!Take
    /\ UNCHANGED <<panel, report_new, appstate, outputs, motor, esp_new, down, received, has,
                   esp_pc, latest, knife, world>>

ReportDelivered ==
    /\ \E n \in DOMAIN up : \/ Up!Deliver(n) /\ report_new' = TRUE
                            \/ Up!Reject(n) /\ UNCHANGED report_new
    /\ UNCHANGED <<panel, appstate, outputs, motor, esp_new, down, received, has, esp_pc,
                   latest, knife, world>>

LinkLoses ==
    /\ faults < MaxFaults
    /\ faults' = faults + 1
    /\ \/ Down!Lose /\ UNCHANGED <<up, report, esp_report, esp_report_new>>
       \/ Up!Lose /\ UNCHANGED <<down, esp, esp_new, received>>
    /\ UNCHANGED <<panel, report_new, appstate, setpoint, setpoint_new, motor, has, esp_pc,
                   latest, knife, scene, inputs>>

-----------------------------------------------------------------------------
(* The control loop of the ESP32.                                          *)

\* The axis is homed; setpoints that arrived meanwhile wait in their watch.
Homed ==
    /\ esp_pc = "startup"
    /\ esp_pc' = "fetch"
    /\ UNCHANGED <<station, link, received, has, latest, knife, esp_report, esp_report_new,
                   world>>

\* Mutant: a report is sent only when its effort has changed.
ActIfChanged(effort, action) ==
    /\ knife' = action
    /\ esp_report' = effort
    /\ esp_report_new' = (esp_report_new \/ effort # esp_report)

\* The end of a turn: actuate the knife, send a report.
Act(effort, action) ==
    /\ knife' = action
    /\ esp_report' = effort
    /\ esp_report_new' = TRUE

\* A turn of the loop fetches the setpoint.  In vision mode it then waits for a
\* frame of the camera, in manual mode it ends without a pause.
Fetch ==
    /\ esp_pc = "fetch"
    /\ latest' = IF has THEN received ELSE latest
    /\ IF latest'.control_mode = "Vision"
       THEN /\ esp_pc' = "frame"
            /\ UNCHANGED <<knife, esp_report, esp_report_new>>
       ELSE Act(None, latest'.knife) /\ UNCHANGED esp_pc
    /\ UNCHANGED <<station, link, received, has, world>>

FrameDone(s) ==
    /\ esp_pc = "frame"
    /\ esp_pc' = "fetch"
    /\ scene' = s
    /\ Act(EffortOf(s), s["Cut"])
    /\ UNCHANGED <<station, link, received, has, latest, inputs, faults>>

\* Esp32Setpoint::default.
DefaultEsp == [SafeEsp EXCEPT !.params = ZeroParams]

\* What a restart leaves of the reports on their way: the first n, the last of
\* them perhaps without its end.
CutBehind(flight, n) ==
    LET kept == SubSeq(flight, 1, n)
    IN {kept} \cup {[kept EXCEPT ![n].state = "open"] : i \in 1 .. Len(kept)}

\* And of the setpoints: all but the first n, and the next perhaps without its
\* beginning.
CutBefore(flight, n) ==
    LET kept == SubSeq(flight, n + 1, Len(flight))
    IN {kept} \cup {[kept EXCEPT ![1].state = IF @ = "whole" THEN "damaged" ELSE @]
                      : i \in 1 .. Len(kept)}

\* A panic restarts the ESP32 with empty watches and homes the knife.
EspRestarts ==
    /\ faults < MaxFaults
    /\ faults' = faults + 1
    /\ esp_pc' = "startup"
    /\ received' = DefaultEsp /\ has' = FALSE /\ latest' = DefaultEsp
    /\ knife' = Plain("Home")
    /\ esp_report' = None /\ esp_report_new' = FALSE
    /\ \E n \in 0 .. Len(up) : up' \in CutBehind(up, n)
    /\ \E n \in 0 .. Len(down) : down' \in CutBefore(down, n)
    /\ UNCHANGED <<station, esp_new, scene, inputs>>

-----------------------------------------------------------------------------

\* Both processors have booted; the ESP32 is homing the knife.
ExchangeInit ==
    /\ hmi = DefaultPanel /\ hmi_new = FALSE
    /\ report = None /\ report_new = FALSE
    /\ app = DefaultApp /\ app_new = FALSE
    /\ esp = SafeEsp /\ esp_new = TRUE
    /\ setpoint = [m \in StepperMotors |-> Plain("Coast")]
    /\ setpoint_new = [m \in StepperMotors |-> TRUE]
    /\ motor = [m \in StepperMotors |-> [NewMotor EXCEPT !.prev = Plain("Coast")]]
    /\ down = <<>> /\ up = <<>>
    /\ received = DefaultEsp /\ has = FALSE /\ esp_pc = "startup" /\ latest = DefaultEsp
    /\ knife = Plain("Home") /\ esp_report = None /\ esp_report_new = FALSE
    /\ scene = NoScene
    /\ inputs = 0 /\ faults = 0

ExchangeNext ==
    \/ \E p \in PanelStates : PanelInput(p)
    \/ PanelResend \/ TakePanel \/ TakeEffort \/ SendSetpoints
    \/ SerialiseSetpoint \/ SetpointArrives \/ SerialiseReport \/ ReportDelivered
    \/ LinkLoses
    \/ Homed \/ Fetch \/ EspRestarts
    \/ \E s \in Scenes : FrameDone(s)

\* Every task is polled when it is woken, the knob is sampled, bytes get through
\* the UARTs, homing comes to an end and the camera delivers frames.  The samples
\* are 100 ms apart: between two of them manage_appstate, which takes the panel's
\* state first, also gets to a report.  Nothing is assumed of the operator and
\* the scene, and nothing of losses and restarts.
ExchangeFairness ==
    /\ WF_allVars(PanelResend) /\ WF_allVars(TakePanel) /\ SF_allVars(TakeEffort)
    /\ WF_allVars(SendSetpoints)
    /\ WF_allVars(SerialiseSetpoint) /\ WF_allVars(SetpointArrives)
    /\ WF_allVars(SerialiseReport) /\ WF_allVars(ReportDelivered)
    /\ WF_allVars(Homed) /\ WF_allVars(Fetch) /\ WF_allVars(\E s \in Scenes : FrameDone(s))

ExchangeSpec == ExchangeInit /\ [][ExchangeNext]_allVars /\ ExchangeFairness

-----------------------------------------------------------------------------
(* Properties.                                                             *)

\* The ESP32 ends up with what the panel says, and in manual mode, or with the
\* panel stopped, so does the knife: also when the setpoint was lost, arrived as
\* another one, or was forgotten in a restart, since every sample of the knob and
\* every report makes the base station repeat it.
PanelReachesKnife ==
    \A p \in PanelStates \cup {DefaultPanel} :
        <>[](hmi = p) =>
            <>[](/\ latest = EspFor(p)
                 /\ EspFor(p).control_mode = "Manual" => knife = EspFor(p).knife)

\* In vision mode the base station's motors end up with what the vision
\* algorithm says of the scene, and so does the knife: a report that was lost or
\* damaged, and the effort that appstate kept from an earlier scene or from an
\* ESP32 that a damaged setpoint had put into vision mode, are overwritten.
SceneReachesMotors ==
    \A p \in PanelStates : \A s \in Scenes :
        p.enable /\ p.control_mode = "Vision" =>
            (<>[](hmi = p /\ scene = s) => <>[](setpoint = EffortOf(s) /\ knife = s["Cut"]))
=============================================================================
