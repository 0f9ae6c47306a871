CONSTANTS
    Parameters = {"reset", "zero"}
    ResetParams = "reset"
    ZeroParams = "zero"
    PanelStates <- TwoPanels
    Efforts <- TheirEfforts
    Scenes <- TwoScenes
    BadSetpoints <- BadSetpoint
    BadReports <- BadReport
    MaxFlight = 1
    MaxInputs = 2
    MaxFaults = 1
SPECIFICATION ExchangeSpec
PROPERTIES PanelReachesKnife SceneReachesMotors
