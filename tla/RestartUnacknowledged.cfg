SPECIFICATION Spec
CONSTANTS
    Clients = {a, b, c}
    Delays = {3, 4}
    MaxPass = 2
PROPERTY AcknowledgedBeforeRestart
