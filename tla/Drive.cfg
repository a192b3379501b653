SPECIFICATION Spec
CONSTANTS
    Frames = {16, 400}
    MaxInFlight = 2
INVARIANTS
    TypeOK
PROPERTIES
    NeutralWhenReleased
    ReleaseStopsMotor
