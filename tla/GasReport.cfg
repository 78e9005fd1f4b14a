SPECIFICATION GasSpec
CONSTANTS
    Channels = 4
    FlightMax = 6
    Vcc = 3300
    Millivolts <- MCMillivolts
INVARIANTS
    NeverWedged
    VitalsOnGrid
    ReadingsAreScaled
    GasFollowsRatio
PROPERTIES
    ScanCompletes
