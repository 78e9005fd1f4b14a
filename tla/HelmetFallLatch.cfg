SPECIFICATION Spec
CONSTANTS
    Samples <- MCSamples
    MotionWin = 3
    MotionRmsMg = 40
    FallRmsMg = 220
    FallFreefallMg = 700
    FallImpactMg = 1300
    FallSwingMg = 400
    StillReports = 2
INVARIANTS
    HitLatchedUntilSent
