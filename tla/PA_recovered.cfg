SPECIFICATION Spec
CONSTANTS
    MaxRefusals = 2
    MaxLost = 0
    MaxDbErrors = 0
    MaxCrashes = 0
INVARIANT HealthyMeansRecovered
