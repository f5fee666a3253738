SPECIFICATION Spec
CHECK_DEADLOCK FALSE
CONSTANTS
    Scripts <- MCScripts
    Globals <- MCGlobals
    Fuel = 400
    PastLocals = "var"
    Capacities <- Doubling
    Misread <- MCMisread
    Uncompiled <- MCUncompiled
    Crossing <- MCCrossing
    Endless <- MCEndless
INVARIANTS
    MeansWhatItSays
    
    OnlyPhisReachAcross
    OneDefinitionLives
    RegistersAreNotShared
PROPERTIES
    Ends
