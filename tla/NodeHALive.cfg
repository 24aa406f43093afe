CONSTANTS
    Controller = controller
    Master = master
    Writer = {w1}
    fence_enabled = TRUE
    SlowBoot = TRUE
    Faults = {"crash"}
    MaxFaults = 1
    Watched = {}
SPECIFICATION FairSpec
PROPERTIES StandbyTakesOver WritesEnd ShutdownEnds HandlersEnd
