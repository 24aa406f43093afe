CONSTANTS
    Controller = controller
    Master = master
    Writer = {w1, w2}
    fence_enabled = TRUE
    SlowBoot = TRUE
    Faults = {"crash", "net", "fence", "sock"}
    MaxFaults = 4
    Watched = {"racing", "allowed", "draining", "exiting", "done", "overlap", "starting"}
SPECIFICATION Spec
INVARIANT MasterIsFresh
SYMMETRY Writers
CONSTRAINT UpToGap
