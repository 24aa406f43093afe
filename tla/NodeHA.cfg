CONSTANTS
    Controller = controller
    Master = master
    Writer = {w1}
    fence_enabled = TRUE
    SlowBoot = TRUE
    Faults = {"crash", "net", "fence", "sock"}
    MaxFaults = 2
    Watched = {"late", "overlap"}
SPECIFICATION Spec
INVARIANTS TypeOK OneMaster MasterOwnsQuorum
