CONSTANTS
    Controller = controller
    Master = master
    Writer = {w1}
    fence_enabled = TRUE
    SlowBoot = TRUE
    Faults = {"relinquish"}
    MaxFaults = 1
    Watched = {"late", "overlap"}
SPECIFICATION Spec
INVARIANT MasterOwnsQuorum
