\* Legacy capability MSRs: the CR3-exiting controls cannot be cleared.
CONSTANTS
    Platforms <- MCLegacyPlatforms
    HostCr0s <- MCHostCr0s
    HostSegments <- MCHostSegments
    ExitRips = {16, 48}
    InstructionLens = {2, 3}
    Rsps = {4096}
    Rflags = {514}
    SipiVectors = {8, 154}
    GuestCacheModes <- MCCachingEnabled
SPECIFICATION Spec
CHECK_DEADLOCK FALSE
INVARIANTS
    EveryExitHandled
