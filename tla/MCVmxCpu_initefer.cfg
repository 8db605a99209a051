\* EFER.LME when the guest starts at the SIPI vector after INIT.
CONSTANTS
    Platforms <- MCSupportedPlatforms
    HostCr0s <- MCHostCr0s
    HostSegments <- MCHostSegments
    ExitRips = {16, 48}
    InstructionLens = {2, 3}
    Rsps = {4096}
    Rflags = {514}
    SipiVectors = {8, 154}
    GuestCacheModes <- MCCachingEnabled
SPECIFICATION Spec
INVARIANTS
    InitResetsEfer
