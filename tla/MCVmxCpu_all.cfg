\* Every processor, unsupported ones included; a panic halts the CPU, so
\* the CPU may stop.
CONSTANTS
    Platforms <- MCAllPlatforms
    HostCr0s <- MCHostCr0s
    HostSegments <- MCHostSegments
    ExitRips = {16, 48}
    InstructionLens = {2, 3}
    Rsps = {4096}
    Rflags = {514}
    SipiVectors = {8, 154}
    GuestCacheModes <- MCCachingEnabled
SPECIFICATION Spec
CHECK_DEADLOCK FALSE
INVARIANTS
    VmEntrySucceeds
PROPERTIES
    GuestResumesArchitecturally
