\* Supported processors: no panic, every entry resumes architecturally.  RIP,
\* RSP, RFLAGS and the SIPI vector take their boundary values (0, the 1- and
\* 15-byte instruction lengths, vectors 0 and 255).
CONSTANTS
    Platforms <- MCSupportedPlatforms
    HostCr0s <- MCHostCr0s
    HostSegments <- MCHostSegments
    ExitRips = {0, 16, 48}
    InstructionLens = {1, 15}
    Rsps = {0, 4096}
    Rflags = {2, 514}
    SipiVectors = {0, 8, 255}
    GuestCacheModes <- MCCachingEnabled
SPECIFICATION Spec
INVARIANTS
    TypeOK
    VmEntrySucceeds
    EveryExitHandled
    VmxonSucceeds
    VmxInstructionsSucceed
PROPERTIES
    GuestResumesArchitecturally
