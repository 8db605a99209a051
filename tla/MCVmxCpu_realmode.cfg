\* A guest started by SIPI executes CPUID (2 bytes) at IP 0FFFEh, the last
\* instruction of its 64 KiB real-mode code segment; a 3-byte instruction
\* there would cross the limit and fault instead of exiting.
CONSTANTS
    Platforms <- MCSupportedPlatforms
    HostCr0s <- MCHostCr0s
    HostSegments <- MCHostSegments
    ExitRips = {65534}
    InstructionLens = {2, 3}
    Rsps = {4096}
    Rflags = {514}
    SipiVectors = {8}
    GuestCacheModes <- MCCachingEnabled
SPECIFICATION Spec
PROPERTIES
    GuestResumesArchitecturally
