\* x2APIC IDs above 255: CPUID.01H:EBX[31:24] repeats an 8-bit ID.
CONSTANTS
    ProcessorCount = 3
    ApicIds <- MCX2ApicIds
SPECIFICATION Spec
CHECK_DEADLOCK FALSE
PROPERTIES
    InitCompletes
